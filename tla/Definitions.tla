----------------------------- MODULE Definitions -----------------------------
(* The topology of a vhost and its definitions file (vhost.cr): exchanges,  *)
(* queues and bindings are declared and deleted in memory; each change of a *)
(* durable one is sent as a frame to the fiber that appends it to the file; *)
(* the file is folded into a topology when the vhost is loaded and replaced *)
(* by a snapshot of it when it holds deletions, and at a shutdown.          *)
(*                                                                          *)
(* Fibers run one at a time, each until it waits. Here one waits where it   *)
(* deletes something from inside another change, for apply yields on every  *)
(* 128th call and Queue#close always, and where @save is full. An apply     *)
(* that yields before it has looked at anything is one that begins later.   *)
(*                                                                          *)
(* Bindings have one routing key here: a second one is a second binding of  *)
(* the same kind. Their arguments are a set, and so are an exchange's.      *)
(* Exchanges that delay or keep messages, and exclusive queues, are left    *)
(* out.                                                                     *)
EXTENDS Integers, Sequences, FiniteSets, FiniteSetsExt, SequencesExt

CONSTANTS
  Fibers,       \* the fibers of clients that change the topology
  Exchanges,    \* names of exchanges
  Queues,       \* names of queues
  Attributes,   \* name -> the attributes it may be declared with
  Wirings,      \* the sources, destinations and arguments of bindings that are
                \* made or removed
  SaveSize,     \* the capacity of @save, 128 in the code
  MaxFrames,    \* bound: no change begins with more frames in the file and on the way
  MaxRestarts   \* bound on crashes and shutdowns

Names == Exchanges \union Queues

\* Attributes are [durable, auto_delete, kind, args]: the kind of an exchange is
\* "headers" or another one, that of a queue "queue"
Absent == [durable |-> FALSE, auto_delete |-> FALSE, kind |-> "absent", args |-> {}]

ASSUME DefinitionsAssumption ==
  /\ IsFiniteSet(Names) /\ Exchanges \cap Queues = {}
  /\ \A x \in Names : \A a \in Attributes[x] :
       /\ a.kind # "absent"
       /\ (a.kind = "queue") = (x \in Queues)
  /\ \A w \in Wirings : w.src \in Exchanges /\ w.dst \in Names
  /\ SaveSize \in Nat \ {0} /\ MaxFrames \in Nat /\ MaxRestarts \in Nat

VARIABLES
  memory,    \* @exchanges and @queues: what is there, how it is bound, and what of
             \* it has set @deleted
  todo,      \* what each fiber has still to do in the apply it is in
  save,      \* @save: the frames the writer has still to write, with those of the
             \* fibers that wait for room at its end
  file,      \* the frames of definitions.amqp
  gaps,      \* history: where the file is known to differ, see README.md
  written,   \* history: the topology that the last frame of the file led to
  restarts   \* how often the broker crashed or was stopped

vars == <<memory, todo, save, file, gaps, written, restarts>>

-----------------------------------------------------------------------------
(* A topology: things, name -> attributes; bindings between them; deleted,   *)
(* the things that have set @deleted.                                        *)

Nothing == [things |-> [x \in Names |-> Absent], bindings |-> {}, deleted |-> {}]

Present(t, x) == t.things[x] # Absent
Durable(t, x) == t.things[x].durable
Pair(b)       == <<b.src, b.dst>>
BothDurable(t, b) == Durable(t, b.src) /\ Durable(t, b.dst)

\* What an exchange files a binding under: a headers exchange merges the
\* arguments with its own, the others ignore them
BindingKey(t, src, args) ==
  IF t.things[src].kind = "headers" THEN t.things[src].args \union args ELSE {}

Binding(t, src, dst, args) == [src |-> src, dst |-> dst, key |-> BindingKey(t, src, args)]

-----------------------------------------------------------------------------
(* The file.                                                                *)

DeclareFrame(x, a)          == [op |-> "declare", name |-> x, attributes |-> a]
DeleteFrame(x)              == [op |-> "delete", name |-> x]
BindFrame(src, dst, args)   == [op |-> "bind", src |-> src, dst |-> dst, args |-> args]
UnbindFrame(src, dst, args) == [BindFrame(src, dst, args) EXCEPT !.op = "unbind"]

\* load_definitions!: the binds that are left when x is deleted
Dropped(binds, x) == {b \in binds : b.dst # x}

\* load_definitions!: what a frame does to the declarations and binds read so far
LoadFrame(found, f) ==
  CASE f.op = "declare" -> [found EXCEPT !.things[f.name] = f.attributes]
    [] f.op = "delete"  -> [found EXCEPT !.things[f.name] = Absent,
                                         !.binds = Dropped(@, f.name)]
    [] f.op = "bind"    -> [found EXCEPT !.binds = @ \union {f}]
    [] f.op = "unbind"  -> [found EXCEPT !.binds = @ \ {BindFrame(f.src, f.dst, f.args)}]

Found(frames) == FoldLeft(LoadFrame, [things |-> Nothing.things, binds |-> {}], frames)

\* load_definitions!: a bind whose source or destination is missing is not applied
Load(frames) ==
  LET found == Found(frames)
      t     == [Nothing EXCEPT !.things = found.things]
  IN [t EXCEPT !.bindings = {Binding(t, f.src, f.dst, f.args) :
        f \in {f \in found.binds : Present(t, f.src) /\ Present(t, f.dst)}}]

\* The binds that were not, and stay in a file that is not replaced
Orphans(frames) ==
  LET found == Found(frames)
  IN {Pair(f) : f \in {f \in found.binds : ~(Present(found, f.src) /\ Present(found, f.dst))}}

\* should_compact
ShouldCompact(frames) == \E i \in DOMAIN frames : frames[i].op \in {"delete", "unbind"}

\* A set as a sequence, in the order of a hash
Listed(S) == FoldSet(LAMBDA x, seq : Append(seq, x), <<>>, S)

-----------------------------------------------------------------------------
(* What a fiber has to do.                                                  *)

\* It deletes x by its name, unbinds all that is bound to a thing it has removed,
\* sends a frame, or waits for room in @save
Apply(x)     == [do |-> "apply", name |-> x]
Loop(to)     == [do |-> "unbind", bindings |-> to]
Send(frame)  == [do |-> "send", frame |-> frame]
Wait         == [do |-> "wait"]

Tasks(td) == UNION {Range(td[f]) : f \in Fibers}

\* The bindings that are left to what is no longer there
Dangling(td) == UNION {task.bindings : task \in {task \in Tasks(td) : task.do = "unbind"}}

\* The frames of changes made to memory that are not sent yet
Owed(td) == {task.frame : task \in {task \in Tasks(td) : task.do = "send"}}

\* What a fiber goes on with
Does(f, do) == todo[f] # <<>> /\ Head(todo[f]).do = do

\* No fiber is between two points where it may wait
Free == \A f \in Fibers : ~Does(f, "unbind") /\ ~Does(f, "send")

\* A fiber begins a change
Begins(f) == Free /\ todo[f] = <<>> /\ Len(file) + Len(save) <= MaxFrames

BoundFrom(t, td, e) == {b \in t.bindings \union Dangling(td) : b.src = e}

-----------------------------------------------------------------------------
(* compact!                                                                 *)

\* mutant: bindings between exchanges are forgotten
FaultyKept(t, bindings) == {b \in bindings : Durable(t, b.src) /\ b.dst \in Queues}

\* The bindings of the durable exchanges, whatever they lead to
Kept(t, bindings) == {b \in bindings : Durable(t, b.src)}

\* All that is durable, and the bindings of the durable exchanges
Snapshot(t, dangling) ==
  Listed({DeclareFrame(x, t.things[x]) : x \in {x \in Names : Durable(t, x)}})
    \o Listed({BindFrame(b.src, b.dst, b.key) : b \in Kept(t, t.bindings \union dangling)})

-----------------------------------------------------------------------------
(* How the file is known to differ: ghosts, the pairs of names for which it *)
(* keeps a binding that the topology has lost; torn, the names of things     *)
(* that were declared before the deletion of their predecessor was sent; and *)
(* lost, the bindings made before the frame that unbinds them was sent.      *)

NoGaps == [ghosts |-> {}, torn |-> {}, lost |-> {}]

Told(frame) ==
  CASE frame.op = "declare" -> [gaps EXCEPT !.torn = @ \ {frame.name}]
    [] frame.op = "delete" ->
         [ghosts |-> {g \in gaps.ghosts : g[2] # frame.name},
          torn   |-> IF Durable(memory, frame.name) THEN gaps.torn \union {frame.name}
                                                    ELSE gaps.torn \ {frame.name},
          lost   |-> {b \in gaps.lost : frame.name \notin {b.src, b.dst}}]
    [] frame.op = "bind" ->
         [gaps EXCEPT !.lost = @ \ {Binding(memory, frame.src, frame.dst, frame.args)}]
    [] frame.op = "unbind" ->
         [gaps EXCEPT !.lost = @ \union
            ({Binding(memory, frame.src, frame.dst, frame.args)} \cap memory.bindings)]

\* A topology and how the file that holds it may differ
View(t, g, td) == [things |-> t.things, bindings |-> t.bindings, gaps |-> g, owed |-> Owed(td)]

\* @save.send: a frame that finds it full makes the fiber wait
Sends(f, frame, t, rest) ==
  LET waits == IF Len(save) < SaveSize THEN <<>> ELSE <<Wait>>
  IN /\ gaps' = Told(frame)
     /\ todo' = [todo EXCEPT ![f] = waits \o rest]
     /\ save' = Append(save, [frame |-> frame, by |-> f, leads |-> View(t, gaps', todo')])

Frames == [i \in DOMAIN save |-> save[i].frame]

-----------------------------------------------------------------------------
Init ==
  /\ memory = Nothing /\ todo = [f \in Fibers |-> <<>>]
  /\ save = <<>> /\ file = <<>> /\ gaps = NoGaps
  /\ written = View(Nothing, NoGaps, todo)
  /\ restarts = 0

\* Exchange.Declare and Queue.Declare of something new
Declare(f, x, a) ==
  /\ Begins(f) /\ ~Present(memory, x)
  /\ memory' = [memory EXCEPT !.things[x] = a]
  /\ IF a.durable THEN Sends(f, DeclareFrame(x, a), memory', <<>>)
                  ELSE UNCHANGED <<todo, save, gaps>>
  /\ UNCHANGED <<file, written, restarts>>

\* mutant: an exchange that deletes itself is not told to the file
FaultyTells(x) ==
  IF Durable(memory, x) /\ x \notin memory.deleted THEN <<Send(DeleteFrame(x))>> ELSE <<>>

Tells(x) == IF Durable(memory, x) THEN <<Send(DeleteFrame(x))>> ELSE <<>>

\* apply: x is removed, what is bound to it is unbound, then an exchange deletes itself
\* and its frame is sent, or the frame is sent and the queue deletes itself. Either
\* comes back here, by the name, unless that is how it began
Removes(f, x, rest) ==
  LET to     == {b \in memory.bindings : b.dst = x /\ b.src # x}
      from   == {b \in memory.bindings : b.src = x}
      itself == IF x \in memory.deleted THEN <<>> ELSE <<Apply(x)>>
      Left(tasks) == [i \in DOMAIN tasks |->
                        IF tasks[i].do = "unbind"
                        THEN Loop({b \in tasks[i].bindings : b.src # x}) ELSE tasks[i]]
  IN /\ memory' = [things   |-> [memory.things EXCEPT ![x] = Absent],
                   bindings |-> memory.bindings \ (to \union from),
                   deleted  |-> memory.deleted \ {x}]
     /\ todo' = [g \in Fibers |->
                   IF g = f THEN <<Loop(to)>>
                                 \o (IF x \in Exchanges THEN itself \o Tells(x) ELSE Tells(x) \o itself)
                                 \o Left(rest)
                   ELSE Left(todo[g])]
     /\ gaps' = [gaps EXCEPT !.ghosts = @ \union
                   {Pair(b) : b \in {b \in from : BothDurable(memory, b)}}]

\* Exchange.Delete and Queue.Delete, and a queue that expires
Delete(f, x) ==
  /\ Begins(f) /\ Present(memory, x)
  /\ Removes(f, x, <<>>)
  /\ UNCHANGED <<save, file, written, restarts>>

\* An auto-delete queue loses its last consumer: Queue#delete
QueueEnds(f, q) ==
  /\ Begins(f) /\ memory.things[q].auto_delete /\ q \notin memory.deleted
  /\ memory' = [memory EXCEPT !.deleted = @ \union {q}]
  /\ todo' = [todo EXCEPT ![f] = <<Apply(q)>>]
  /\ UNCHANGED <<save, file, gaps, written, restarts>>

\* apply of a deletion inside another change, after its yield: of what has the name now
Applies(f) ==
  /\ Free /\ Does(f, "apply")
  /\ LET x == Head(todo[f]).name
     IN IF Present(memory, x) THEN Removes(f, x, Tail(todo[f]))
        ELSE todo' = [todo EXCEPT ![f] = Tail(@)] /\ UNCHANGED <<memory, gaps>>
  /\ UNCHANGED <<save, file, written, restarts>>

\* mutant: looks before the binding is undone
FaultyLastUnbound(t, td, e) ==
  t.things[e].auto_delete /\ e \notin t.deleted /\ BoundFrom(memory, todo, e) = {}

\* after_unbind: e was left without bindings, and Exchange#delete has not begun
LastUnbound(t, td, e) ==
  t.things[e].auto_delete /\ e \notin t.deleted /\ BoundFrom(t, td, e) = {}

\* Exchange#unbind
Unbinds(f, t, td, e) ==
  IF LastUnbound(t, td, e)
  THEN /\ memory' = [t EXCEPT !.deleted = @ \union {e}]
       /\ todo' = [td EXCEPT ![f] = <<Apply(e)>> \o @]
  ELSE memory' = t /\ todo' = td

\* The bindings to what was removed are undone one by one, in the order of a hash
UnbindsNext(f) ==
  /\ Does(f, "unbind")
  /\ LET to == Head(todo[f]).bindings
     IN \/ /\ to = {}
           /\ todo' = [todo EXCEPT ![f] = Tail(@)] /\ UNCHANGED memory
        \/ \E b \in to : Unbinds(f, memory, [todo EXCEPT ![f][1].bindings = @ \ {b}], b.src)
  /\ UNCHANGED <<save, file, gaps, written, restarts>>

\* A frame that is due is sent
SendsNext(f) ==
  /\ Does(f, "send")
  /\ Sends(f, Head(todo[f]).frame, memory, Tail(todo[f]))
  /\ UNCHANGED <<memory, file, written, restarts>>

\* The frame of a fiber that waited has come into @save
WaitEnds(f) ==
  /\ Free /\ Does(f, "wait")
  /\ \A i \in SaveSize + 1..Len(save) : save[i].by # f
  /\ todo' = [todo EXCEPT ![f] = Tail(@)]
  /\ UNCHANGED <<memory, save, file, gaps, written, restarts>>

\* Exchange.Bind and Queue.Bind
Bind(f, src, dst, args) ==
  /\ Begins(f) /\ Present(memory, src) /\ Present(memory, dst)
  /\ LET b == Binding(memory, src, dst, args)
     IN /\ memory' = [memory EXCEPT !.bindings = @ \union {b}]
        /\ IF BothDurable(memory, b) THEN Sends(f, BindFrame(src, dst, args), memory', <<>>)
                                     ELSE UNCHANGED <<todo, save, gaps>>
  /\ UNCHANGED <<file, written, restarts>>

\* load_definitions! compares the arguments of the frames, the exchange does not
Unfound(t, frames, src, dst, args) ==
  {Pair(f) : f \in {f \in Found(frames).binds :
     /\ Pair(f) = <<src, dst>> /\ f.args # args
     /\ BindingKey(t, src, f.args) = BindingKey(t, src, args)}}

\* Exchange.Unbind and Queue.Unbind, of a binding that need not exist. An auto-delete
\* exchange that is left without any is deleted before the Unbind frame is sent
Unbind(f, src, dst, args) ==
  /\ Begins(f) /\ Present(memory, src) /\ Present(memory, dst)
  /\ LET b    == Binding(memory, src, dst, args)
         tell == IF BothDurable(memory, b) THEN <<Send(UnbindFrame(src, dst, args))>> ELSE <<>>
     IN Unbinds(f, [memory EXCEPT !.bindings = @ \ {b}], [todo EXCEPT ![f] = tell], src)
  /\ gaps' = [gaps EXCEPT !.ghosts = @ \union
                 Unfound(memory, file \o Frames, src, dst, args)]
  /\ UNCHANGED <<save, file, written, restarts>>

\* save!: the writer appends a frame and syncs the file
Save ==
  /\ Free /\ save # <<>>
  /\ file' = Append(file, Head(save).frame) /\ written' = Head(save).leads
  /\ save' = Tail(save)
  /\ UNCHANGED <<memory, todo, gaps, restarts>>

Restart(frames) ==
  /\ restarts < MaxRestarts /\ restarts' = restarts + 1
  /\ memory' = Load(frames)
  /\ file' = IF ShouldCompact(frames) THEN Snapshot(Load(frames), {}) ELSE frames
  /\ gaps' = [NoGaps EXCEPT !.ghosts = IF ShouldCompact(frames) THEN {} ELSE Orphans(frames)]
  /\ todo' = [f \in Fibers |-> <<>>] /\ save' = <<>>
  /\ written' = View(memory', gaps', todo')

\* The broker dies and is started again: the frames not written are lost
Crash == Restart(file)

\* close and a start: the file is a snapshot, with the bindings of durable
\* exchanges to what is not durable or no longer there
Shutdown == Free /\ Restart(Snapshot(memory, Dangling(todo)))

Next ==
  \/ \E f \in Fibers :
       \/ \E x \in Names : (\E a \in Attributes[x] : Declare(f, x, a)) \/ Delete(f, x)
       \/ \E q \in Queues : QueueEnds(f, q)
       \/ \E w \in Wirings : Bind(f, w.src, w.dst, w.args) \/ Unbind(f, w.src, w.dst, w.args)
       \/ Applies(f) \/ UnbindsNext(f) \/ SendsNext(f) \/ WaitEnds(f)
  \/ Save
  \/ Crash
  \/ Shutdown

Spec == Init /\ [][Next]_vars

-----------------------------------------------------------------------------
(* Properties.                                                              *)

\* What was read from the file is the durable part of a view, except for its gaps and
\* for what the frames it owes will undo
Restores(loaded, v) ==
  LET doomed   == {frame.name : frame \in {frame \in v.owed : frame.op = "delete"}}
      unbound  == {Pair(frame) : frame \in {frame \in v.owed : frame.op = "unbind"}}
      Ends(b)  == {b.src, b.dst}
  IN /\ \A x \in Names \ (v.gaps.torn \union doomed) :
          loaded.things[x] = IF Durable(v, x) THEN v.things[x] ELSE Absent
     /\ \A b \in v.bindings \ v.gaps.lost :
          BothDurable(v, b) /\ Ends(b) \cap v.gaps.torn = {} => b \in loaded.bindings
     /\ \A b \in loaded.bindings \ v.bindings :
          Pair(b) \in v.gaps.ghosts \union unbound \/ Ends(b) \cap doomed # {}

\* VHost#apply and save!: the frames on the file and on the way to it fold into what is
\* durable in memory, whatever is declared, bound, unbound and deleted with all that
\* goes with it, by fibers that change it while a deletion waits, and through
\* compactions. Not so for what a frame that is due will still undo; for a thing
\* declared before the Delete frame of its predecessor was sent, which that frame
\* deletes in the file; for a binding made before an Unbind frame was; and for the
\* bindings that the file keeps when their source is deleted.
LogExact == Restores(Load(file \o Frames), View(memory, gaps, todo))

\* VHost#load! and compact!: a broker that was stopped comes back with what was
\* durable, and with no more than a binding by name of what a deletion was unbinding.
\* One that crashed comes back with what was durable when the last frame on the file
\* was sent, be it in the middle of a deletion, except as in LogExact.
RestartRestores ==
  [][restarts' # restarts =>
       /\ Crash => Restores(memory', written)
       /\ Shutdown => Restores(memory', [View(memory, NoGaps, todo) EXCEPT !.owed = {},
                                   !.gaps.ghosts = {Pair(b) : b \in Dangling(todo)}])]_vars

\* VHost#apply, Exchange#after_unbind and #delete: what is bound exists, or a fiber is
\* about to unbind it; an exchange that deletes itself is about to be removed when its
\* last binding goes, whoever undid that, and although others may bind it again or
\* delete it in between; and whatever set @deleted is about to be removed.
DeletesCascade ==
  [][/\ \A b \in memory'.bindings : Present(memory', b.src) /\ Present(memory', b.dst)
     /\ \A b \in Dangling(todo)' : Present(memory', b.src)
     /\ restarts' # restarts \/ \A e \in Exchanges :
          /\ memory.things[e].auto_delete /\ BoundFrom(memory, todo, e) # {}
          /\ Present(memory', e) /\ BoundFrom(memory, todo, e)' = {}
          => e \in memory'.deleted
     /\ \A x \in memory'.deleted : Apply(x) \in Tasks(todo)']_vars

=============================================================================
