-------------------------- MODULE FileStoreProofs ---------------------------
(***************************************************************************)
(* Theorems about FileStore, for any events and any number of crashes,     *)
(* failures and appends cut short.  What the store does between two calls  *)
(* of its backend is in StoreProofs; what is proved here of logs must do   *)
(* without the chains, which a lost line breaks.                           *)
(***************************************************************************)
EXTENDS FileStore, StoreProofs

-----------------------------------------------------------------------------
(* Types *)

FileTyped ==
    /\ FlowOK /\ HeldOK
    /\ openEnd \in Event \cup {None, Torn}
    /\ poisoned \in BOOLEAN
    /\ tears \in Nat

\* An append, whole or cut short, adds at most the event it is about.
LEMMA LineTypes ==
    ASSUME FileTyped, phase = "appending", AppendLine \/ Tear
    PROVE  /\ ev \in Event /\ disk' \subseteq Event
           /\ openEnd' \in Event \cup {None, Torn}
           /\ disk' \subseteq disk \cup {ev}
           /\ openEnd # None => disk' \subseteq disk
<1>1. ev \in Event /\ disk \subseteq Event
  BY DEF FileTyped, FlowOK
<1>2. QED
  BY <1>1 DEF AppendLine, Tear

\* The end of a put: only the answers are left of it.
LEMMA RejectedTypes ==
    ASSUME FileTyped, Rejected, disk' \subseteq Event, failures' \in Nat
    PROVE  FlowOK' /\ HeldOK'
<1>1. put \in Put /\ put.event \in Event
  BY DEF Rejected, FileTyped, FlowOK, Put
<1>2. acked' \subseteq Event /\ refused' \subseteq Event
  BY <1>1, AnswerTypes DEF Rejected, FileTyped
<1>3. FlowOK'
  BY <1>2 DEF Rejected, Idle, FileTyped, FlowOK, viewVars, pendingVars
<1>4. HeldOK'
  BY DEF Rejected, FileTyped, HeldOK, pendingVars
<1>5. QED
  BY <1>3, <1>4

LEMMA RestartTypes ==
    ASSUME FileTyped, Restart, disk' \subseteq Event
    PROVE  FlowOK' /\ HeldOK'
<1>1. FlowOK'
  BY DEF Restart, Idle, FileTyped, FlowOK, OrNone, answerVars
<1>2. HeldOK'
  BY EmptyHeld DEF Restart, HeldOK
<1>3. QED
  BY <1>1, <1>2

LEMMA UntouchedIsNext == FileUntouched => Next /\ UNCHANGED fileVars
BY DEF FileUntouched, Next, Work

LEMMA FileTypedInit == FInit => FileTyped
<1> SUFFICES ASSUME FInit PROVE FileTyped
  OBVIOUS
<1>1. FlowOK /\ HeldOK
  BY FlowInit, HeldInit DEF FInit
<1>2. openEnd \in Event \cup {None, Torn} /\ poisoned \in BOOLEAN /\ tears \in Nat
  BY DEF FInit
<1>3. QED
  BY <1>1, <1>2 DEF FileTyped

LEMMA FileTypedNext == FileTyped /\ [FNext]_fvars => FileTyped'
<1> SUFFICES ASSUME FileTyped, [FNext]_fvars PROVE FileTyped'
  OBVIOUS
<1>0. /\ FlowOK /\ HeldOK /\ disk \subseteq Event /\ failures \in Nat
      /\ openEnd \in Event \cup {None, Torn} /\ poisoned \in BOOLEAN /\ tears \in Nat
  BY DEF FileTyped, FlowOK
<1>1. CASE FileUntouched \/ UNCHANGED fvars
  <2>1. [Next]_vars /\ UNCHANGED fileVars
    BY <1>1, UntouchedIsNext DEF fvars
  <2>2. FlowOK' /\ HeldOK'
    BY <1>0, <2>1, FlowNext, HeldNext
  <2>3. QED
    BY <1>0, <2>1, <2>2 DEF FileTyped, fileVars
<1>2. CASE FilePersist
  <2>1. disk' \subseteq Event /\ openEnd' \in Event \cup {None, Torn}
    BY <1>2, LineTypes DEF FilePersist
  <2>2. FlowOK'
    BY <1>0, <1>2, <2>1 DEF FilePersist, FlowOK, viewVars, pendingVars, answerVars
  <2>3. HeldOK'
    BY <1>0, <1>2 DEF FilePersist, HeldOK, pendingVars
  <2>4. QED
    BY <1>0, <1>2, <2>1, <2>2, <2>3 DEF FilePersist, FileTyped
<1>3. CASE FileFail
  <2>1. disk' \subseteq Event /\ openEnd' \in Event \cup {None, Torn} /\ tears' \in Nat
    BY <1>0, <1>3, LineTypes DEF FileFail, Rejected, Tear
  <2>2. failures' \in Nat
    BY <1>0, <1>3 DEF FileFail
  <2>3. FlowOK' /\ HeldOK'
    BY <1>3, <2>1, <2>2, RejectedTypes DEF FileFail
  <2>4. QED
    BY <1>3, <2>1, <2>3 DEF FileFail, FileTyped
<1>4. CASE FilePoisoned
  <2>1. FlowOK' /\ HeldOK'
    BY <1>0, <1>4, RejectedTypes DEF FilePoisoned
  <2>2. QED
    BY <1>0, <1>4, <2>1 DEF FilePoisoned, FileTyped, fileVars
<1>5. CASE FileCrash
  <2>1. disk' \subseteq Event /\ openEnd' \in Event \cup {None, Torn} /\ tears' \in Nat
    BY <1>0, <1>5, LineTypes DEF FileCrash, Tear
  <2>2. FlowOK' /\ HeldOK'
    BY <1>5, <2>1, RestartTypes DEF FileCrash
  <2>3. QED
    BY <1>5, <2>1, <2>2 DEF FileCrash, FileTyped
<1>6. QED
  BY <1>1, <1>2, <1>3, <1>4, <1>5 DEF FNext

LEMMA FileTypedInvariant == FSpec => []FileTyped
BY FileTypedInit, FileTypedNext, PTL DEF FSpec

(***************************************************************************)
(* Every variable of the store keeps its range over a file whose appends   *)
(* may be cut short; what is open at its end is nothing, one event or a    *)
(* piece of a line (store-node.js:18-23, 52-58).                           *)
(***************************************************************************)
THEOREM FileStoreTypes == FSpec => []FTypeOK
<1>1. FileTyped => FTypeOK
  BY DEF FileTyped, FTypeOK, TypeOK, FlowOK, HeldOK, OrderOK, CapsOK, OrNone
<1>2. QED
  BY <1>1, FileTypedInvariant, PTL

-----------------------------------------------------------------------------
(* Positions *)

\* No log in memory goes beyond its head, over whatever holes.
NothingSkipped == \A f \in applied : SeqOf[f] <= TipSeq(heads[AuthorOf[f]])

\* Next is the position after the head, for the file as for memory.
Continues(e) == SeqOf[e] = TipSeq(heads[AuthorOf[e]]) + 1

(***************************************************************************)
(* While it may write, the process knows every event of the file, so that  *)
(* what it appends next stands at a position of its own.  Once the queue   *)
(* is poisoned it may not know the last line, and writes no more.          *)
(***************************************************************************)
NothingUnknown ==
    mode = "up" /\ ~poisoned => \A f \in disk :
        SeqOf[f] <= TipSeq(heads[AuthorOf[f]]) \/ (phase = "written" /\ f = ev)

\* load goes through each author's events from below.
LoadingOK ==
    mode = "loading" =>
        /\ phase = "idle" /\ queue = <<>> /\ ~poisoned
        /\ applied \subseteq disk
        /\ \A f \in applied, g \in disk \ applied :
               AuthorOf[f] = AuthorOf[g] => SeqOf[f] < SeqOf[g]

SlotOK ==
    /\ OneEventPerSlot
    /\ NothingSkipped
    /\ NothingUnknown
    /\ LoadingOK
    /\ phase # "idle" => Continues(ev)
    /\ poisoned => phase # "written"

LEMMA Positions ==
    ASSUME FlowOK
    PROVE  /\ \A e \in Event : SeqOf[e] \in Nat /\ AuthorOf[e] \in Author /\ e # None
           /\ \A a \in Author : TipSeq(heads[a]) \in Nat
           /\ phase # "idle" => ev \in Event
           /\ applied \subseteq Event /\ disk \subseteq Event
<1>1. \A h \in Event \cup {None} : TipSeq(h) \in Nat
  BY EventAssumption DEF TipSeq
<1>2. \A a \in Author : heads[a] \in Event \cup {None}
  BY DEF FlowOK, OrNone
<1>3. QED
  BY <1>1, <1>2, EventAssumption DEF FlowOK

\* What continues its log is in neither the log nor, before it is written, the file.
LEMMA ContinuesIsNew ==
    ASSUME FlowOK, NothingSkipped, NEW e \in Event, Continues(e)
    PROVE  /\ e \notin applied
           /\ \A f \in applied : AuthorOf[f] = AuthorOf[e] => SeqOf[f] < SeqOf[e]
<1>1. \A f \in applied : AuthorOf[f] = AuthorOf[e] => SeqOf[f] < SeqOf[e]
  BY Positions DEF NothingSkipped, Continues
<1>2. SeqOf[e] \in Nat
  BY Positions
<1>3. QED
  BY <1>1, <1>2

\* A head that moves on to an event which continues its log.
LEMMA ApplyMoves ==
    ASSUME FlowOK, NEW e \in Event, Apply(e)
    PROVE  /\ applied' = applied \cup {e}
           /\ heads'[AuthorOf[e]] = e /\ TipSeq(heads'[AuthorOf[e]]) = SeqOf[e]
           /\ \A a \in Author \ {AuthorOf[e]} : heads'[a] = heads[a]
<1>1. e # None /\ AuthorOf[e] \in Author
  BY Positions
<1>2. heads'[AuthorOf[e]] = e /\ \A a \in Author \ {AuthorOf[e]} : heads'[a] = heads[a]
  BY <1>1 DEF Apply, FlowOK
<1>3. QED
  BY <1>1, <1>2 DEF Apply, TipSeq

LEMMA ApplyKeepsSlots ==
    ASSUME FlowOK, NEW e \in Event, Apply(e), OnePerSlot(applied), NothingSkipped,
           \A f \in applied : AuthorOf[f] = AuthorOf[e] => SeqOf[f] < SeqOf[e]
    PROVE  OnePerSlot(applied)' /\ NothingSkipped'
<1>1. SeqOf[e] \in Nat /\ AuthorOf[e] \in Author /\ applied \subseteq Event
      /\ \A f \in applied : SeqOf[f] \in Nat /\ AuthorOf[f] \in Author
  BY Positions
<1>2. /\ applied' = applied \cup {e} /\ TipSeq(heads'[AuthorOf[e]]) = SeqOf[e]
      /\ \A a \in Author \ {AuthorOf[e]} : heads'[a] = heads[a]
  BY ApplyMoves
<1>3. OnePerSlot(applied)'
  BY <1>1, <1>2 DEF OnePerSlot
<1>4. ASSUME NEW f \in applied' PROVE SeqOf[f] <= TipSeq(heads'[AuthorOf[f]])
  <2>1. CASE AuthorOf[f] = AuthorOf[e]
    <3>1. SeqOf[f] <= SeqOf[e]
      BY <1>1, <1>2, <2>1
    <3>2. QED
      BY <1>2, <2>1, <3>1
  <2>2. CASE AuthorOf[f] # AuthorOf[e]
    <3>1. f \in applied /\ heads'[AuthorOf[f]] = heads[AuthorOf[f]]
      BY <1>1, <1>2, <2>2
    <3>2. QED
      BY <3>1 DEF NothingSkipped
  <2>3. QED
    BY <2>1, <2>2
<1>5. QED
  BY <1>3, <1>4 DEF NothingSkipped

\* An event is appended, whole or in part, to a file all of which is known.
LEMMA LineKeepsSlots ==
    ASSUME FileTyped, SlotOK, phase = "appending", ~poisoned, AppendLine \/ Tear
    PROVE  /\ OnePerSlot(disk') /\ ev \notin disk /\ mode = "up"
           /\ \A f \in disk : SeqOf[f] <= TipSeq(heads[AuthorOf[f]])
<1>1. ev \in Event /\ SeqOf[ev] \in Nat /\ disk \subseteq Event /\ mode = "up"
      /\ \A f \in disk : SeqOf[f] \in Nat /\ AuthorOf[f] \in Author
  BY Positions DEF FileTyped, SlotOK, LoadingOK, FlowOK
<1>2. \A f \in disk : SeqOf[f] <= TipSeq(heads[AuthorOf[f]])
  BY <1>1 DEF SlotOK, NothingUnknown
<1>3. SeqOf[ev] = TipSeq(heads[AuthorOf[ev]]) + 1 /\ TipSeq(heads[AuthorOf[ev]]) \in Nat
  BY <1>1, Positions DEF FileTyped, SlotOK, Continues
<1>4. \A f \in disk : AuthorOf[f] = AuthorOf[ev] => SeqOf[f] < SeqOf[ev]
  BY <1>1, <1>2, <1>3
<1>5. ev \notin disk
  BY <1>1, <1>4
<1>6. disk' \subseteq disk \cup {ev}
  BY LineTypes
<1>7. OnePerSlot(disk')
  BY <1>1, <1>4, <1>6 DEF SlotOK, OneEventPerSlot, OnePerSlot
<1>8. QED
  BY <1>1, <1>2, <1>5, <1>7

LEMMA SlotInit == FInit => SlotOK
BY DEF FInit, Init, SlotOK, OneEventPerSlot, OnePerSlot, NothingSkipped, NothingUnknown, LoadingOK

LEMMA ResumeKeepsSlots ==
    ASSUME FileTyped, SlotOK, Resume, UNCHANGED fileVars
    PROVE  /\ ev \in Event /\ Apply(ev) /\ mode' = "up" /\ mode = "up" /\ phase = "written"
           /\ OneEventPerSlot' /\ NothingSkipped'
           /\ \A f \in disk' : SeqOf[f] <= TipSeq(heads'[AuthorOf[f]])
<1>1. /\ ev \in Event /\ Apply(ev) /\ Continues(ev) /\ phase = "written" /\ mode = "up"
      /\ mode' = mode /\ disk' = disk /\ ~poisoned
  BY DEF Resume, AppendReturned, FileTyped, FlowOK, SlotOK, LoadingOK
<1>2. OnePerSlot(applied)' /\ NothingSkipped'
  BY <1>1, ContinuesIsNew, ApplyKeepsSlots DEF FileTyped, SlotOK, OneEventPerSlot
<1>3. OnePerSlot(disk)'
  BY <1>1 DEF SlotOK, OneEventPerSlot, OnePerSlot
<1>4. ASSUME NEW f \in disk PROVE SeqOf[f] <= TipSeq(heads'[AuthorOf[f]])
  <2>1. /\ SeqOf[f] \in Nat /\ AuthorOf[f] \in Author
        /\ TipSeq(heads[AuthorOf[f]]) \in Nat /\ SeqOf[ev] \in Nat
    BY <1>1, Positions DEF FileTyped
  <2>2. SeqOf[f] <= TipSeq(heads[AuthorOf[f]]) \/ f = ev
    BY <1>1 DEF SlotOK, NothingUnknown
  <2>3. /\ TipSeq(heads'[AuthorOf[ev]]) = SeqOf[ev]
        /\ \A a \in Author \ {AuthorOf[ev]} : heads'[a] = heads[a]
    BY <1>1, ApplyMoves DEF FileTyped
  <2>4. SeqOf[ev] = TipSeq(heads[AuthorOf[ev]]) + 1
    BY <1>1 DEF Continues
  <2>5. CASE AuthorOf[f] = AuthorOf[ev]
    BY <2>1, <2>2, <2>3, <2>4, <2>5
  <2>6. CASE AuthorOf[f] # AuthorOf[ev]
    BY <2>1, <2>2, <2>3, <2>6
  <2>7. QED
    BY <2>5, <2>6
<1>5. QED
  BY <1>1, <1>2, <1>3, <1>4 DEF OneEventPerSlot

\* Steps that leave memory, file and the put in flight alone.
LEMMA SlotsQuiet ==
    ASSUME SlotOK, UNCHANGED <<mode, applied, heads, disk, poisoned, phase, ev>>,
           mode = "up" \/ queue' = queue
    PROVE  SlotOK'
<1>1. OneEventPerSlot' /\ NothingSkipped' /\ NothingUnknown'
  BY DEF SlotOK, OneEventPerSlot, OnePerSlot, NothingSkipped, NothingUnknown
<1>2. LoadingOK'
  BY DEF SlotOK, LoadingOK
<1>3. QED
  BY <1>1, <1>2 DEF SlotOK, Continues

LEMMA SlotNext == FileTyped /\ SlotOK /\ [FNext]_fvars => SlotOK'
<1> SUFFICES ASSUME FileTyped, SlotOK, [FNext]_fvars PROVE SlotOK'
  OBVIOUS
<1>0. FlowOK /\ mode \in {"loading", "up"}
  BY DEF FileTyped, FlowOK
<1>1. CASE /\ UNCHANGED <<mode, applied, heads, disk, poisoned, phase, ev>>
           /\ mode = "up" \/ queue' = queue
  BY <1>1, SlotsQuiet
<1>2. ASSUME NEW p \in Put, PutAppend(p), UNCHANGED fileVars PROVE SlotOK'
  <2>1. /\ phase = "idle" /\ mode = "up" /\ phase' = "appending" /\ ev' = p.event
        /\ UNCHANGED <<mode, applied, heads, disk, poisoned>>
        /\ SeqOf[p.event] = TipSeq(heads[AuthorOf[p.event]]) + 1
    BY <1>2 DEF PutAppend, Turn, Appending, viewVars, fileVars, Expected
  <2>2. OneEventPerSlot' /\ NothingSkipped' /\ NothingUnknown'
    BY <2>1 DEF SlotOK, OneEventPerSlot, OnePerSlot, NothingSkipped, NothingUnknown
  <2>3. QED
    BY <2>1, <2>2 DEF SlotOK, LoadingOK, Continues
<1>3. CASE ResumeDone /\ UNCHANGED fileVars
  <2>1. Resume /\ phase' = "idle"
    BY <1>3 DEF ResumeDone, Idle
  <2>2. QED
    BY <1>3, <2>1, ResumeKeepsSlots DEF SlotOK, NothingUnknown, LoadingOK
<1>4. CASE ResumeDrain /\ UNCHANGED fileVars
  <2>1. Resume
    BY <1>4 DEF ResumeDrain
  <2>2. PICK f \in Unblocked : Appending(f, put)
    BY <1>4 DEF ResumeDrain
  <2>3. /\ AuthorOf[f] = AuthorOf[ev] /\ SeqOf[f] = SeqOf[ev] + 1
        /\ phase' = "appending" /\ ev' = f
    BY <2>2 DEF Appending, Unblocked, Of
  <2>4. ev \in Event /\ Apply(ev)
    BY <1>4, <2>1, ResumeKeepsSlots
  <2>5. TipSeq(heads'[AuthorOf[ev]]) = SeqOf[ev]
    BY <1>0, <2>4, ApplyMoves
  <2>6. Continues(ev)'
    BY <2>3, <2>5 DEF Continues
  <2>7. QED
    BY <1>4, <2>1, <2>3, <2>6, ResumeKeepsSlots DEF SlotOK, NothingUnknown, LoadingOK
<1>5. ASSUME NEW e \in Event, LoadApply(e), UNCHANGED fileVars PROVE SlotOK'
  <2>1. /\ mode = "loading" /\ NextToLoad(e) /\ Apply(e) /\ applied' = applied \cup {e}
        /\ UNCHANGED <<mode, disk, phase, ev, queue, poisoned>>
        /\ phase = "idle" /\ queue = <<>> /\ ~poisoned /\ applied \subseteq disk
        /\ e \in disk /\ e \notin applied
    BY <1>5 DEF LoadApply, Apply, workVars, fileVars, SlotOK, LoadingOK, NextToLoad
  <2>2. \A f \in applied : AuthorOf[f] = AuthorOf[e] => SeqOf[f] < SeqOf[e]
    BY <2>1 DEF SlotOK, LoadingOK
  <2>3. OnePerSlot(applied)' /\ NothingSkipped'
    BY <1>0, <2>1, <2>2, ApplyKeepsSlots DEF SlotOK, OneEventPerSlot
  <2>4. OneEventPerSlot'
    BY <2>1, <2>3 DEF SlotOK, OneEventPerSlot, OnePerSlot
  <2>5. ASSUME NEW f \in applied', NEW g \in disk' \ applied', AuthorOf[f] = AuthorOf[g]
        PROVE  SeqOf[f] < SeqOf[g]
    <3>1. g \in disk \ applied /\ g # e /\ SeqOf[g] \in Nat /\ SeqOf[e] \in Nat
      BY <1>0, <2>1, <2>5, Positions
    <3>2. CASE f \in applied
      BY <2>1, <2>5, <3>1, <3>2 DEF SlotOK, LoadingOK
    <3>3. CASE f = e
      <4>1. SeqOf[e] <= SeqOf[g]
        BY <2>1, <2>5, <3>1, <3>3 DEF NextToLoad
      <4>2. SeqOf[e] # SeqOf[g]
        BY <2>1, <2>5, <3>1, <3>3 DEF SlotOK, OneEventPerSlot, OnePerSlot
      <4>3. QED
        BY <3>1, <3>3, <4>1, <4>2
    <3>4. QED
      BY <2>1, <3>2, <3>3
  <2>6. LoadingOK'
    BY <2>1, <2>5 DEF LoadingOK
  <2>7. QED
    BY <2>1, <2>3, <2>4, <2>6 DEF SlotOK, NothingUnknown
<1>6. CASE LoadDone /\ UNCHANGED fileVars
  <2>1. /\ mode = "loading" /\ mode' = "up" /\ disk \subseteq applied
        /\ UNCHANGED <<applied, heads, disk, phase, ev, poisoned>>
    BY <1>6 DEF LoadDone, viewVars, workVars, fileVars
  <2>2. OneEventPerSlot' /\ NothingSkipped' /\ NothingUnknown'
    BY <2>1 DEF SlotOK, OneEventPerSlot, OnePerSlot, NothingSkipped, NothingUnknown
  <2>3. QED
    BY <2>1, <2>2 DEF SlotOK, LoadingOK, Continues
<1>7. CASE FilePersist
  <2>1. /\ phase = "appending" /\ ~poisoned /\ AppendLine /\ phase' = "written"
        /\ UNCHANGED <<mode, applied, heads, ev, poisoned>>
    BY <1>7 DEF FilePersist, viewVars
  <2>2. /\ OnePerSlot(disk') /\ mode = "up"
        /\ \A f \in disk : SeqOf[f] <= TipSeq(heads[AuthorOf[f]])
    BY <2>1, LineKeepsSlots
  <2>3. disk' \subseteq disk \cup {ev}
    BY <2>1, LineTypes
  <2>4. OneEventPerSlot' /\ NothingSkipped' /\ NothingUnknown'
    BY <2>1, <2>2, <2>3 DEF SlotOK, OneEventPerSlot, OnePerSlot, NothingSkipped, NothingUnknown
  <2>5. QED
    BY <2>1, <2>2, <2>4 DEF SlotOK, LoadingOK, Continues
<1>8. CASE FileFail \/ FilePoisoned
  <2>0. Rejected /\ poisoned'
    <3>1. CASE FileFail
      BY <3>1, Zenon DEF FileFail
    <3>2. CASE FilePoisoned
      <4>1. poisoned' = poisoned
        BY <3>2 DEF FilePoisoned, fileVars
      <4>2. QED
        BY <3>2, <4>1, Zenon DEF FilePoisoned
    <3>3. QED
      BY <1>8, <3>1, <3>2
  <2>1. /\ phase = "appending" /\ phase' = "idle"
        /\ UNCHANGED <<mode, applied, heads, queue>>
    BY <2>0 DEF Rejected, Idle, viewVars
  <2>2. OnePerSlot(disk')
    <3>1. CASE UNCHANGED disk
      BY <3>1 DEF SlotOK, OneEventPerSlot, OnePerSlot
    <3>2. CASE ~poisoned /\ Tear
      BY <2>1, <3>2, LineKeepsSlots
    <3>3. QED
      BY <1>8, <3>1, <3>2 DEF FileFail, FilePoisoned
  <2>3. OneEventPerSlot' /\ NothingSkipped' /\ NothingUnknown'
    BY <2>0, <2>1, <2>2 DEF SlotOK, OneEventPerSlot, OnePerSlot, NothingSkipped, NothingUnknown
  <2>4. mode = "up"
    BY <1>0, <2>1 DEF SlotOK, LoadingOK
  <2>5. QED
    BY <2>0, <2>1, <2>3, <2>4 DEF SlotOK, LoadingOK
<1>9. CASE FileCrash
  <2>1. /\ mode' = "loading" /\ applied' = {} /\ phase' = "idle" /\ queue' = <<>> /\ ~poisoned'
    BY <1>9 DEF FileCrash, Restart, Idle
  <2>2. OnePerSlot(disk')
    <3>1. CASE UNCHANGED disk
      BY <3>1 DEF SlotOK, OneEventPerSlot, OnePerSlot
    <3>2. CASE phase = "appending" /\ ~poisoned /\ Tear
      BY <3>2, LineKeepsSlots
    <3>3. QED
      BY <1>9, <3>1, <3>2 DEF FileCrash
  <2>3. QED
    BY <2>1, <2>2 DEF SlotOK, OneEventPerSlot, OnePerSlot, NothingSkipped, NothingUnknown, LoadingOK
<1>10. ASSUME NEW e \in Event, Sign(e) \/ Receive(e), UNCHANGED fileVars PROVE SlotOK'
  BY <1>1, <1>10 DEF Sign, Receive, Enqueue, viewVars, workVars, fileVars
<1>11. ASSUME NEW p \in Put, PutTurn(p), UNCHANGED fileVars PROVE SlotOK'
  <2>1. Turn(p)
    BY <1>11 DEF PutTurn, PutDuplicate, PutInvalid, PutEarly, PutStale, PutUnlinked, PutAppend
  <2>2. PutAppend(p) \/ UNCHANGED workVars
    BY <1>11 DEF PutTurn, PutDuplicate, PutInvalid, PutEarly, PutStale, PutUnlinked
  <2>3. QED
    BY <1>1, <1>2, <1>11, <2>1, <2>2 DEF Turn, viewVars, workVars, fileVars
<1>12. CASE UNCHANGED fvars
  BY <1>1, <1>12 DEF fvars, vars, viewVars, workVars, fileVars
<1>13. QED
  BY <1>2, <1>3, <1>4, <1>5, <1>6, <1>7, <1>8, <1>9, <1>10, <1>11, <1>12
     DEF FNext, FileUntouched

LEMMA SlotInvariant == FSpec => []SlotOK
BY FileTypedInvariant, SlotInit, SlotNext, PTL DEF FSpec

(***************************************************************************)
(* However many appends are cut short, fail or are lost in a crash, no     *)
(* position of a log is ever filled twice, in the file or in memory        *)
(* (store.js:219-251 over store-node.js:40-58).                            *)
(***************************************************************************)
THEOREM FileOneEventPerSlot == FSpec => []OneEventPerSlot
<1>1. SlotOK => OneEventPerSlot
  BY DEF SlotOK
<1>2. QED
  BY <1>1, SlotInvariant, PTL

-----------------------------------------------------------------------------
(* Tombstones *)

LEMMA FileTombstonesNext ==
    FileTyped /\ SlotOK /\ TombstonesExact /\ TombstonesWait /\ [FNext]_fvars
        => TombstonesExact' /\ TombstonesWait'
<1> SUFFICES ASSUME FileTyped, SlotOK, TombstonesExact, TombstonesWait, [FNext]_fvars
             PROVE  TombstonesExact' /\ TombstonesWait'
  OBVIOUS
<1>1. CASE UNCHANGED <<applied, deleted, tombstonePending>>
  BY <1>1 DEF TombstonesExact, TombstonesWait, Of
<1>2. CASE Resume
  <2>1. ev \in Event /\ Continues(ev) /\ Apply(ev) /\ NothingSkipped
    BY <1>2 DEF Resume, AppendReturned, FileTyped, FlowOK, SlotOK
  <2>2. ev \notin applied
    BY <2>1, ContinuesIsNew DEF FileTyped
  <2>3. QED
    BY <2>1, <2>2, ApplyKeepsTombstones DEF FileTyped
<1>3. ASSUME NEW e \in Event, LoadApply(e)
      PROVE  TombstonesExact' /\ TombstonesWait'
  BY <1>3, ApplyKeepsTombstones DEF LoadApply, NextToLoad, FileTyped
<1>4. CASE Restart
  BY <1>4 DEF Restart, TombstonesExact, TombstonesWait, Of
<1>5. QED
  BY <1>1, <1>2, <1>3, <1>4
     DEF FNext, FileUntouched, PutTurn, Sign, Receive, Enqueue, PutDuplicate, PutInvalid,
         PutEarly, PutStale, PutUnlinked, PutAppend, Turn, ResumeDone, ResumeDrain,
         LoadDone, FilePersist, FileFail, FilePoisoned, Rejected, FileCrash,
         fvars, vars, viewVars

(***************************************************************************)
(* What is hidden is exactly what the surviving deletes of the same author *)
(* name, whatever lines were lost and whatever holes they left.            *)
(***************************************************************************)
THEOREM FileTombstonesOfWhatIsLeft == FSpec => []TombstonesOfWhatIsLeft
<1>1. FInit => TombstonesExact /\ TombstonesWait
  BY TombstonesInit DEF FInit
<1>2. TombstonesExact => TombstonesOfWhatIsLeft
  BY DEF TombstonesOfWhatIsLeft
<1>3. QED
  BY <1>1, <1>2, FileTombstonesNext, FileTypedInvariant, SlotInvariant, PTL DEF FSpec

-----------------------------------------------------------------------------
(* Local appends *)

\* Where a local put stands: after the head it was signed on, or overtaken.
Placed(e, log, h) ==
    /\ AuthorOf[e] = Me
    /\ SeqOf[e] <= TipSeq(h) + 1
    /\ SeqOf[e] <= TipSeq(h) => \E f \in Of(log, Me) : SeqOf[f] = SeqOf[e]

\* A local put is never taken for an early event, nor told "ok" for a stale one.
LocalOK ==
    /\ \A i \in 1..Len(queue) : queue[i].local =>
           Placed(queue[i].event, applied, heads[Me])
    /\ phase # "idle" => put.event \in applied \cup {ev}

LEMMA QueueTyped ==
    ASSUME FlowOK
    PROVE  /\ Len(queue) \in Nat
           /\ \A i \in 1..Len(queue) : queue[i] \in Put /\ queue[i].event \in Event
<1>1. \A i \in 1..Len(queue) : queue[i] \in Put
  BY ElementOfSeq DEF FlowOK
<1>2. \A p \in Put : p.event \in Event
  BY DEF Put
<1>3. Len(queue) \in Nat
  BY LenProperties DEF FlowOK
<1>4. QED
  BY <1>1, <1>2, <1>3

LEMMA TurnTakes ==
    ASSUME FlowOK, NEW p, Turn(p)
    PROVE  /\ \A i \in 1..Len(queue') : i + 1 \in 1..Len(queue) /\ queue'[i] = queue[i + 1]
           /\ 1 \in 1..Len(queue) /\ queue[1] = p
<1>1. queue \in Seq(Put) /\ queue # <<>> /\ p = Head(queue) /\ queue' = Tail(queue)
  BY DEF FlowOK, Turn
<1>2. /\ Len(queue') = Len(queue) - 1 /\ Len(queue) \in Nat \ {0}
      /\ \A i \in 1..Len(queue') : queue'[i] = queue[i + 1]
      /\ p = queue[1]
  BY <1>1, HeadTailProperties, EmptySeq, LenProperties
<1>3. \A i \in 1..Len(queue') : i + 1 \in 1..Len(queue)
  BY <1>2
<1>4. QED
  BY <1>2, <1>3

LEMMA EnqueueAdds ==
    ASSUME FlowOK, NEW p \in Put, Enqueue(p)
    PROVE  \A i \in 1..Len(queue') :
               (i \in 1..Len(queue) /\ queue'[i] = queue[i]) \/ queue'[i] = p
<1>1. queue \in Seq(Put) /\ queue' = Append(queue, p)
  BY DEF FlowOK, Enqueue
<1>2. /\ Len(queue') = Len(queue) + 1 /\ Len(queue) \in Nat
      /\ \A i \in 1..Len(queue) : queue'[i] = queue[i]
      /\ queue'[Len(queue) + 1] = p
  BY <1>1, AppendProperties
<1>3. \A i \in 1..Len(queue') : i \in 1..Len(queue) \/ i = Len(queue) + 1
  BY <1>2
<1>4. QED
  BY <1>2, <1>3

\* The log of the local author moving on overtakes puts, and fills their place.
LEMMA PlacedStays ==
    ASSUME FlowOK, NEW e \in Event, Continues(e), Apply(e),
           NEW f \in Event, Placed(f, applied, heads[Me])
    PROVE  Placed(f, applied', heads'[Me])
<1>1. /\ applied' = applied \cup {e} /\ heads'[AuthorOf[e]] = e
      /\ TipSeq(heads'[AuthorOf[e]]) = SeqOf[e]
      /\ \A a \in Author \ {AuthorOf[e]} : heads'[a] = heads[a]
  BY ApplyMoves
<1>2. /\ SeqOf[f] \in Nat /\ SeqOf[e] \in Nat /\ TipSeq(heads[Me]) \in Nat /\ Me \in Author
  BY Positions, StoreAssumption
<1>3. CASE AuthorOf[e] # Me
  <2>1. heads'[Me] = heads[Me]
    BY <1>1, <1>2, <1>3
  <2>2. QED
    BY <1>1, <2>1 DEF Placed, Of
<1>4. CASE AuthorOf[e] = Me
  <2>1. SeqOf[e] = TipSeq(heads[Me]) + 1 /\ TipSeq(heads'[Me]) = SeqOf[e]
    BY <1>1, <1>4 DEF Continues
  <2>2. SeqOf[f] <= TipSeq(heads'[Me]) + 1
    BY <1>2, <2>1 DEF Placed
  <2>3. ASSUME SeqOf[f] <= TipSeq(heads'[Me]) 
             PROVE  \E g \in Of(applied', Me) : SeqOf[g] = SeqOf[f]
    <3>1. CASE SeqOf[f] = SeqOf[e]
      BY <1>1, <1>4, <3>1 DEF Of
    <3>2. CASE SeqOf[f] # SeqOf[e]
      <4>1. SeqOf[f] <= TipSeq(heads[Me])
        BY <1>2, <2>1, <2>3, <3>2
      <4>2. QED
        BY <1>1, <4>1 DEF Placed, Of
    <3>3. QED
      BY <3>1, <3>2
  <2>4. QED
    BY <2>2, <2>3 DEF Placed
<1>5. QED
  BY <1>3, <1>4

LEMMA LocalInit == FInit => LocalOK
BY DEF FInit, Init, LocalOK

LEMMA LocalNext == FileTyped /\ SlotOK /\ LocalOK /\ [FNext]_fvars => LocalOK'
<1> SUFFICES ASSUME FileTyped, SlotOK, LocalOK, [FNext]_fvars PROVE LocalOK'
  OBVIOUS
<1>0. FlowOK
  BY DEF FileTyped
<1>2. CASE /\ queue' = queue /\ heads' = heads /\ applied' = applied
           /\ phase' # "idle" => phase # "idle" /\ ev' = ev /\ put' = put
  BY <1>2 DEF LocalOK
<1>3. ASSUME NEW e \in Event, Sign(e) \/ Receive(e) PROVE LocalOK'
  <2>1. PICK p \in Put : /\ Enqueue(p) /\ p.event = e
                         /\ p.local => Sign(e)
    <3>1. [event |-> e, local |-> TRUE] \in Put /\ [event |-> e, local |-> FALSE] \in Put
      BY DEF Put
    <3>2. CASE Sign(e)
      BY <3>1, <3>2 DEF Sign
    <3>3. CASE Receive(e)
      BY <3>1, <3>3 DEF Receive
    <3>4. QED
      BY <1>3, <3>2, <3>3
  <2>2. UNCHANGED <<heads, applied, phase, ev, put>>
    BY <2>1 DEF Enqueue, viewVars, workVars
  <2>3. p.local => Placed(e, applied, heads[Me])
    <3>1. TipSeq(heads[Me]) \in Nat /\ Me \in Author
      BY <1>0, Positions, StoreAssumption
    <3>2. p.local => AuthorOf[e] = Me /\ SeqOf[e] = TipSeq(heads[Me]) + 1
      BY <2>1 DEF Sign
    <3>3. QED
      BY <3>1, <3>2 DEF Placed
  <2>4. ASSUME NEW i \in 1..Len(queue'), queue'[i].local
        PROVE  Placed(queue'[i].event, applied', heads'[Me])
    BY <1>0, <2>1, <2>2, <2>3, <2>4, EnqueueAdds DEF LocalOK
  <2>5. QED
    BY <2>2, <2>4 DEF LocalOK
<1>4. ASSUME NEW p \in Put, PutTurn(p) PROVE LocalOK'
  <2>1. Turn(p) /\ heads' = heads /\ applied' = applied /\ phase = "idle"
    BY <1>4 DEF PutTurn, PutDuplicate, PutInvalid, PutEarly, PutStale, PutUnlinked,
                PutAppend, Turn, viewVars
  <2>2. phase' = "idle" \/ (put' = p /\ ev' = p.event)
    BY <1>4, <2>1 DEF PutTurn, PutDuplicate, PutInvalid, PutEarly, PutStale, PutUnlinked,
                PutAppend, Appending, workVars
  <2>3. ASSUME NEW i \in 1..Len(queue'), queue'[i].local
        PROVE  Placed(queue'[i].event, applied', heads'[Me])
    BY <1>0, <2>1, <2>3, TurnTakes DEF LocalOK
  <2>4. QED
    BY <2>2, <2>3 DEF LocalOK
<1>5. CASE ResumeDone \/ ResumeDrain
  <2>1. /\ Apply(ev) /\ ev \in Event /\ Continues(ev) /\ queue' = queue
        /\ phase = "written" /\ applied' = applied \cup {ev}
    BY <1>5 DEF ResumeDone, ResumeDrain, Resume, AppendReturned, FileTyped, FlowOK, SlotOK, Apply
  <2>2. phase' # "idle" => put' = put
    BY <1>5 DEF ResumeDone, ResumeDrain, Idle, Appending
  <2>3. ASSUME NEW i \in 1..Len(queue'), queue'[i].local
        PROVE  Placed(queue'[i].event, applied', heads'[Me])
    <3>1. queue[i].event \in Event /\ Placed(queue[i].event, applied, heads[Me])
      BY <1>0, <2>1, <2>3, QueueTyped DEF LocalOK
    <3>2. Placed(queue[i].event, applied', heads'[Me])
      BY <1>0, <2>1, <3>1, PlacedStays
    <3>3. QED
      BY <2>1, <3>2
  <2>4. QED
    BY <2>1, <2>2, <2>3 DEF LocalOK
<1>6. CASE \/ \E e \in Event : LoadApply(e)
           \/ LoadDone
           \/ Restart
  <2>1. queue' = <<>> /\ phase' = "idle"
    BY <1>6 DEF LoadApply, LoadDone, Restart, Idle, SlotOK, LoadingOK, workVars
  <2>2. QED
    BY <2>1 DEF LocalOK
<1>7. CASE FilePersist \/ Rejected \/ UNCHANGED fvars
  BY <1>2, <1>7 DEF FilePersist, Rejected, Idle, viewVars, workVars, fvars, vars
<1>8. QED
  BY <1>3, <1>4, <1>5, <1>6, <1>7
     DEF FNext, FileUntouched, FileFail, FilePoisoned, FileCrash

-----------------------------------------------------------------------------
(* What torn lines cost *)

\* The local appends that have not returned.
Unanswered ==
    {e \in Event : \E i \in 1..Len(queue) : queue[i].local /\ queue[i].event = e}
        \cup {e \in Event : phase # "idle" /\ put.local /\ put.event = e}

\* What was acknowledged, or will be as soon as its turn comes or its put resumes.
Promised == acked \cup (Unanswered \cap applied) \cup {e \in {ev} : phase = "written"}

\* The lines nothing can be appended to any more.
Safe == disk \ {openEnd}

\* What the next append may lose.
Cost == IF openEnd = None THEN 0 ELSE 1

LossPaid ==
    /\ IsFiniteSet(Promised \ Safe)
    /\ Cardinality(Promised \ Safe) + Cost <= tears

LEMMA FewerLost ==
    ASSUME NEW S, NEW T, IsFiniteSet(S), T \subseteq S
    PROVE  /\ IsFiniteSet(T)
           /\ Cardinality(S) \in Nat /\ Cardinality(T) \in Nat
           /\ Cardinality(T) <= Cardinality(S)
<1>1. IsFiniteSet(T) /\ Cardinality(T) <= Cardinality(S)
  BY FS_Subset
<1>2. QED
  BY <1>1, FS_CardinalityType

LEMMA OneMoreLost ==
    ASSUME NEW S, NEW x, NEW T, IsFiniteSet(S), T \subseteq S \cup {x}
    PROVE  /\ IsFiniteSet(T)
           /\ Cardinality(S) \in Nat /\ Cardinality(T) \in Nat
           /\ Cardinality(T) <= Cardinality(S) + 1
<1>1. Cardinality(S) \in Nat
  BY FS_CardinalityType
<1>2. IsFiniteSet(S \cup {x})
  BY FS_AddElement
<1>3. Cardinality(S \cup {x}) <= Cardinality(S) + 1 /\ Cardinality(S \cup {x}) \in Nat
  BY <1>1, <1>2, FS_AddElement, FS_CardinalityType
<1>4. IsFiniteSet(T) /\ Cardinality(T) \in Nat /\ Cardinality(T) <= Cardinality(S \cup {x})
  BY <1>2, FewerLost
<1>5. QED
  BY <1>1, <1>3, <1>4

\* A put that gets its turn is told "ok" at once only when its event is there.
LEMMA TurnPromises ==
    ASSUME FileTyped, SlotOK, LocalOK, NEW p \in Put, PutTurn(p)
    PROVE  Promised' \subseteq Promised
<1>0. FlowOK /\ p.event \in Event
  BY DEF FileTyped, Put
<1>1. /\ Turn(p) /\ phase = "idle" /\ applied' = applied
      /\ phase' = "idle" \/ (phase' = "appending" /\ put' = p)
  BY DEF PutTurn, PutDuplicate, PutInvalid, PutEarly, PutStale, PutUnlinked, PutAppend,
         Turn, Appending, viewVars, workVars
<1>2. p.local => p.event \in Unanswered /\ Placed(p.event, applied, heads[Me])
  BY <1>0, <1>1, TurnTakes DEF Unanswered, LocalOK
<1>3. acked' \subseteq acked \cup {e \in {p.event} : p.local /\ p.event \in applied}
  <2>1. CASE PutDuplicate(p)
    BY <2>1 DEF PutDuplicate, Answer
  <2>2. CASE PutInvalid(p) \/ PutUnlinked(p)
    BY <2>2 DEF PutInvalid, PutUnlinked, Answer
  <2>3. CASE PutEarly(p)
    <3>1. TipSeq(heads[Me]) \in Nat /\ SeqOf[p.event] \in Nat
      BY <1>0, Positions, StoreAssumption
    <3>2. ~p.local
      BY <1>2, <2>3, <3>1 DEF PutEarly, Expected, Placed
    <3>3. QED
      BY <2>3, <3>2 DEF PutEarly, Answer
  <2>4. CASE PutStale(p)
    <3>1. TipSeq(heads[Me]) \in Nat /\ SeqOf[p.event] \in Nat
      BY <1>0, Positions, StoreAssumption
    <3>2. p.local => Slot(AuthorOf[p.event], SeqOf[p.event]) # {}
      BY <1>2, <2>4, <3>1 DEF PutStale, Expected, Placed, Slot
    <3>3. QED
      BY <2>4, <3>2 DEF PutStale, Answer
  <2>5. CASE PutAppend(p)
    BY <2>5 DEF PutAppend, answerVars
  <2>6. QED
    BY <2>1, <2>2, <2>3, <2>4, <2>5 DEF PutTurn
<1>4. Unanswered' \subseteq Unanswered
  <2>1. ASSUME NEW e \in Event, NEW i \in 1..Len(queue'), queue'[i].local, queue'[i].event = e
        PROVE  e \in Unanswered
    BY <1>0, <1>1, <2>1, TurnTakes DEF Unanswered
  <2>2. QED
    BY <1>1, <1>2, <2>1 DEF Unanswered
<1>5. QED
  BY <1>1, <1>2, <1>3, <1>4 DEF Promised

\* The put that resumes promises nothing that was not promised by its write.
LEMMA ResumePromises ==
    ASSUME FileTyped, LocalOK, ResumeDone \/ ResumeDrain
    PROVE  Promised' \subseteq Promised
<1>1. /\ phase = "written" /\ applied' = applied \cup {ev} /\ queue' = queue
      /\ put \in Put /\ put.event \in Event /\ ev \in Event
      /\ put.event \in applied \cup {ev}
  BY DEF ResumeDone, ResumeDrain, Resume, AppendReturned, Apply, FileTyped, FlowOK, LocalOK, Put
<1>2. \/ phase' = "idle" /\ acked' = acked \cup {e \in {put.event} : put.local}
      \/ phase' = "appending" /\ put' = put /\ acked' = acked
  BY DEF ResumeDone, ResumeDrain, Idle, Appending, Answer, answerVars
<1>3. Unanswered' \subseteq Unanswered
  BY <1>1, <1>2 DEF Unanswered
<1>4. put.local => put.event \in Unanswered
  BY <1>1 DEF Unanswered
<1>5. ev \in Promised /\ (Unanswered \cap applied) \subseteq Promised
  BY <1>1 DEF Promised
<1>6. acked' \subseteq Promised
  BY <1>1, <1>2, <1>4, <1>5 DEF Promised
<1>7. QED
  BY <1>1, <1>2, <1>3, <1>5, <1>6 DEF Promised

\* A process that ends, or an append that fails, leaves what was acknowledged.
LEMMA EndPromises ==
    ASSUME FileTyped, Restart \/ Rejected
    PROVE  Promised' \subseteq Promised
<1>1. CASE Restart
  <2>1. queue' = <<>> /\ phase' = "idle" /\ acked' = acked
    BY <1>1 DEF Restart, Idle, answerVars
  <2>2. Unanswered' = {}
    BY <2>1 DEF Unanswered
  <2>3. QED
    BY <2>1, <2>2 DEF Promised
<1>2. CASE Rejected
  <2>1. queue' = queue /\ phase' = "idle" /\ acked' = acked /\ applied' = applied
    BY <1>2 DEF Rejected, Idle, Answer, viewVars
  <2>2. Unanswered' \subseteq Unanswered
    BY <2>1 DEF Unanswered
  <2>3. QED
    BY <2>1, <2>2 DEF Promised
<1>3. QED
  BY <1>1, <1>2

LEMMA UntouchedPromises ==
    ASSUME FileTyped, SlotOK, LocalOK, FileUntouched
    PROVE  Promised' \subseteq Promised
<1>0. FlowOK
  BY DEF FileTyped
<1>1. ASSUME NEW e \in Event, Sign(e) \/ Receive(e) PROVE Promised' \subseteq Promised
  <2>1. PICK p \in Put : Enqueue(p) /\ (p.local => Sign(e) /\ p.event = e)
    <3>1. [event |-> e, local |-> TRUE] \in Put /\ [event |-> e, local |-> FALSE] \in Put
      BY DEF Put
    <3>2. CASE Sign(e)
      BY <3>1, <3>2 DEF Sign
    <3>3. CASE Receive(e)
      BY <3>1, <3>3 DEF Receive
    <3>4. QED
      BY <1>1, <3>2, <3>3
  <2>2. UNCHANGED <<applied, phase, ev, put, acked>>
    BY <2>1 DEF Enqueue, viewVars, workVars, answerVars
  <2>3. p.local => e \notin applied
    BY <1>0, <2>1, ContinuesIsNew DEF Sign, Continues, SlotOK
  <2>4. ASSUME NEW f \in applied, NEW i \in 1..Len(queue'), queue'[i].local, queue'[i].event = f
        PROVE  \E j \in 1..Len(queue) : queue[j].local /\ queue[j].event = f
    BY <1>0, <2>1, <2>3, <2>4, EnqueueAdds
  <2>5. Unanswered' \cap applied \subseteq Unanswered
    BY <2>2, <2>4 DEF Unanswered
  <2>6. QED
    BY <2>2, <2>5 DEF Promised
<1>2. CASE \/ \E e \in Event : LoadApply(e)
           \/ LoadDone
  <2>1. phase' = "idle" /\ queue' = <<>> /\ acked' = acked
    BY <1>2 DEF LoadApply, LoadDone, SlotOK, LoadingOK, workVars, answerVars
  <2>2. Unanswered' = {}
    BY <2>1 DEF Unanswered
  <2>3. QED
    BY <2>1, <2>2 DEF Promised
<1>3. QED
  BY <1>1, <1>2, TurnPromises, ResumePromises DEF FileUntouched

\* Nothing more is lost, and nothing more can be.
LEMMA SameCost ==
    ASSUME FileTyped, LossPaid, Promised' \subseteq Promised, UNCHANGED <<disk, openEnd, tears>>
    PROVE  LossPaid'
<1>1. Safe' = Safe /\ Cost' = Cost /\ tears' = tears
  BY DEF Safe, Cost
<1>2. Cost \in Nat /\ tears \in Nat
  BY DEF Cost, FileTyped
<1>3. /\ IsFiniteSet((Promised \ Safe)')
      /\ Cardinality(Promised \ Safe) \in Nat /\ Cardinality((Promised \ Safe)') \in Nat
      /\ Cardinality((Promised \ Safe)') <= Cardinality(Promised \ Safe)
  BY <1>1, FewerLost DEF LossPaid
<1>4. QED
  BY <1>1, <1>2, <1>3 DEF LossPaid

\* A line that goes on in an open one is lost with it, and closes it.
LEMMA PersistPaid ==
    ASSUME FileTyped, LossPaid, FilePersist
    PROVE  LossPaid'
<1>1. /\ phase' = "written" /\ tears' = tears /\ openEnd' = None /\ ev' = ev /\ ev \in Event
      /\ \/ disk' = disk \cup {ev} /\ openEnd = None
         \/ disk' = disk \ {openEnd} /\ openEnd # None
  BY DEF FilePersist, AppendLine, FileTyped, FlowOK
<1>2. Promised' \subseteq Promised \cup {ev}
  <2>1. UNCHANGED <<acked, applied, queue, put>> /\ phase = "appending"
    BY DEF FilePersist, viewVars, answerVars
  <2>2. Unanswered' \subseteq Unanswered
    BY <1>1, <2>1 DEF Unanswered
  <2>3. QED
    BY <1>1, <2>1, <2>2 DEF Promised
<1>3. None \notin disk /\ tears \in Nat
  BY EventAssumption DEF FileTyped, FlowOK
<1>4. CASE disk' = disk \cup {ev} /\ openEnd = None
  <2>1. (Promised \ Safe)' \subseteq Promised \ Safe
    BY <1>1, <1>2, <1>3, <1>4, EventAssumption DEF Safe
  <2>2. /\ IsFiniteSet((Promised \ Safe)')
        /\ Cardinality(Promised \ Safe) \in Nat /\ Cardinality((Promised \ Safe)') \in Nat
        /\ Cardinality((Promised \ Safe)') <= Cardinality(Promised \ Safe)
    BY <2>1, FewerLost DEF LossPaid
  <2>3. Cost = 0 /\ Cost' = 0
    BY <1>1, <1>4 DEF Cost
  <2>4. QED
    BY <1>1, <1>3, <2>2, <2>3 DEF LossPaid
<1>5. CASE disk' = disk \ {openEnd} /\ openEnd # None
  <2>1. (Promised \ Safe)' \subseteq (Promised \ Safe) \cup {ev}
    BY <1>1, <1>2, <1>3, <1>5 DEF Safe
  <2>2. /\ IsFiniteSet((Promised \ Safe)')
        /\ Cardinality(Promised \ Safe) \in Nat /\ Cardinality((Promised \ Safe)') \in Nat
        /\ Cardinality((Promised \ Safe)') <= Cardinality(Promised \ Safe) + 1
    BY <2>1, OneMoreLost DEF LossPaid
  <2>3. Cost = 1 /\ Cost' = 0
    BY <1>1, <1>5 DEF Cost
  <2>4. QED
    BY <1>1, <1>3, <2>2, <2>3 DEF LossPaid
<1>6. QED
  BY <1>1, <1>4, <1>5

\* A torn line loses nothing by itself: what it leaves open may cost one event.
LEMMA TearPaid ==
    ASSUME FileTyped, SlotOK, LossPaid, phase = "appending", ~poisoned, Tear,
           Promised' \subseteq Promised
    PROVE  LossPaid'
<1>1. /\ ev \notin disk /\ Torn \notin disk /\ None \notin disk /\ tears' = tears + 1
      /\ tears \in Nat
  BY LineKeepsSlots, EventAssumption, FileAssumption DEF FileTyped, FlowOK, Tear
<1>2. Safe' = Safe
  BY <1>1 DEF Tear, Safe
<1>3. /\ IsFiniteSet((Promised \ Safe)')
      /\ Cardinality(Promised \ Safe) \in Nat /\ Cardinality((Promised \ Safe)') \in Nat
      /\ Cardinality((Promised \ Safe)') <= Cardinality(Promised \ Safe)
  BY <1>2, FewerLost DEF LossPaid
<1>4. Cost \in {0, 1} /\ Cost' \in {0, 1}
  BY DEF Cost
<1>5. QED
  BY <1>1, <1>3, <1>4 DEF LossPaid

LEMMA LossInit == FInit => LossPaid
<1> SUFFICES ASSUME FInit PROVE LossPaid
  OBVIOUS
<1>1. Promised = {}
  BY DEF FInit, Init, Promised
<1>2. Promised \ Safe = {}
  BY <1>1
<1>3. IsFiniteSet(Promised \ Safe) /\ Cardinality(Promised \ Safe) = 0
  BY <1>2, FS_EmptySet
<1>4. Cost = 0 /\ tears = 0
  BY DEF FInit, Cost
<1>5. QED
  BY <1>3, <1>4 DEF LossPaid

LEMMA LossNext == FileTyped /\ SlotOK /\ LocalOK /\ LossPaid /\ [FNext]_fvars => LossPaid'
<1> SUFFICES ASSUME FileTyped, SlotOK, LocalOK, LossPaid, [FNext]_fvars PROVE LossPaid'
  OBVIOUS
<1>1. CASE FileUntouched
  <2>1. UNCHANGED <<disk, openEnd, tears>>
    BY <1>1 DEF FileUntouched, fileVars, Sign, Receive, Enqueue, PutTurn, PutDuplicate,
                PutInvalid, PutEarly, PutStale, PutUnlinked, PutAppend, Turn, ResumeDone,
                ResumeDrain, Resume, LoadApply, LoadDone
  <2>2. QED
    BY <1>1, <2>1, UntouchedPromises, SameCost
<1>2. CASE FilePersist
  BY <1>2, PersistPaid
<1>3. CASE FileFail \/ FilePoisoned
  <2>1. phase = "appending" /\ Promised' \subseteq Promised
    BY <1>3, EndPromises DEF FileFail, FilePoisoned, Rejected
  <2>2. UNCHANGED <<disk, openEnd, tears>> \/ (~poisoned /\ Tear)
    BY <1>3 DEF FileFail, FilePoisoned, fileVars
  <2>3. QED
    BY <2>1, <2>2, SameCost, TearPaid
<1>4. CASE FileCrash
  <2>1. Promised' \subseteq Promised
    BY <1>4, EndPromises DEF FileCrash
  <2>2. QED
    BY <1>4, <2>1, SameCost, TearPaid DEF FileCrash
<1>5. CASE UNCHANGED fvars
  <2>1. /\ Promised' \subseteq Promised /\ UNCHANGED <<disk, openEnd, tears>>
    BY <1>5 DEF fvars, vars, fileVars, viewVars, workVars, answerVars, Promised, Unanswered
  <2>2. QED
    BY <2>1, SameCost
<1>6. QED
  BY <1>1, <1>2, <1>3, <1>4, <1>5 DEF FNext

(***************************************************************************)
(* Each append that is cut short costs at most one acknowledged event,     *)
(* however many appends, failures and crashes come between                 *)
(* (store-node.js:52-58).                                                  *)
(***************************************************************************)
THEOREM FileLossBounded == FSpec => []LossBounded
<1>1. FileTyped /\ LossPaid => LossBounded
  <2> SUFFICES ASSUME FileTyped, LossPaid PROVE LossBounded
    OBVIOUS
  <2>1. acked \ disk \subseteq Promised \ Safe
    BY DEF Promised, Safe
  <2>2. /\ Cardinality(Promised \ Safe) \in Nat /\ Cardinality(acked \ disk) \in Nat
        /\ Cardinality(acked \ disk) <= Cardinality(Promised \ Safe)
    BY <2>1, FewerLost DEF LossPaid
  <2>3. Cost \in Nat /\ tears \in Nat
    BY DEF Cost, FileTyped
  <2>4. QED
    BY <2>2, <2>3 DEF LossPaid, LossBounded
<1>2. FSpec => []LocalOK
  BY FileTypedInvariant, SlotInvariant, LocalInit, LocalNext, PTL DEF FSpec
<1>3. QED
  BY <1>1, <1>2, FileTypedInvariant, SlotInvariant, LossInit, LossNext, PTL DEF FSpec

=============================================================================
