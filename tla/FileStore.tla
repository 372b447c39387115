----------------------------- MODULE FileStore -----------------------------
(***************************************************************************)
(* The store over FileBackend (packages/core/src/store-node.js): one JSON  *)
(* line per event, appended to events.jsonl, every line that parses read   *)
(* back at load.                                                           *)
(*                                                                         *)
(* An append that is cut short - the power fails, the disk is full -       *)
(* leaves a last line without its newline.  The next append goes on in     *)
(* that line, and the line the two make together parses as neither.        *)
(***************************************************************************)
EXTENDS Store

CONSTANTS
    Torn,           \* a last line that does not parse
    MaxTears        \* bound of the model: appends cut short

ASSUME FileAssumption ==
    /\ Torn \notin Event /\ Torn # None
    /\ MaxTears \in Nat

VARIABLES
    openEnd,    \* what is after the last newline: None, Torn, or one event
    poisoned,   \* writeQueue is a rejected promise
    tears       \* appends cut short so far

fileVars == <<openEnd, poisoned, tears>>
fvars == <<vars, fileVars>>

\* disk is what loadEvents returns: the lines that parse.
AppendTruncating ==
    /\ disk' = {ev}
    /\ openEnd' = None

AppendLine ==
    \/ /\ openEnd = None
       /\ disk' = disk \cup {ev}
       /\ openEnd' = None
    \/ /\ openEnd # None
       /\ disk' = disk \ {openEnd}
       /\ openEnd' = None

\* The newline is missing, or more than that; or an open line was continued.
Tear ==
    /\ tears < MaxTears
    /\ tears' = tears + 1
    /\ \/ /\ openEnd = None
          /\ disk' = disk \cup {ev}
          /\ openEnd' = ev
       \/ /\ openEnd' = Torn
          /\ disk' = disk \ {openEnd}

FilePersist ==
    /\ phase = "appending" /\ ~poisoned
    /\ AppendLine
    /\ phase' = "written"
    /\ UNCHANGED <<mode, viewVars, pendingVars, queue, ev, put, signed,
                   answerVars, heard, crashes, failures, poisoned, tears>>

\* A failed appendFile may have written part of the line.
FileFail ==
    /\ ~poisoned
    /\ Rejected
    /\ failures < MaxFailures
    /\ failures' = failures + 1
    /\ poisoned' = TRUE
    /\ Tear \/ UNCHANGED <<disk, openEnd, tears>>

\* writeQueue.then(...) of a rejected promise: nothing is written any more.
FilePoisoned ==
    /\ poisoned
    /\ Rejected
    /\ UNCHANGED <<disk, failures, fileVars>>

\* A crash may cut the append short; the rejected promise goes with it.
FileCrash ==
    /\ Restart
    /\ poisoned' = FALSE
    /\ \/ UNCHANGED <<disk, openEnd, tears>>
       \/ phase = "appending" /\ ~poisoned /\ Tear

FInit == Init /\ openEnd = None /\ poisoned = FALSE /\ tears = 0

\* What the store does between two calls of its backend.
FileUntouched ==
    /\ \/ \E e \in Event : Sign(e)
       \/ \E e \in Event : Receive(e)
       \/ \E p \in Put : PutTurn(p)
       \/ ResumeDone \/ ResumeDrain
       \/ \E e \in Event : LoadApply(e)
       \/ LoadDone
    /\ UNCHANGED fileVars

FNext ==
    \/ FileUntouched
    \/ FilePersist \/ FilePoisoned \/ FileFail
    \/ FileCrash

FSpec == FInit /\ [][FNext]_fvars

-----------------------------------------------------------------------------

\* The ranges of the file's variables (FileBackend, store-node.js:18-23).
FTypeOK ==
    /\ TypeOK
    /\ openEnd \in Event \cup {None, Torn}
    /\ poisoned \in BOOLEAN
    /\ tears \in Nat

(***************************************************************************)
(* However many appends are cut short, no position of a log is ever filled *)
(* twice in the file or in memory: a reload after a lost line may leave a  *)
(* hole or go back, but it never mixes two branches at one position.       *)
(***************************************************************************)
OneEventPerSlot == OnePerSlot(disk) /\ OnePerSlot(applied)

(***************************************************************************)
(* Each append that is cut short costs at most one acknowledged event: the *)
(* one that continues the open line.                                       *)
(***************************************************************************)
LossBounded == Cardinality(acked \ disk) <= tears

(***************************************************************************)
(* A lost line never brings a tombstone back to life by itself: what is    *)
(* hidden is still exactly what the surviving deletes of the same author   *)
(* name, over any holes.                                                   *)
(***************************************************************************)
TombstonesOfWhatIsLeft == mode = "up" => TombstonesExact
=============================================================================
