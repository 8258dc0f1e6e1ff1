---------------------------- MODULE PriorityJumps -----------------------------
(***************************************************************************)
(* The emergency queue: ml/emergency_queue.py behind POST                  *)
(* /emergency-queue/insert, for one queue key.  Its jumps of the rolling   *)
(* window are kept in memory and every request runs in a worker thread of  *)
(* its own, so two may interleave between the reads and the assignments of *)
(* the tracker's list.                                                     *)
(***************************************************************************)
EXTENDS Integers, Sequences, FiniteSets

CONSTANTS
    Thread,
    Cap,            \* MAX_PRIORITY_JUMPS_PER_WINDOW
    Window,         \* PRIORITY_JUMP_WINDOW, in ticks
    MaxNow,         \* bound: ticks
    MaxGrants       \* bound: jumps granted

ASSUME JumpAssumption == Cap \in Nat \ {0} /\ Window \in Nat /\ MaxNow \in Nat /\ MaxGrants \in Nat

VARIABLES
    now,
    tracker,        \* jump_timestamps: the jumps it holds, by their numbers
    insert,         \* each thread's request and locals
    granted,        \* history: when this process granted jumps, in the order of their numbers
    raced           \* history: two of its requests were ever in hand at once

jumpVars == <<now, tracker, insert, granted, raced>>

NoInsert == [phase |-> "idle", at |-> 0, pruned |-> {}, jump |-> 0]

JumpInit ==
    /\ now = 0
    /\ tracker = {}
    /\ insert = [t \in Thread |-> NoInsert]
    /\ granted = <<>>
    /\ raced = FALSE

\* The jumps that are still in the window that ends at a time.
Pruned(jumps, at) == {j \in jumps : granted[j] >= at - Window}

InHand == {t \in Thread : insert[t].phase # "idle"}

\* A request that is no emergency never asks the tracker; the endpoint inserts into
\* an empty queue, so the request is at its head either way.
Insert(t, emergency) ==
    /\ insert[t].phase = "idle"
    /\ emergency => Len(granted) + Cardinality(InHand) < MaxGrants
    /\ insert' = [insert EXCEPT ![t] =
         IF emergency THEN [NoInsert EXCEPT !.phase = "asking", !.at = now,
                                            !.pruned = Pruned(tracker, now)]
         ELSE [NoInsert EXCEPT !.phase = "answered", !.at = now]]
    /\ raced' = (raced \/ InHand # {})
    /\ UNCHANGED <<now, tracker, granted>>

\* A wrong CanJump: <= for <.
CanJumpOnceMore(t) ==
    /\ insert[t].phase = "asking"
    /\ tracker' = insert[t].pruned
    /\ IF Cardinality(insert[t].pruned) <= Cap
       THEN /\ granted' = Append(granted, insert[t].at)
            /\ insert' = [insert EXCEPT ![t].phase = "jumping", ![t].jump = Len(granted) + 1]
       ELSE /\ insert' = [insert EXCEPT ![t].phase = "answered"]
            /\ UNCHANGED granted
    /\ UNCHANGED <<now, raced>>

\* can_jump: the pruned list is assigned, and its length compared to the cap.
CanJump(t) ==
    /\ insert[t].phase = "asking"
    /\ tracker' = insert[t].pruned
    /\ IF Cardinality(insert[t].pruned) < Cap
       THEN /\ granted' = Append(granted, insert[t].at)
            /\ insert' = [insert EXCEPT ![t].phase = "jumping", ![t].jump = Len(granted) + 1]
       ELSE /\ insert' = [insert EXCEPT ![t].phase = "answered"]
            /\ UNCHANGED granted
    /\ UNCHANGED <<now, raced>>

\* record_jump: the list is read and pruned once more, then assigned with the jump.
PruneAgain(t) ==
    /\ insert[t].phase = "jumping"
    /\ insert' = [insert EXCEPT ![t].phase = "recording",
                                ![t].pruned = Pruned(tracker, insert[t].at)]
    /\ UNCHANGED <<now, tracker, granted, raced>>

RecordJump(t) ==
    /\ insert[t].phase = "recording"
    /\ tracker' = insert[t].pruned \cup {insert[t].jump}
    /\ insert' = [insert EXCEPT ![t].phase = "answered"]
    /\ UNCHANGED <<now, granted, raced>>

ReplyInsert(t) ==
    /\ insert[t].phase = "answered"
    /\ insert' = [insert EXCEPT ![t] = NoInsert]
    /\ UNCHANGED <<now, tracker, granted, raced>>

JumpTick ==
    /\ now < MaxNow
    /\ now' = now + 1
    /\ UNCHANGED <<tracker, insert, granted, raced>>

\* The process restarts: the trackers are its memory, so the requests in hand are lost
\* and the next process counts from nothing.
RestartJumps ==
    /\ tracker' = {}
    /\ insert' = [t \in Thread |-> NoInsert]
    /\ granted' = <<>>
    /\ raced' = FALSE
    /\ UNCHANGED now

JumpNext ==
    \/ \E t \in Thread, emergency \in BOOLEAN : Insert(t, emergency)
    \/ \E t \in Thread : CanJump(t) \/ PruneAgain(t) \/ RecordJump(t) \/ ReplyInsert(t)
    \/ JumpTick
    \/ RestartJumps

JumpSpec == JumpInit /\ [][JumpNext]_jumpVars

-----------------------------------------------------------------------------
\* As long as no two requests overlap, no window of the rolling length sees one process
\* grant more jumps than the cap (emergency_queue.py:3-10); a restart forgets the jumps
\* before it.
JumpsAreCapped ==
    ~raced => \A end \in 0..MaxNow :
        Cardinality({i \in DOMAIN granted : granted[i] \in (end - Window)..end}) <= Cap

=============================================================================
