------------------------------- MODULE EventLoop -------------------------------
(***************************************************************************)
(* The poll loop of the relay and of the player (src/c_src/event_loop.cpp). *)
(* Descriptors are registered before the loop runs; a callback may only     *)
(* unregister the descriptor it was called for, as UdpConnection::recv does *)
(* when it deletes its object.  What a callback does besides, and what      *)
(* makes a descriptor ready, is left to modules that extend this one.       *)
(***************************************************************************)
EXTENDS Integers, Sequences, FiniteSets

CONSTANTS
    Fds,          \* file descriptors
    NoFd,         \* what a slot that was never written holds
    MaxHandlers,  \* MAX_FD_HANDLERS
    Script,       \* the calls of register_*_callback, in order
    Garbage       \* what a slot that was never written may hold: revents, and
                  \* which of the three pointers to functions are not null

Kinds == {"in", "out", "err"}

ASSUME EventLoopAssumption ==
    /\ NoFd \notin Fds
    /\ MaxHandlers \in Nat \ {0}
    /\ Script \in Seq([fd: Fds, kind: Kinds])
    /\ Garbage \subseteq [revents: SUBSET Kinds, handlers: SUBSET Kinds] /\ Garbage # {}

VARIABLES
    slots,    \* mPollFdList and mPollCallbackList, which change together, and
              \* the memory that follows them as slot MaxHandlers
    size,     \* mPollListSize
    changed,  \* mPollListChanged
    done,     \* how many calls of Script have been made
    idx,      \* the loop's slot index, which survives from one poll to the next
    hitCnt,   \* the loop's count of ready descriptors still to be found
    pending,  \* the callbacks of slot idx that are still to be called
    pc        \* "setup", "poll", "next" slot, "call" its callbacks, or the process is
              \* at its end: "thrown", or "wild" when it called what is no function

loopVars == <<slots, size, changed, done, idx, hitCnt, pending, pc>>

SlotType ==
    [fd: Fds \cup {NoFd}, events: SUBSET Kinds, handlers: SUBSET Kinds, revents: SUBSET Kinds]

LoopTypeOK ==
    /\ slots \in [0..MaxHandlers -> SlotType]
    /\ size \in 0..MaxHandlers
    /\ changed \in BOOLEAN
    /\ done \in 0..Len(Script)
    /\ idx \in 0..MaxHandlers
    /\ hitCnt \in 0..MaxHandlers
    /\ pending \subseteq Kinds
    /\ pc \in {"setup", "poll", "next", "call", "thrown", "wild"}

(* The constructor sets the size only: both lists, in memory from the heap, *)
(* hold what was there before.                                              *)
Unwritten == {[fd |-> NoFd, events |-> {}, handlers |-> g.handlers, revents |-> g.revents] : g \in Garbage}

LoopInit ==
    /\ slots \in [0..MaxHandlers -> Unwritten]
    /\ size = 0
    /\ changed = FALSE
    /\ done = 0
    /\ idx = 0
    /\ hitCnt = 0
    /\ pending = {}
    /\ pc = "setup"

Active == 0..(size - 1)
Registered == {slots[i].fd : i \in Active}

(* Mutant of SlotOf: the active slots are not searched.                     *)
SlotOf_Appends(f) == size

(* The first active slot of f, or the slot after the last.                  *)
SlotOf(f) ==
    IF f \in Registered
    THEN CHOOSE i \in Active : slots[i].fd = f /\ \A j \in 0..(i - 1) : slots[j].fd # f
    ELSE size

(* register_callback(): a second call for a descriptor adds to its slot.    *)
(* POLLERR needs no event flag.                                             *)
Register ==
    LET f    == Script[done + 1].fd
        kind == Script[done + 1].kind
        at   == SlotOf(f)
        old  == IF at = size THEN [slots[at] EXCEPT !.fd = f, !.events = {}, !.handlers = {}]
                             ELSE slots[at]
    IN
    /\ pc = "setup"
    /\ done < Len(Script)
    /\ IF at = MaxHandlers
       THEN pc' = "thrown" /\ UNCHANGED <<slots, size, changed, done>>
       ELSE /\ slots' = [slots EXCEPT ![at] =
                    [old EXCEPT !.events = @ \cup ({kind} \ {"err"}), !.handlers = @ \cup {kind}]]
            /\ size' = IF at = size THEN size + 1 ELSE size
            /\ changed' = TRUE
            /\ done' = done + 1
            /\ pc' = pc
    /\ UNCHANGED <<idx, hitCnt, pending>>

Start ==
    /\ pc = "setup"
    /\ done = Len(Script)
    /\ pc' = "poll"
    /\ UNCHANGED <<slots, size, changed, done, idx, hitCnt, pending>>

(* unregister(): the slots above move down; the last keeps its content.     *)
Unregister(f) ==
    IF f \notin Registered THEN UNCHANGED <<slots, size, changed>>
    ELSE /\ slots' = [i \in 0..MaxHandlers |->
                         IF i \in SlotOf(f)..(size - 2) THEN slots[i + 1] ELSE slots[i]]
         /\ size' = size - 1
         /\ changed' = TRUE

(* poll(..., 0), where ready[f] is what the kernel has to report of f.      *)
Poll(ready) ==
    LET Revents(i) == ready[slots[i].fd] \cap (slots[i].events \cup {"err"})
    IN
    /\ pc = "poll"
    /\ changed' = FALSE
    /\ slots' = [i \in 0..MaxHandlers |->
                    IF i \in Active THEN [slots[i] EXCEPT !.revents = Revents(i)] ELSE slots[i]]
    /\ hitCnt' = Cardinality({i \in Active : Revents(i) # {}})
    /\ pc' = IF hitCnt' > 0 THEN "next" ELSE "poll"
    /\ UNCHANGED <<size, done, idx, pending>>

(* Mutants of NextIdx: no wrap at the end; a wrap to the wrong slot.         *)
NextIdx_Stays == IF idx >= size THEN size ELSE idx + 1

NextIdx_SkipsFirst == IF idx >= size THEN 1 ELSE idx + 1

(* The index takes every value from 0 to size, the slot past the last active *)
(* one included.                                                            *)
NextIdx == IF idx >= size THEN 0 ELSE idx + 1

NextSlot ==
    /\ pc = "next"
    /\ idx' = NextIdx
    /\ pending' = slots[idx'].revents \cap slots[idx'].handlers
    /\ pc' = "call"
    /\ UNCHANGED <<slots, size, changed, done, hitCnt>>

(* Read callbacks come before write callbacks, those before error ones.     *)
NextKind ==
    IF "in" \in pending THEN "in" ELSE IF "out" \in pending THEN "out" ELSE "err"

Calling(f) == pc = "call" /\ pending # {} /\ slots[idx].fd = f

(* The index was at a slot that was never written, and its garbage looked   *)
(* like a callback to call: nothing can be said of the process after that.  *)
CallGarbage ==
    /\ Calling(NoFd)
    /\ pc' = "wild"
    /\ UNCHANGED <<slots, size, changed, done, idx, hitCnt, pending>>

Ended == pc \in {"thrown", "wild"}

(* A callback has returned and left the list alone: the loop goes on with   *)
(* the slot.                                                                *)
ReturnToSlot ==
    /\ pending' = pending \ {NextKind}
    /\ UNCHANGED <<slots, size, changed, done, idx, hitCnt, pc>>

(* A callback has unregistered its descriptor: the loop leaves the slot,    *)
(* and the round, if it sees that the list changed.                         *)
ReturnUnregistered(f) ==
    /\ Unregister(f)
    /\ pending' = IF changed' THEN {} ELSE pending \ {NextKind}
    /\ pc' = IF changed' THEN "poll" ELSE pc
    /\ UNCHANGED <<done, idx, hitCnt>>

SlotDone ==
    /\ pc = "call"
    /\ pending = {}
    /\ hitCnt' = IF slots[idx].revents # {} THEN hitCnt - 1 ELSE hitCnt
    /\ pc' = IF hitCnt' > 0 THEN "next" ELSE "poll"
    /\ UNCHANGED <<slots, size, changed, done, idx, pending>>

(***************************************************************************)
(* Properties of the loop                                                   *)
(***************************************************************************)
(* Each descriptor has one active slot, whatever the order of registering   *)
(* and unregistering: its read and error callbacks are called in one visit. *)
OneSlotEach ==
    \A i, j \in Active : slots[i].fd = slots[j].fd => i = j

(* A callback is called only for a descriptor that is registered, so that   *)
(* the object behind its argument exists, although objects are deleted by   *)
(* their own callbacks and the index visits the slot past the last one.     *)
(* The one exception is that slot if it was never written: then the loop    *)
(* relies on what the heap held there.                                      *)
CalledWhileRegistered ==
    pc = "call" /\ pending # {} =>
        \/ slots[idx].fd \in Registered
        \/ slots[idx].fd = NoFd /\ idx = size

(* The search for ready descriptors ends: the loop polls again, unless a    *)
(* callback, or garbage called as one, has ended the process.               *)
RoundEnds == (pc \in {"next", "call"}) ~> (pc = "poll" \/ Ended)
===============================================================================
