------------------------- MODULE ThreadCancellation -------------------------
(***************************************************************************)
(* Cancelling the libdar calls of a thread (class thread_cancellation).    *)
(*                                                                         *)
(* Code that may be cancelled owns a thread_cancellation object and calls  *)
(* its checkpoint now and then.  All the objects alive are listed in info; *)
(* a request, from another thread or from a signal handler, is copied in   *)
(* every object of its thread, or kept in preborn while there is none.     *)
(*                                                                         *)
(* Each critical section (mutex held, signals blocked) is one step.  The   *)
(* checkpoint reads its object without the mutex: the read that finds a    *)
(* request, the reads that decide to honour it, the critical section that  *)
(* clears it, and the reads that fill the exception are separate steps.    *)
(***************************************************************************)
EXTENDS Integers, Sequences, FiniteSets

CONSTANTS
  Thread,     \* threads that run libdar calls
  Object,     \* thread_cancellation objects, each may be constructed again
  Immediate,  \* the values of x_immediate requests are made with
  MaxRequest, \* bound on the number of requests, numbered by their flag
  MaxPreborn, \* bound on the number of requests stored for a thread, see Destroy
  Busy,       \* threads that have several objects at a time
  MaxObjects  \* bound on the objects each of these has, the others having one

ASSUME ImmediateIsBoolean == Immediate \subseteq BOOLEAN
ASSUME BoundsAreNatural ==
  MaxRequest \in Nat /\ MaxPreborn \in Nat \ {0} /\ MaxObjects \in Nat

Flag == 0..MaxRequest
Fields == [tid : Thread, block_delayed : BOOLEAN, immediate : BOOLEAN,
           cancellation : BOOLEAN, flag : Flag]
Unrequested(t) == [tid |-> t, block_delayed |-> FALSE, immediate |-> TRUE,
                   cancellation |-> FALSE, flag |-> 0]

VARIABLES
  status,   \* info: the objects alive, with the fields of each
  preborn,  \* thread -> the requests stored for it, oldest first; the code keeps
            \* one list, of which it only ever looks for the entries of a thread
  check,    \* where the checkpoint of each thread is, and on which object
  made,     \* the number of requests made
  asked,    \* the flag of the last request made for each thread, 0 if none
  due,      \* threads with a request neither thrown nor revoked since
  revoked   \* the requests cancel_clear answered true for

history == <<made, asked, due, revoked>>
vars == <<status, preborn, check, history>>

info == DOMAIN status
Objects(t) == {o \in info : status[o].tid = t}
Stored(t) == preborn[t] # <<>>

Running(t) == check[t].at = "running"

Init ==
  /\ status = << >>
  /\ preborn = [t \in Thread |-> <<>>]
  /\ check = [t \in Thread |-> [at |-> "running"]]
  /\ made = 0 /\ asked = [t \in Thread |-> 0] /\ due = {} /\ revoked = {}

-----------------------------------------------------------------------------
(* The objects of a thread *)

AddObject(o, fields) ==
  status' = [p \in info \cup {o} |-> IF p = o THEN fields ELSE status[p]]
RemoveObject(o) == status' = [p \in info \ {o} |-> status[p]]

\* The first object of a thread takes over the oldest request stored for it,
\* the next ones are copies of those that exist.
Construct(t, o) ==
  /\ Running(t) /\ o \notin info
  /\ Cardinality(Objects(t)) < (IF t \in Busy THEN MaxObjects ELSE 1)
  /\ IF Objects(t) # {}
     THEN /\ \E p \in Objects(t) : AddObject(o, status[p])
          /\ UNCHANGED preborn
     ELSE IF Stored(t)
     THEN /\ AddObject(o, Head(preborn[t]))
          /\ preborn' = [preborn EXCEPT ![t] = Tail(@)]
     ELSE /\ AddObject(o, Unrequested(t))
          /\ UNCHANGED preborn
  /\ UNCHANGED <<check, history>>

\* Faulty: every object leaves a request behind.
DestroyStoring(t, o) ==
  /\ Running(t) /\ o \in Objects(t)
  /\ Len(preborn[t]) < MaxPreborn
  /\ RemoveObject(o)
  /\ preborn' = [preborn EXCEPT ![t] = Append(@, status[o])]
  /\ UNCHANGED <<check, history>>

\* Faulty: a request that was not honoured goes with the object.
DestroyForgetting(t, o) ==
  /\ Running(t) /\ o \in Objects(t)
  /\ RemoveObject(o)
  /\ UNCHANGED <<preborn, check, history>>

\* A request that no checkpoint honoured is stored back, by each object of the
\* thread, so that the list grows; the model stops it at MaxPreborn.
Destroy(t, o) ==
  /\ Running(t) /\ o \in Objects(t)
  /\ status[o].cancellation => Len(preborn[t]) < MaxPreborn
  /\ RemoveObject(o)
  /\ preborn' = IF status[o].cancellation
                THEN [preborn EXCEPT ![t] = Append(@, status[o])] ELSE preborn
  /\ UNCHANGED <<check, history>>

\* Faulty: only the object the call was made on is updated.
SetBlockOfOne(t, o, mode) == [status EXCEPT ![o].block_delayed = mode]

SetBlock(t, o, mode) ==
  [p \in info |-> IF p \in Objects(t) THEN [status[p] EXCEPT !.block_delayed = mode]
                    ELSE status[p]]

\* block_delayed_cancellation; unblocking ends with a checkpoint.
Block(t, o) ==
  /\ Running(t) /\ o \in Objects(t)
  /\ status' = SetBlock(t, o, TRUE)
  /\ UNCHANGED <<preborn, check, history>>

Unblock(t, o) ==
  /\ Running(t) /\ o \in Objects(t)
  /\ status' = SetBlock(t, o, FALSE)
  /\ check' = [check EXCEPT ![t] = [at |-> "reading", obj |-> o]]
  /\ UNCHANGED <<preborn, history>>

-----------------------------------------------------------------------------
(* The checkpoint: check_self_cancellation *)

Checkpoint(t, o) ==
  /\ Running(t) /\ o \in Objects(t)
  /\ check' = [check EXCEPT ![t] = [at |-> "reading", obj |-> o]]
  /\ UNCHANGED <<status, preborn, history>>

ReadCancellation(t) ==
  /\ check[t].at = "reading"
  /\ check' = [check EXCEPT ![t] = IF status[check[t].obj].cancellation
                                   THEN [at |-> "deciding", obj |-> check[t].obj]
                                   ELSE [at |-> "running"]]
  /\ UNCHANGED <<status, preborn, history>>

\* Faulty: immediate requests are held back too.
HonouredUnlessBlocked(st) == ~st.block_delayed

Honoured(st) == st.immediate \/ ~st.block_delayed

ReadImmediate(t) ==
  /\ check[t].at = "deciding"
  /\ check' = [check EXCEPT ![t] = IF Honoured(status[check[t].obj])
                                   THEN [at |-> "clearing", obj |-> check[t].obj]
                                   ELSE [at |-> "running"]]
  /\ UNCHANGED <<status, preborn, history>>

\* Faulty: the requests stored for the thread stay.
ClearObjectsOnly(t) ==
  /\ status' = [p \in info |-> IF p \in Objects(t)
                                 THEN [status[p] EXCEPT !.cancellation = FALSE]
                                 ELSE status[p]]
  /\ UNCHANGED preborn

\* clear_pending_request
ClearPending(t) ==
  /\ status' = [p \in info |-> IF p \in Objects(t)
                                 THEN [status[p] EXCEPT !.cancellation = FALSE]
                                 ELSE status[p]]
  /\ preborn' = [preborn EXCEPT ![t] = <<>>]

Clear(t) ==
  /\ check[t].at = "clearing"
  /\ ClearPending(t)
  /\ check' = [check EXCEPT ![t].at = "throwing"]
  /\ UNCHANGED history

\* Ethread_cancel is filled from the object, read once more.
Thrown(t) == status[check[t].obj].flag

Throw(t) ==
  /\ check[t].at = "throwing"
  /\ due' = due \ {t}
  /\ check' = [check EXCEPT ![t] = [at |-> "running"]]
  /\ UNCHANGED <<status, preborn, made, asked, revoked>>

-----------------------------------------------------------------------------
(* Requests: cancel_thread and cancel_clear *)

\* A request stored for a thread replaces the oldest one stored for it.
Store(t, f) ==
  IF Stored(t) THEN [preborn EXCEPT ![t] = <<f>> \o Tail(@)]
  ELSE [preborn EXCEPT ![t] = <<f>>]

Cancel(t, now) ==
  /\ made < MaxRequest
  /\ made' = made + 1
  /\ asked' = [asked EXCEPT ![t] = made']
  /\ due' = due \cup {t}
  /\ IF Objects(t) # {}
     THEN /\ status' = [p \in info |->
                          IF p \in Objects(t)
                          THEN [status[p] EXCEPT !.immediate = now,
                                  !.cancellation = TRUE, !.flag = made']
                          ELSE status[p]]
          /\ UNCHANGED preborn
     ELSE /\ preborn' = Store(t, [tid |-> t, block_delayed |-> FALSE, immediate |-> now,
                                  cancellation |-> TRUE, flag |-> made'])
          /\ UNCHANGED status
  /\ UNCHANGED <<check, revoked>>

Pending(t) == (\E o \in Objects(t) : status[o].cancellation) \/ Stored(t)

\* cancel_status: an object of the thread answers when there is one.
CancelStatus(t) ==
  IF Objects(t) # {} THEN \E o \in Objects(t) : status[o].cancellation
  ELSE Stored(t)

\* cancel_clear answers whether there was a request to abort.
CancelClear(t) ==
  /\ ClearPending(t)
  /\ revoked' = IF Pending(t) THEN revoked \cup {asked[t]} ELSE revoked
  /\ due' = due \ {t}
  /\ UNCHANGED <<check, made, asked>>

\* Nothing asked of the thread can be held back.
Urgent(t) ==
  /\ t \in due
  /\ \A o \in Objects(t) : status[o].cancellation => status[o].immediate
  /\ \A i \in DOMAIN preborn[t] : preborn[t][i].immediate

CheckStep(t) == ReadCancellation(t) \/ ReadImmediate(t) \/ Clear(t) \/ Throw(t)

ThreadStep(t) ==
  \/ \E o \in Object : \/ Construct(t, o) \/ Destroy(t, o)
                       \/ Block(t, o) \/ Unblock(t, o) \/ Checkpoint(t, o)
  \/ CheckStep(t)

Next ==
  \/ \E t \in Thread : ThreadStep(t) \/ CancelClear(t)
  \/ \E t \in Thread, now \in Immediate : Cancel(t, now)

Spec == Init /\ [][Next]_vars

\* A thread that runs libdar keeps constructing objects and reaching their
\* checkpoints (every loop of the filters and every read or write has one),
\* and goes on with a checkpoint it is in.
Fairness ==
  \A t \in Thread :
    /\ WF_vars(Objects(t) = {} /\ \E o \in Object : Construct(t, o))
    /\ SF_vars(\E o \in Object : Checkpoint(t, o))
    /\ WF_vars(CheckStep(t))

FairSpec == Spec /\ Fairness

-----------------------------------------------------------------------------
(* Properties *)

\* A record is stored only for a thread that was asked to stop, and carries
\* that request.
TypeOK ==
  /\ info \subseteq Object
  /\ status \in [info -> Fields]
  /\ preborn \in [Thread -> Seq({f \in Fields : f.cancellation})]
  /\ check \in [Thread -> [at : {"running"}]
                  \cup [at : {"reading", "deciding", "clearing", "throwing"}, obj : Object]]
  /\ made \in Flag /\ asked \in [Thread -> Flag]
  /\ due \subseteq Thread
  /\ revoked \subseteq Flag

\* All the objects of a thread say the same, so that it does not matter which
\* one a checkpoint is called on.
ObjectsAgree ==
  \A o, p \in info : status[o].tid = status[p].tid => status[o] = status[p]

\* No request is lost while objects come and go: until it is thrown or
\* revoked, cancel_status reports it, or its exception is about to be thrown.
NoLostRequest ==
  \A t \in due : CancelStatus(t) \/ check[t].at = "throwing"

\* A revoked request does not come back with an object constructed later, nor
\* does cancel_status report it.
RevokedIsGone ==
  \A t \in Thread : Pending(t) => asked[t] \notin revoked

\* An immediate request ends in an exception, unless it is revoked or a
\* delayed one replaces it, however objects come, go and block delayed ones.
ImmediateIsThrown ==
  \A t \in Thread : Urgent(t) ~> ~Urgent(t)
=============================================================================
