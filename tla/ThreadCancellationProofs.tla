---------------------- MODULE ThreadCancellationProofs ----------------------
(***************************************************************************)
(* That no request is lost, and none comes back once revoked, for every    *)
(* number of threads, objects and requests.                                *)
(*                                                                         *)
(* The argument rests on what each change does to the two questions that   *)
(* matter: does cancel_status report a request of thread u, and is one     *)
(* kept anywhere for u.  Objects that come, go, block or unblock delayed   *)
(* requests never turn the first answer from yes to no, nor the second     *)
(* from no to yes (Kept): for the first this takes that all the objects of *)
(* a thread agree, so that any of them stores the request back when it     *)
(* goes, and that what is stored for a thread is a request of that thread, *)
(* so that its next object takes it over.  A request and its revocation    *)
(* change these answers for their own thread only.                         *)
(***************************************************************************)
EXTENDS ThreadCancellation, TLAPS

Request == {f \in Fields : f.cancellation}

\* What a thread has stored was asked of that thread.
StoredForItself ==
  \A t \in Thread : \A i \in DOMAIN preborn[t] : preborn[t][i].tid = t

ListsOK ==
  /\ info \subseteq Object
  /\ status \in [info -> Fields]
  /\ preborn \in [Thread -> Seq(Request)]
  /\ StoredForItself
  /\ ObjectsAgree

CheckOK ==
  check \in [Thread -> [at : {"running"}]
               \cup [at : {"reading", "deciding", "clearing", "throwing"}, obj : Object]]

\* The last requests of two threads are two requests, and a thread has one
\* pending only if it was asked for.
HistoryOK ==
  /\ made \in Flag /\ asked \in [Thread -> Flag]
  /\ due \subseteq Thread
  /\ revoked \subseteq Flag /\ \A r \in revoked : r <= made
  /\ \A t \in Thread : asked[t] <= made
  /\ \A t, u \in Thread : asked[t] = asked[u] /\ asked[t] # 0 => t = u
  /\ \A t \in Thread : Pending(t) => asked[t] # 0

IInv == ListsOK /\ CheckOK /\ HistoryOK /\ NoLostRequest /\ RevokedIsGone

\* What a step that makes and revokes no request for u owes to u.
Kept(u) == /\ CancelStatus(u) => CancelStatus(u)'
           /\ Pending(u)' => Pending(u)

-----------------------------------------------------------------------------
(* Changes of the objects and of the stored requests *)

\* What Fields gives.
LEMMA FieldTypes ==
  ASSUME NEW f \in Fields
  PROVE  /\ f.tid \in Thread /\ f.block_delayed \in BOOLEAN
         /\ f.immediate \in BOOLEAN /\ f.cancellation \in BOOLEAN
         /\ f.flag \in Flag
BY DEF Fields

\* A first object takes a stored request over, the next ones copy an object.
LEMMA ConstructKeeps ==
  ASSUME ListsOK, NEW t \in Thread, NEW o \in Object, Construct(t, o)
  PROVE  ListsOK' /\ \A u \in Thread : Kept(u)
<1> USE DEF ListsOK
<1>1. CASE Objects(t) # {}
  <2>1. PICK p \in Objects(t) : AddObject(o, status[p])
    BY <1>1 DEF Construct
  <2>2. preborn' = preborn /\ o \notin info
    BY <1>1 DEF Construct
  <2>3. p \in info /\ status[p].tid = t
    BY <2>1 DEF Objects
  <2>4. info' = info \cup {o} /\ status'[o] = status[p]
        /\ \A q \in info : status'[q] = status[q]
    BY <2>1, <2>2 DEF AddObject, info
  <2>5. status' \in [info' -> Fields]
    BY <2>1, <2>2, <2>3, <2>4 DEF AddObject, info
  <2>6. StoredForItself'
    BY <2>2 DEF StoredForItself
  <2>7. ObjectsAgree'
    BY <2>3, <2>4 DEF ObjectsAgree
  <2>8. Objects(t)' = Objects(t) \cup {o}
    BY <2>3, <2>4 DEF Objects
  <2>9. ASSUME NEW u \in Thread, u # t PROVE Objects(u)' = Objects(u)
    BY <2>3, <2>4, <2>9 DEF Objects
  <2>10. ASSUME NEW u \in Thread PROVE Kept(u)
    <3>1. CASE u = t
      BY <3>1, <2>1, <2>2, <2>3, <2>4, <2>8 DEF Kept, CancelStatus, Pending, Stored, Objects
    <3>2. CASE u # t
      <4>1. \A q \in Objects(u) : status'[q] = status[q]
        BY <2>4 DEF Objects
      <4> QED BY <4>1, <3>2, <2>2, <2>9 DEF Kept, CancelStatus, Pending, Stored
    <3> QED BY <3>1, <3>2
  <2> QED BY <2>2, <2>4, <2>5, <2>6, <2>7, <2>10
<1>2. CASE Objects(t) = {}
  <2> DEFINE f == IF Stored(t) THEN Head(preborn[t]) ELSE Unrequested(t)
  <2>1. AddObject(o, f) /\ o \notin info
    BY <1>2 DEF Construct
  <2>2. preborn' = IF Stored(t) THEN [preborn EXCEPT ![t] = Tail(@)] ELSE preborn
    BY <1>2 DEF Construct
  <2>3. f \in Fields /\ f.tid = t /\ (f.cancellation <=> Stored(t))
    <3>1. CASE Stored(t)
      <4>1. preborn[t] \in Seq(Request) /\ preborn[t] # <<>>
        BY <3>1 DEF Stored
      <4>2. Head(preborn[t]) = preborn[t][1] /\ 1 \in DOMAIN preborn[t]
        BY <4>1
      <4>3. Head(preborn[t]) \in Request
        BY <4>1
      <4>4. f = preborn[t][1]
        BY <3>1, <4>2
      <4>5. f \in Fields /\ f.cancellation
        BY <4>2, <4>3, <4>4 DEF Request
      <4>6. f.tid = t
        BY <4>2, <4>4 DEF StoredForItself
      <4> QED BY <3>1, <4>5, <4>6
    <3>2. CASE ~Stored(t)
      <4>1. f = Unrequested(t)
        BY <3>2
      <4>2. 0 \in Flag
        BY BoundsAreNatural DEF Flag
      <4>3. Unrequested(t) \in Fields
        BY <4>2 DEF Unrequested, Fields
      <4>4. Unrequested(t).tid = t /\ Unrequested(t).cancellation = FALSE
        BY DEF Unrequested
      <4> QED BY <3>2, <4>1, <4>3, <4>4
    <3> QED BY <3>1, <3>2
  <2> HIDE DEF f
  <2>4. info' = info \cup {o} /\ status'[o] = f
        /\ \A q \in info : status'[q] = status[q]
    BY <2>1 DEF AddObject, info
  <2>5. status' \in [info' -> Fields]
    BY <2>1, <2>3, <2>4 DEF AddObject, info
  <2>6. preborn' \in [Thread -> Seq(Request)]
    BY <2>2 DEF Stored
  <2>7. StoredForItself'
    <3>1. SUFFICES ASSUME NEW u \in Thread, NEW i \in DOMAIN preborn'[u]
                   PROVE  preborn'[u][i].tid = u
      BY DEF StoredForItself
    <3>2. CASE u = t /\ Stored(t)
      <4>1. preborn[t] \in Seq(Request) /\ preborn[t] # <<>>
        BY <3>2 DEF Stored
      <4>2. preborn'[u] = Tail(preborn[t])
        BY <2>2, <3>2
      <4>3. preborn'[u][i] = preborn[t][i + 1] /\ i + 1 \in DOMAIN preborn[t]
        BY <4>1, <4>2
      <4> QED BY <4>3, <3>2 DEF StoredForItself
    <3>3. CASE ~(u = t /\ Stored(t))
      BY <3>3, <2>2 DEF StoredForItself
    <3> QED BY <3>2, <3>3
  <2>8. ObjectsAgree'
    BY <1>2, <2>3, <2>4 DEF ObjectsAgree, Objects
  <2>9. Objects(t)' = {o}
    BY <1>2, <2>3, <2>4 DEF Objects
  <2>10. ASSUME NEW u \in Thread PROVE Kept(u)
    <3>1. CASE u = t
      BY <3>1, <1>2, <2>2, <2>3, <2>4, <2>9 DEF Kept, CancelStatus, Pending, Stored
    <3>2. CASE u # t
      <4>1. Objects(u)' = Objects(u)
        BY <2>3, <2>4, <3>2 DEF Objects
      <4>2. \A q \in Objects(u) : status'[q] = status[q]
        BY <2>4 DEF Objects
      <4>3. preborn'[u] = preborn[u]
        BY <2>2, <3>2
      <4> QED BY <4>1, <4>2, <4>3 DEF Kept, CancelStatus, Pending, Stored
    <3> QED BY <3>1, <3>2
  <2> QED BY <2>4, <2>5, <2>6, <2>7, <2>8, <2>10
<1> QED BY <1>1, <1>2

\* An object that goes stores the request it has, for another of the thread
\* to take over.
LEMMA DestroyKeeps ==
  ASSUME ListsOK, NEW t \in Thread, NEW o \in Object, Destroy(t, o)
  PROVE  ListsOK' /\ \A u \in Thread : Kept(u)
<1> USE DEF ListsOK
<1>1. o \in info /\ status[o].tid = t /\ status[o] \in Fields
  BY DEF Destroy, Objects
<1>2. info' = info \ {o} /\ \A q \in info' : status'[q] = status[q]
  BY DEF Destroy, RemoveObject, info
<1>3. status' \in [info' -> Fields]
  BY <1>2 DEF Destroy, RemoveObject, info
<1>4. preborn' = IF status[o].cancellation
                 THEN [preborn EXCEPT ![t] = Append(@, status[o])] ELSE preborn
  BY DEF Destroy
<1>5. preborn' \in [Thread -> Seq(Request)]
  <2>1. CASE status[o].cancellation
    <3>1. status[o] \in Request
      BY <1>1, <2>1 DEF Request
    <3>2. Append(preborn[t], status[o]) \in Seq(Request)
      BY <3>1
    <3> QED BY <1>4, <2>1, <3>2
  <2>2. CASE ~status[o].cancellation
    BY <1>4, <2>2
  <2> QED BY <2>1, <2>2
<1>6. StoredForItself'
  <2>1. SUFFICES ASSUME NEW u \in Thread, NEW i \in DOMAIN preborn'[u]
                 PROVE  preborn'[u][i].tid = u
    BY DEF StoredForItself
  <2>2. CASE u = t /\ status[o].cancellation
    <3>1. preborn[t] \in Seq(Request) /\ preborn'[u] = Append(preborn[t], status[o])
      BY <1>4, <2>2
    <3>2. CASE i \in DOMAIN preborn[t]
      BY <2>2, <3>1, <3>2 DEF StoredForItself
    <3>3. CASE i \notin DOMAIN preborn[t]
      <4>1. i = Len(preborn[t]) + 1
        BY <3>1, <3>3
      <4> QED BY <1>1, <2>2, <3>1, <4>1
    <3> QED BY <3>2, <3>3
  <2>3. CASE ~(u = t /\ status[o].cancellation)
    BY <1>4, <2>3 DEF StoredForItself
  <2> QED BY <2>2, <2>3
<1>7. ObjectsAgree'
  BY <1>2 DEF ObjectsAgree
<1>8. ASSUME NEW u \in Thread PROVE Kept(u)
  <2>1. CASE u # t
    <3>1. Objects(u)' = Objects(u)
      BY <1>1, <1>2, <2>1 DEF Objects
    <3>2. \A q \in Objects(u)' : status'[q] = status[q]
      BY <1>2 DEF Objects
    <3>3. preborn'[u] = preborn[u]
      BY <1>4, <2>1
    <3> QED BY <3>1, <3>2, <3>3 DEF Kept, CancelStatus, Pending, Stored
  <2>2. CASE u = t /\ status[o].cancellation
    <3>1. Objects(t)' = Objects(t) \ {o} /\ \A q \in Objects(t)' : status'[q] = status[q]
      BY <1>2 DEF Objects
    <3>2. \A q \in Objects(t) : status[q].cancellation
      BY <1>1, <2>2 DEF ObjectsAgree, Objects
    <3>3. preborn'[t] = Append(preborn[t], status[o]) /\ preborn[t] \in Seq(Request)
      BY <1>4, <2>2
    <3>4. Stored(t)'
      <4>1. status[o] \in Request
        BY <1>1, <2>2 DEF Request
      <4>2. Len(preborn'[t]) = Len(preborn[t]) + 1 /\ Len(preborn[t]) \in Nat
        BY <3>3, <4>1
      <4>3. preborn'[t] # <<>>
        BY <4>2
      <4> QED BY <4>3 DEF Stored
    <3>5. CancelStatus(t)'
      BY <3>1, <3>2, <3>4 DEF CancelStatus
    <3>6. Pending(t)
      BY <1>1, <2>2 DEF Pending, Objects
    <3> QED BY <2>2, <3>5, <3>6 DEF Kept
  <2>3. CASE u = t /\ ~status[o].cancellation
    <3>1. Objects(t)' = Objects(t) \ {o} /\ \A q \in Objects(t)' : status'[q] = status[q]
      BY <1>2 DEF Objects
    <3>2. o \in Objects(t) /\ \A q \in Objects(t) : ~status[q].cancellation
      BY <1>1, <2>3 DEF ObjectsAgree, Objects
    <3>3. ~CancelStatus(t)
      BY <3>2 DEF CancelStatus
    <3>4. preborn' = preborn
      BY <1>4, <2>3
    <3>5. Pending(t)' => Pending(t)
      BY <3>1, <3>4 DEF Pending, Stored
    <3> QED BY <2>3, <3>3, <3>5 DEF Kept
  <2> QED BY <2>1, <2>2, <2>3
<1> QED BY <1>2, <1>3, <1>5, <1>6, <1>7, <1>8

\* Blocking and unblocking touch no request.
LEMMA SetBlockKeeps ==
  ASSUME ListsOK, NEW t \in Thread, NEW o \in Object, NEW mode \in BOOLEAN,
         status' = SetBlock(t, o, mode), preborn' = preborn
  PROVE  ListsOK' /\ \A u \in Thread : Kept(u)
<1> USE DEF ListsOK
<1>1. info' = info
  BY DEF SetBlock, info
<1>2. \A q \in info : /\ status'[q] \in Fields
                      /\ status'[q].tid = status[q].tid
                      /\ status'[q].cancellation = status[q].cancellation
  <2>1. SUFFICES ASSUME NEW q \in info
                 PROVE  /\ status'[q] \in Fields
                        /\ status'[q].tid = status[q].tid
                        /\ status'[q].cancellation = status[q].cancellation
    OBVIOUS
  <2>2. status'[q] = IF q \in Objects(t) THEN [status[q] EXCEPT !.block_delayed = mode]
                     ELSE status[q]
    BY DEF SetBlock
  <2> QED BY <2>2 DEF Fields
<1>3. status' \in [info' -> Fields]
  BY <1>1, <1>2 DEF SetBlock, info
<1>4. StoredForItself'
  BY DEF StoredForItself
<1>5. ObjectsAgree'
  BY <1>1, <1>2 DEF ObjectsAgree, SetBlock, Objects
<1>6. \A u \in Thread : Objects(u)' = Objects(u)
  BY <1>1, <1>2 DEF Objects
<1>7. \A u \in Thread : \A q \in Objects(u) : status'[q].cancellation = status[q].cancellation
  BY <1>2 DEF Objects
<1> QED BY <1>1, <1>3, <1>4, <1>5, <1>6, <1>7 DEF Kept, CancelStatus, Pending, Stored

\* Clearing leaves nothing pending for the thread, and the others as they are.
LEMMA ClearPendingClears ==
  ASSUME ListsOK, NEW t \in Thread, ClearPending(t)
  PROVE  /\ ListsOK' /\ ~Pending(t)'
         /\ \A u \in Thread \ {t} : Kept(u)
<1> USE DEF ListsOK
<1>1. info' = info /\ preborn' = [preborn EXCEPT ![t] = <<>>]
  BY DEF ClearPending, info
<1>2. \A q \in info : /\ status'[q] \in Fields
                      /\ status'[q].tid = status[q].tid
                      /\ q \in Objects(t) => ~status'[q].cancellation
                      /\ q \notin Objects(t) => status'[q] = status[q]
  <2>1. SUFFICES ASSUME NEW q \in info
                 PROVE  /\ status'[q] \in Fields
                        /\ status'[q].tid = status[q].tid
                        /\ q \in Objects(t) => ~status'[q].cancellation
                        /\ q \notin Objects(t) => status'[q] = status[q]
    OBVIOUS
  <2>2. status'[q] = IF q \in Objects(t) THEN [status[q] EXCEPT !.cancellation = FALSE]
                     ELSE status[q]
    BY DEF ClearPending
  <2> QED BY <2>2 DEF Fields
<1>3. status' \in [info' -> Fields]
  BY <1>1, <1>2 DEF ClearPending, info
<1>4. preborn' \in [Thread -> Seq(Request)]
  BY <1>1
<1>5. StoredForItself'
  BY <1>1 DEF StoredForItself
<1>6. ObjectsAgree'
  <2>1. SUFFICES ASSUME NEW p \in info, NEW q \in info, status'[p].tid = status'[q].tid
                 PROVE  status'[p] = status'[q]
    BY <1>1 DEF ObjectsAgree
  <2>2. status[p] = status[q]
    BY <1>2, <2>1 DEF ObjectsAgree
  <2>3. p \in Objects(t) <=> q \in Objects(t)
    BY <2>2 DEF Objects
  <2> QED BY <2>2, <2>3 DEF ClearPending
<1>7. \A u \in Thread : Objects(u)' = Objects(u)
  BY <1>1, <1>2 DEF Objects
<1>8. ~Pending(t)'
  BY <1>1, <1>2, <1>7 DEF Pending, Stored, Objects
<1>9. ASSUME NEW u \in Thread \ {t} PROVE Kept(u)
  <2>1. \A q \in Objects(u) : status'[q] = status[q]
    BY <1>2 DEF Objects
  <2> QED BY <2>1, <1>1, <1>7 DEF Kept, CancelStatus, Pending, Stored
<1> QED BY <1>1, <1>3, <1>4, <1>5, <1>6, <1>8, <1>9

\* A request reaches the objects of its thread, or waits for the first one.
LEMMA CancelAsks ==
  ASSUME ListsOK, HistoryOK, NEW t \in Thread, NEW now \in Immediate, Cancel(t, now)
  PROVE  /\ ListsOK' /\ CancelStatus(t)'
         /\ \A u \in Thread \ {t} : Kept(u)
<1> USE DEF ListsOK
<1>1. made' = made + 1 /\ made' \in Flag /\ now \in BOOLEAN
  <2>1. made \in Flag
    BY DEF HistoryOK
  <2>2. made < MaxRequest /\ made' = made + 1
    BY DEF Cancel
  <2>3. made' \in Flag
    BY <2>1, <2>2, BoundsAreNatural DEF Flag
  <2> QED BY <2>2, <2>3, ImmediateIsBoolean
<1>2. CASE Objects(t) # {}
  <2>1. info' = info /\ preborn' = preborn
    BY <1>2 DEF Cancel, info
  <2>2. \A q \in info :
          status'[q] = IF q \in Objects(t)
                       THEN [status[q] EXCEPT !.immediate = now,
                               !.cancellation = TRUE, !.flag = made']
                       ELSE status[q]
    BY <1>2 DEF Cancel
  <2>3. \A q \in info : /\ status'[q] \in Fields
                        /\ status'[q].tid = status[q].tid
                        /\ q \in Objects(t) => status'[q].cancellation
                        /\ q \notin Objects(t) => status'[q] = status[q]
    BY <1>1, <2>2 DEF Fields
  <2>4. status' \in [info' -> Fields]
    BY <1>2, <2>1, <2>3 DEF Cancel, info
  <2>5. StoredForItself'
    BY <2>1 DEF StoredForItself
  <2>6. ObjectsAgree'
    <3>1. SUFFICES ASSUME NEW p \in info, NEW q \in info, status'[p].tid = status'[q].tid
                   PROVE  status'[p] = status'[q]
      BY <2>1 DEF ObjectsAgree
    <3>2. status[p] = status[q]
      BY <2>3, <3>1 DEF ObjectsAgree
    <3>3. p \in Objects(t) <=> q \in Objects(t)
      BY <3>2 DEF Objects
    <3> QED BY <2>2, <3>2, <3>3
  <2>7. \A u \in Thread : Objects(u)' = Objects(u)
    BY <2>1, <2>3 DEF Objects
  <2>8. CancelStatus(t)'
    BY <1>2, <2>3, <2>7 DEF CancelStatus, Objects
  <2>9. ASSUME NEW u \in Thread \ {t} PROVE Kept(u)
    <3>1. \A q \in Objects(u) : status'[q] = status[q]
      BY <2>3 DEF Objects
    <3> QED BY <3>1, <2>1, <2>7 DEF Kept, CancelStatus, Pending, Stored
  <2> QED BY <2>1, <2>4, <2>5, <2>6, <2>8, <2>9
<1>3. CASE Objects(t) = {}
  <2> DEFINE f == [tid |-> t, block_delayed |-> FALSE, immediate |-> now,
                   cancellation |-> TRUE, flag |-> made']
             s == IF Stored(t) THEN <<f>> \o Tail(preborn[t]) ELSE <<f>>
  <2>1. status' = status /\ preborn' = [preborn EXCEPT ![t] = s]
    BY <1>3 DEF Cancel, Store
  <2>2. f \in Request /\ f.tid = t
    BY <1>1 DEF Request, Fields
  <2> HIDE DEF f
  <2>3. preborn[t] \in Seq(Request)
    OBVIOUS
  <2>4. /\ s \in Seq(Request) /\ s # <<>>
        /\ \A i \in DOMAIN s : s[i].tid = t
    <3>1. CASE Stored(t)
      <4> DEFINE tl == Tail(preborn[t])
      <4>1. tl \in Seq(Request) /\ \A i \in DOMAIN tl : tl[i].tid = t
        <5>1. preborn[t] # <<>>
          BY <3>1 DEF Stored
        <5>2. tl \in Seq(Request)
          BY <2>3, <5>1
        <5>3. \A i \in DOMAIN tl : tl[i] = preborn[t][i + 1] /\ i + 1 \in DOMAIN preborn[t]
          BY <2>3, <5>1
        <5> QED BY <5>2, <5>3 DEF StoredForItself
      <4>2. s = <<f>> \o tl
        BY <3>1
      <4> HIDE DEF tl, s
      <4>3. s \in Seq(Request) /\ Len(s) = 1 + Len(tl) /\ s[1] = f
            /\ \A i \in DOMAIN s : i # 1 => s[i] = tl[i - 1] /\ i - 1 \in DOMAIN tl
        BY <2>2, <4>1, <4>2
      <4>4. Len(tl) \in Nat
        BY <4>1
      <4>5. s # <<>>
        BY <4>3, <4>4
      <4>6. \A i \in DOMAIN s : s[i].tid = t
        BY <2>2, <4>1, <4>3
      <4> QED BY <4>3, <4>5, <4>6
    <3>2. CASE ~Stored(t)
      BY <2>2, <3>2
    <3> QED BY <3>1, <3>2
  <2> HIDE DEF s
  <2>5. info' = info /\ \A u \in Thread : Objects(u)' = Objects(u)
    BY <2>1 DEF info, Objects
  <2>6. preborn' \in [Thread -> Seq(Request)]
    BY <2>1, <2>4
  <2>7. StoredForItself'
    BY <2>1, <2>4 DEF StoredForItself
  <2>8. ObjectsAgree'
    BY <2>1, <2>5 DEF ObjectsAgree
  <2>9. CancelStatus(t)'
    BY <1>3, <2>1, <2>4, <2>5 DEF CancelStatus, Stored
  <2>10. ASSUME NEW u \in Thread \ {t} PROVE Kept(u)
    BY <2>1, <2>5 DEF Kept, CancelStatus, Pending, Stored
  <2>11. status' \in [info' -> Fields] /\ info' \subseteq Object
    BY <2>1, <2>5
  <2> QED BY <2>6, <2>7, <2>8, <2>9, <2>10, <2>11
<1> QED BY <1>2, <1>3

-----------------------------------------------------------------------------
(* The steps *)

\* The checkpoint's own steps leave the objects and the lists alone.
LEMMA SameListsKeep ==
  ASSUME ListsOK, UNCHANGED <<status, preborn>>
  PROVE  ListsOK' /\ \A u \in Thread : Kept(u)
BY DEF ListsOK, StoredForItself, ObjectsAgree, info, Kept, CancelStatus, Pending,
       Stored, Objects

\* A step that keeps every thread's answers and adds nothing to the history.
LEMMA KeepingStep ==
  ASSUME IInv, \A u \in Thread : Kept(u),
         made' = made, asked' = asked, revoked' = revoked, due' \subseteq due,
         \A u \in due' : check[u].at = "throwing" => check'[u].at = "throwing"
  PROVE  HistoryOK' /\ NoLostRequest' /\ RevokedIsGone'
<1>1. HistoryOK /\ NoLostRequest /\ RevokedIsGone
  BY DEF IInv
<1>2. \A u \in Thread : Pending(u)' => Pending(u)
  BY DEF Kept
<1>3. \A u \in Thread : CancelStatus(u) => CancelStatus(u)'
  BY DEF Kept
<1>4. due' \subseteq Thread
  BY <1>1 DEF HistoryOK
<1>5. HistoryOK'
  BY <1>1, <1>2, <1>4 DEF HistoryOK
<1>6. NoLostRequest'
  BY <1>1, <1>3, <1>4 DEF NoLostRequest
<1>7. RevokedIsGone'
  BY <1>1, <1>2 DEF RevokedIsGone
<1> QED BY <1>5, <1>6, <1>7

\* Nothing is pending at the start.
LEMMA IInvInit == Init => IInv
<1> SUFFICES ASSUME Init PROVE IInv
  OBVIOUS
<1>1. info = {} /\ \A t \in Thread : Objects(t) = {} /\ ~Stored(t)
  BY DEF Init, info, Objects, Stored
<1>2. ListsOK
  <2>1. status \in [info -> Fields]
    BY <1>1 DEF Init
  <2>2. preborn \in [Thread -> Seq(Request)] /\ StoredForItself
    BY DEF Init, StoredForItself
  <2> QED BY <1>1, <2>1, <2>2 DEF ListsOK, ObjectsAgree
<1>3. CheckOK
  BY DEF Init, CheckOK
<1>4. \A t \in Thread : ~Pending(t)
  BY <1>1 DEF Pending
<1>5. HistoryOK
  BY <1>4, BoundsAreNatural DEF Init, HistoryOK, Flag
<1>6. NoLostRequest /\ RevokedIsGone
  BY <1>4 DEF Init, NoLostRequest, RevokedIsGone
<1> QED BY <1>2, <1>3, <1>5, <1>6 DEF IInv

\* Objects come, go, block and unblock.
LEMMA ObjectSteps ==
  ASSUME IInv, NEW t \in Thread, NEW o \in Object,
         \/ Construct(t, o) \/ Destroy(t, o)
         \/ Block(t, o) \/ Unblock(t, o) \/ Checkpoint(t, o)
  PROVE  IInv'
<1>1. ListsOK /\ CheckOK
  BY DEF IInv
<1>2. ListsOK' /\ \A u \in Thread : Kept(u)
  <2>1. CASE Construct(t, o)
    BY <1>1, <2>1, ConstructKeeps
  <2>2. CASE Destroy(t, o)
    BY <1>1, <2>2, DestroyKeeps
  <2>3. CASE Block(t, o)
    BY <1>1, <2>3, SetBlockKeeps DEF Block
  <2>4. CASE Unblock(t, o)
    BY <1>1, <2>4, SetBlockKeeps DEF Unblock
  <2>5. CASE Checkpoint(t, o)
    BY <1>1, <2>5, SameListsKeep DEF Checkpoint
  <2> QED BY <2>1, <2>2, <2>3, <2>4, <2>5
<1>3. made' = made /\ asked' = asked /\ revoked' = revoked /\ due' = due
  BY DEF Construct, Destroy, Block, Unblock, Checkpoint, history
<1>4. Running(t) /\ (check' = check
                     \/ check' = [check EXCEPT ![t] = [at |-> "reading", obj |-> o]])
  BY DEF Construct, Destroy, Block, Unblock, Checkpoint
<1>5. CheckOK'
  BY <1>1, <1>4 DEF CheckOK
<1>6. \A u \in Thread : check[u].at = "throwing" => check'[u].at = "throwing"
  BY <1>1, <1>4 DEF CheckOK, Running
<1>7. due' \subseteq Thread
  BY <1>3 DEF IInv, HistoryOK
<1>8. HistoryOK' /\ NoLostRequest' /\ RevokedIsGone'
  BY <1>2, <1>3, <1>6, <1>7, KeepingStep
<1> QED BY <1>2, <1>5, <1>8 DEF IInv

\* A checkpoint reads its object.
LEMMA ReadSteps ==
  ASSUME IInv, NEW t \in Thread, ReadCancellation(t) \/ ReadImmediate(t)
  PROVE  IInv'
<1>1. ListsOK /\ CheckOK
  BY DEF IInv
<1>2. ListsOK' /\ \A u \in Thread : Kept(u)
  BY <1>1, SameListsKeep DEF ReadCancellation, ReadImmediate
<1>3. made' = made /\ asked' = asked /\ revoked' = revoked /\ due' = due
  BY DEF ReadCancellation, ReadImmediate, history
<1>4. check[t].at \in {"reading", "deciding"} /\ check[t].obj \in Object
  BY <1>1 DEF CheckOK, ReadCancellation, ReadImmediate
<1>5. \E a \in {"deciding", "clearing"} :
        \/ check' = [check EXCEPT ![t] = [at |-> a, obj |-> check[t].obj]]
        \/ check' = [check EXCEPT ![t] = [at |-> "running"]]
  BY DEF ReadCancellation, ReadImmediate
<1>6. CheckOK'
  BY <1>1, <1>4, <1>5 DEF CheckOK
<1>7. \A u \in Thread : check[u].at = "throwing" => check'[u].at = "throwing"
  BY <1>1, <1>4, <1>5 DEF CheckOK
<1>8. due' \subseteq Thread
  BY <1>3 DEF IInv, HistoryOK
<1>9. HistoryOK' /\ NoLostRequest' /\ RevokedIsGone'
  BY <1>2, <1>3, <1>7, <1>8, KeepingStep
<1> QED BY <1>2, <1>6, <1>9 DEF IInv

\* The exception ends what was asked of the thread.
LEMMA ThrowStep ==
  ASSUME IInv, NEW t \in Thread, Throw(t)
  PROVE  IInv'
<1>1. ListsOK /\ CheckOK
  BY DEF IInv
<1>2. ListsOK' /\ \A u \in Thread : Kept(u)
  BY <1>1, SameListsKeep DEF Throw
<1>3. check' = [check EXCEPT ![t] = [at |-> "running"]] /\ due' = due \ {t}
      /\ made' = made /\ asked' = asked /\ revoked' = revoked
  BY DEF Throw
<1>4. CheckOK'
  BY <1>1, <1>3 DEF CheckOK
<1>5. due' \subseteq due /\ due' \subseteq Thread
  BY <1>3 DEF IInv, HistoryOK
<1>6. \A u \in due' : check[u].at = "throwing" => check'[u].at = "throwing"
  BY <1>1, <1>3, <1>5 DEF CheckOK
<1>7. HistoryOK' /\ NoLostRequest' /\ RevokedIsGone'
  BY <1>2, <1>3, <1>5, <1>6, KeepingStep
<1> QED BY <1>2, <1>4, <1>7 DEF IInv

\* A checkpoint clears what it is about to throw.
LEMMA ClearStep ==
  ASSUME IInv, NEW t \in Thread, Clear(t)
  PROVE  IInv'
<1>1. ListsOK /\ CheckOK /\ HistoryOK /\ NoLostRequest /\ RevokedIsGone
  BY DEF IInv
<1>2. ListsOK' /\ ~Pending(t)' /\ \A u \in Thread \ {t} : Kept(u)
  BY <1>1, ClearPendingClears DEF Clear
<1>3. check' = [check EXCEPT ![t].at = "throwing"] /\ check[t].at = "clearing"
      /\ made' = made /\ asked' = asked /\ revoked' = revoked /\ due' = due
  BY DEF Clear, history
<1>4. CheckOK'
  <2>1. check'[t] = [at |-> "throwing", obj |-> check[t].obj] /\ check[t].obj \in Object
    BY <1>1, <1>3 DEF CheckOK
  <2>2. \A u \in Thread \ {t} : check'[u] = check[u]
    BY <1>1, <1>3 DEF CheckOK
  <2> QED BY <1>1, <1>3, <2>1, <2>2 DEF CheckOK
<1>5. \A u \in Thread : Pending(u)' => Pending(u)
  BY <1>2 DEF Kept
<1>6. HistoryOK'
  BY <1>1, <1>3, <1>5 DEF HistoryOK
<1>7. NoLostRequest'
  <2>1. due \subseteq Thread
    BY <1>1 DEF HistoryOK
  <2>2. check'[t].at = "throwing" /\ \A u \in Thread \ {t} : check'[u] = check[u]
    BY <1>1, <1>3 DEF CheckOK
  <2>3. \A u \in Thread \ {t} : CancelStatus(u) => CancelStatus(u)'
    BY <1>2 DEF Kept
  <2> QED BY <1>1, <1>3, <2>1, <2>2, <2>3 DEF NoLostRequest
<1>8. RevokedIsGone'
  BY <1>1, <1>3, <1>5 DEF RevokedIsGone
<1> QED BY <1>2, <1>4, <1>6, <1>7, <1>8 DEF IInv

\* A request has a number of its own, later than what was revoked.
LEMMA CancelStep ==
  ASSUME IInv, NEW t \in Thread, NEW now \in Immediate, Cancel(t, now)
  PROVE  IInv'
<1>1. ListsOK /\ CheckOK /\ HistoryOK /\ NoLostRequest /\ RevokedIsGone
  BY DEF IInv
<1>2. ListsOK' /\ CancelStatus(t)' /\ \A u \in Thread \ {t} : Kept(u)
  BY <1>1, CancelAsks
<1>3. made < MaxRequest /\ made' = made + 1 /\ asked' = [asked EXCEPT ![t] = made']
      /\ due' = due \cup {t} /\ check' = check /\ revoked' = revoked
  BY DEF Cancel
<1>4. made \in Flag /\ asked \in [Thread -> Flag] /\ due \subseteq Thread
      /\ revoked \subseteq Flag
  BY <1>1 DEF HistoryOK
<1>5. made \in Nat /\ made' \in Flag /\ \A f \in Flag : f \in Nat
  BY <1>3, <1>4, BoundsAreNatural DEF Flag
<1>6. CheckOK'
  BY <1>1, <1>3 DEF CheckOK
<1>7. asked'[t] = made + 1 /\ \A u \in Thread \ {t} : asked'[u] = asked[u]
  BY <1>3, <1>4
<1>8. \A u \in Thread \ {t} : Pending(u)' => Pending(u)
  BY <1>2 DEF Kept
<1>9. HistoryOK'
  <2>1. made' \in Flag /\ asked' \in [Thread -> Flag] /\ due' \subseteq Thread
        /\ revoked' \subseteq Flag
    BY <1>3, <1>4, <1>5
  <2>2. \A r \in revoked' : r <= made'
    BY <1>1, <1>3, <1>4, <1>5 DEF HistoryOK
  <2>3. \A u \in Thread : asked[u] <= made /\ asked[u] \in Nat
    BY <1>1, <1>4, <1>5 DEF HistoryOK
  <2>4. \A u \in Thread : asked'[u] <= made'
    BY <1>3, <1>5, <1>7, <2>3
  <2>5. \A u, w \in Thread : asked'[u] = asked'[w] /\ asked'[u] # 0 => u = w
    <3>1. \A u, w \in Thread : asked[u] = asked[w] /\ asked[u] # 0 => u = w
      BY <1>1 DEF HistoryOK
    <3>2. \A u \in Thread \ {t} : asked'[u] # asked'[t]
      BY <1>5, <1>7, <2>3
    <3> QED BY <1>7, <3>1, <3>2
  <2>6. \A u \in Thread : Pending(u)' => asked'[u] # 0
    <3>1. asked'[t] # 0
      BY <1>5, <1>7
    <3>2. \A u \in Thread : Pending(u) => asked[u] # 0
      BY <1>1 DEF HistoryOK
    <3> QED BY <1>7, <1>8, <3>1, <3>2
  <2> QED BY <2>1, <2>2, <2>4, <2>5, <2>6 DEF HistoryOK
<1>10. NoLostRequest'
  <2>1. \A u \in Thread \ {t} : CancelStatus(u) => CancelStatus(u)'
    BY <1>2 DEF Kept
  <2> QED BY <1>1, <1>2, <1>3, <1>4, <2>1 DEF NoLostRequest
<1>11. RevokedIsGone'
  <2>1. asked'[t] \notin revoked'
    BY <1>1, <1>3, <1>4, <1>5, <1>7 DEF HistoryOK
  <2> QED BY <1>1, <1>3, <1>7, <1>8, <2>1 DEF RevokedIsGone
<1> QED BY <1>2, <1>6, <1>9, <1>10, <1>11 DEF IInv

\* What is revoked is the thread's own last request, and nothing stays of it.
LEMMA CancelClearStep ==
  ASSUME IInv, NEW t \in Thread, CancelClear(t)
  PROVE  IInv'
<1>1. ListsOK /\ CheckOK /\ HistoryOK /\ NoLostRequest /\ RevokedIsGone
  BY DEF IInv
<1>2. ListsOK' /\ ~Pending(t)' /\ \A u \in Thread \ {t} : Kept(u)
  BY <1>1, ClearPendingClears DEF CancelClear
<1>3. revoked' = (IF Pending(t) THEN revoked \cup {asked[t]} ELSE revoked)
      /\ due' = due \ {t} /\ check' = check /\ made' = made /\ asked' = asked
  BY DEF CancelClear
<1>4. CheckOK'
  BY <1>1, <1>3 DEF CheckOK
<1>5. \A u \in Thread : Pending(u)' => Pending(u) /\ u # t
  BY <1>2 DEF Kept
<1>6. HistoryOK'
  <2>1. revoked' \subseteq Flag /\ due' \subseteq Thread /\ \A r \in revoked' : r <= made'
    BY <1>1, <1>3 DEF HistoryOK
  <2>2. \A u \in Thread : Pending(u)' => asked'[u] # 0
    BY <1>1, <1>3, <1>5 DEF HistoryOK
  <2> QED BY <1>1, <1>3, <2>1, <2>2 DEF HistoryOK
<1>7. NoLostRequest'
  <2>1. \A u \in Thread \ {t} : CancelStatus(u) => CancelStatus(u)'
    BY <1>2 DEF Kept
  <2>2. due \subseteq Thread
    BY <1>1 DEF HistoryOK
  <2> QED BY <1>1, <1>3, <2>1, <2>2 DEF NoLostRequest
<1>8. RevokedIsGone'
  <2>1. SUFFICES ASSUME NEW u \in Thread, Pending(u)' PROVE asked'[u] \notin revoked'
    BY DEF RevokedIsGone
  <2>2. Pending(u) /\ u # t
    BY <1>5, <2>1
  <2>3. asked[u] \notin revoked /\ asked[u] # 0
    BY <1>1, <2>2 DEF RevokedIsGone, HistoryOK
  <2>4. asked[u] # asked[t]
    BY <1>1, <2>2, <2>3 DEF HistoryOK
  <2> QED BY <1>3, <2>3, <2>4
<1> QED BY <1>2, <1>4, <1>6, <1>7, <1>8 DEF IInv

\* The invariant is inductive.
LEMMA IInvNext == IInv /\ [Next]_vars => IInv'
<1> SUFFICES ASSUME IInv, [Next]_vars PROVE IInv'
  OBVIOUS
<1>1. CASE \E t \in Thread : ThreadStep(t) \/ CancelClear(t)
  <2>1. PICK t \in Thread : ThreadStep(t) \/ CancelClear(t)
    BY <1>1
  <2>2. CASE ThreadStep(t)
    BY <2>2, ObjectSteps, ReadSteps, ClearStep, ThrowStep DEF ThreadStep, CheckStep
  <2>3. CASE CancelClear(t)
    BY <2>3, CancelClearStep
  <2> QED BY <2>1, <2>2, <2>3
<1>2. CASE \E t \in Thread, now \in Immediate : Cancel(t, now)
  BY <1>2, CancelStep
<1>3. CASE UNCHANGED vars
  <2>1. ListsOK' /\ \A u \in Thread : Kept(u)
    BY <1>3, SameListsKeep DEF vars, IInv
  <2>2. HistoryOK' /\ NoLostRequest' /\ RevokedIsGone'
    BY <1>3, <2>1, KeepingStep DEF vars, history
  <2>3. CheckOK'
    BY <1>3 DEF vars, IInv, CheckOK
  <2> QED BY <2>1, <2>2, <2>3 DEF IInv
<1> QED BY <1>1, <1>2, <1>3 DEF Next

\* Every reachable state satisfies it.
LEMMA SpecIInv == Spec => []IInv
<1> QED BY IInvInit, IInvNext, PTL DEF Spec

-----------------------------------------------------------------------------
(* Theorems *)

\* The fields of the objects, the requests stored for a thread and where its
\* checkpoint is stay of their types, whatever the order of the calls.
THEOREM TypeCorrect == Spec => []TypeOK
<1>1. IInv => TypeOK
  BY DEF IInv, ListsOK, CheckOK, HistoryOK, TypeOK, Request
<1> QED BY <1>1, SpecIInv, PTL

\* The objects of a thread hold the same request and the same blocking, so
\* that a checkpoint may be called on any of them.
THEOREM ObjectsAlwaysAgree == Spec => []ObjectsAgree
<1>1. IInv => ObjectsAgree
  BY DEF IInv, ListsOK
<1> QED BY <1>1, SpecIInv, PTL

\* A request neither thrown nor revoked is reported by cancel_status or is
\* about to be thrown, for any threads, objects and number of requests.
THEOREM NoRequestIsLost == Spec => []NoLostRequest
<1>1. IInv => NoLostRequest
  BY DEF IInv
<1> QED BY <1>1, SpecIInv, PTL

\* Once cancel_clear answered that it aborted a request, that request is held
\* by no object and stored nowhere.
THEOREM RevokedRequestsAreGone == Spec => []RevokedIsGone
<1>1. IInv => RevokedIsGone
  BY DEF IInv
<1> QED BY <1>1, SpecIInv, PTL
=============================================================================
