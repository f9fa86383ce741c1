---------------------------- MODULE LibubusProofs ----------------------------
(***************************************************************************)
(* A process that uses libubus, for any number of requests, answers, object  *)
(* messages and levels of calls in callbacks: no request outlives its entry  *)
(* in ctx->requests the wrong way, object messages are handled in order, and *)
(* a call that returns has handed out its data.                             *)
(***************************************************************************)
EXTENDS Libubus, SequenceTheorems, FiniteSetTheorems, NaturalsInduction,
        WellFoundedInduction, TLAPS

Kinds == {"none", "sync", "async", "ended"}
Codes == {"none", "OK", "TIMEOUT", "CONNECTION_FAILED"}
Requests == [kind : Kinds, timed : BOOLEAN, ids : Seq(Nat), status : Codes,
             blocked : BOOLEAN, pend : Nat, late : BOOLEAN]
Places == {"user", "loop", "polled", "return", "start", "next", "check", "exit",
           "write"}
Functions == {"complete", "complete_cb", "data_cb", "pend", "handler", "handle", "drain",
              "sync", "async"}
Frames == [f : Functions, r : Nat, at : Places, n : Nat]

----------------------------------------------------------------------------
(* What a function on the stack relies on, with the requests R.             *)

\* A blocking call returns when its request has a status.
CompleteOK(fr, R) ==
    /\ fr.r \in Req /\ R[fr.r].kind = "sync" /\ fr.at # "user"
    /\ fr.at = "return" => R[fr.r].status # "none"

\* complete_cb is called when all is over.
CallbackOK(fr, R) ==
    fr.r \in Req /\ R[fr.r].kind = "async" /\ R[fr.r].status # "none" /\ ~R[fr.r].blocked

\* __ubus_process_req_data: the traversal meets all that was put off, unless
\* `late'.  Before it has begun the request may have been given up.
PendOK(fr, R) ==
    /\ fr.r \in Req
    /\ \/ /\ R[fr.r].kind \in {"sync", "async"} /\ R[fr.r].blocked
          /\ \/ fr.at = "start"
             \/ /\ fr.at = "next" /\ R[fr.r].pend >= fr.n
                /\ R[fr.r].late \/ R[fr.r].pend = fr.n
       \/ R[fr.r].kind = "ended" /\ fr.at = "start"

FrameOK(fr, R) ==
    /\ fr.f = "complete" => CompleteOK(fr, R)
    /\ fr.f = "complete_cb" => CallbackOK(fr, R)
    /\ fr.f = "pend" => PendOK(fr, R)
    /\ fr.f \in {"handle", "drain"} => fr.at # "user"

\* A blocking call for r has not returned.
Active(S, r) == \E j \in 1..Len(S) : S[j].f = "complete" /\ S[j].r = r

\* A request has one of each, and the callbacks of a blocking call are inside it.
Once == {"complete", "complete_cb", "pend"}
Same(a, b) == a.f = b.f /\ a.r = b.r /\ a.f \in Once

StackOK(S, R) ==
    /\ S \in Seq(Frames)
    /\ \A i \in 1..Len(S) : FrameOK(S[i], R)
    /\ \A i, j \in 1..Len(S) : Same(S[i], S[j]) => i = j
    /\ \A i \in 1..Len(S) : S[i].f = "pend" /\ R[S[i].r].kind = "sync" =>
         \E j \in 1..Len(S) : i < j /\ S[j].f = "complete" /\ S[j].r = S[i].r

\* The requests by themselves.
RequestsOK(R) ==
    /\ R \in [Req -> Requests]
    /\ \A r \in Req : ~R[r].blocked => R[r].pend = 0 \/ R[r].late
    /\ \A r \in Req : R[r].kind = "ended" => R[r].pend = 0 /\ R[r].status = "none"
    /\ \E n \in 0..MaxReq : {r \in Req : R[r].kind # "none"} = 1..n

\* ctx->requests, with the stack S on which blocking calls keep theirs.
ListOK(Q, R, S) ==
    /\ Q \in Seq(Req)
    /\ \A i, j \in 1..Len(Q) : Q[i] = Q[j] => i = j
    /\ \A i \in 1..Len(Q) :
         /\ R[Q[i]].status = "none"
         /\ \/ R[Q[i]].kind = "async"
            \/ R[Q[i]].kind = "sync" /\ Active(S, Q[i])

ReqInv == RequestsOK(req) /\ StackOK(stack, req) /\ ListOK(requests, req, stack)

\* One object message is being handled.
OneHandler(S) ==
    \A i, j \in 1..Len(S) : S[i].f = "handler" /\ S[j].f = "handler" => i = j

\* Object messages are handled or put off, in the order they came.
Order ==
    /\ served \in Seq(Nat) /\ pending \in Seq(Nat) /\ objs = Len(served) + Len(pending)
    /\ \A i \in 1..Len(served) : served[i] = i
    /\ \A i \in 1..Len(pending) : pending[i] = Len(served) + i

\* recv_retry waits in ubus_handle_data, when nothing is put off that could be
\* handled.
Mid == partial \in BOOLEAN /\ (partial => Top("handle", "loop") /\ ~MustDrain)

ObjInv == Order /\ OneHandler(stack)
----------------------------------------------------------------------------
(* A set of natural numbers that is not empty has a least element.          *)
LEMMA LeastNumber ==
  ASSUME NEW S \in SUBSET Nat, S # {}
  PROVE  Min(S) \in S /\ \A y \in S : Min(S) <= y
<1>1. \E x \in S : \A y \in S : ~(<<y, x>> \in OpToRel(<, Nat))
  BY NatLessThanWellFounded, WFMin
<1>2. PICK x \in S : \A y \in S : ~(y < x)
  BY <1>1 DEF OpToRel
<1>3. \A y \in S : x <= y
  BY <1>2
<1> QED
  BY <1>3 DEF Min

(* list_del: what is left when an element is taken out of a list.           *)
LEMMA RemoveFirstIs ==
  ASSUME NEW T, NEW s \in Seq(T), NEW e
  PROVE  /\ RemoveFirst(s, e) \in Seq(T)
         /\ \A i \in 1..Len(RemoveFirst(s, e)) : \E j \in 1..Len(s) :
              RemoveFirst(s, e)[i] = s[j]
         /\ (\A i, j \in 1..Len(s) : s[i] = s[j] => i = j) =>
              /\ \A i, j \in 1..Len(RemoveFirst(s, e)) :
                   RemoveFirst(s, e)[i] = RemoveFirst(s, e)[j] => i = j
              /\ \A i \in 1..Len(RemoveFirst(s, e)) : RemoveFirst(s, e)[i] # e
<1>1. CASE ~ \E i \in 1..Len(s) : s[i] = e
  BY <1>1 DEF RemoveFirst
<1>2. CASE \E i \in 1..Len(s) : s[i] = e
  <2> DEFINE I == {i \in 1..Len(s) : s[i] = e}
  <2>0. Len(s) \in Nat
    BY LenProperties
  <2>1. I \in SUBSET Nat /\ I # {}
    BY <1>2, <2>0
  <2>2. Min(I) \in I
    <3> HIDE DEF I
    <3> QED
      BY <2>1, LeastNumber
  <2>3. PICK k \in 1..Len(s) : k = Min(I) /\ s[k] = e
    BY <2>2
  <2>4. SelectInSeq(s, LAMBDA v : v = e) = k
    BY <2>1, <2>3 DEF SelectInSeq
  <2>5. RemoveFirst(s, e) = SubSeq(s, 1, k - 1) \o SubSeq(s, k + 1, Len(s))
    BY <1>2, <2>4 DEF RemoveFirst, RemoveAt
  <2>6. PICK n \in Nat : n = Len(s)
    BY <2>0
  <2>7. PICK a : a = SubSeq(s, 1, k - 1)
    OBVIOUS
  <2>8. PICK b : b = SubSeq(s, k + 1, Len(s))
    OBVIOUS
  <2>9. a \in Seq(T) /\ Len(a) = k - 1 /\ \A i \in 1..(k - 1) : a[i] = s[i]
    BY <2>0, <2>7, SubSeqProperties
  <2>10. b \in Seq(T) /\ Len(b) = n - k /\ \A i \in 1..(n - k) : b[i] = s[k + i]
    <3>1. CASE k + 1 <= n
      <4>1. /\ SubSeq(s, k + 1, n) \in Seq(T)
            /\ Len(SubSeq(s, k + 1, n)) = IF k + 1 <= n THEN n - (k + 1) + 1 ELSE 0
            /\ \A i \in 1..(n - (k + 1) + 1) : SubSeq(s, k + 1, n)[i] = s[(k + 1) + i - 1]
        BY <2>0, <2>6, <3>1, SubSeqProperties
      <4> QED
        BY <2>6, <2>8, <3>1, <4>1
    <3>2. CASE ~(k + 1 <= n)
      BY <2>0, <2>6, <2>8, <3>2
    <3> QED
      BY <3>1, <3>2
  <2>11. PICK t : t = RemoveFirst(s, e)
    OBVIOUS
  <2>12. /\ t \in Seq(T) /\ Len(t) = n - 1
         /\ \A i \in 1..(n - 1) : t[i] = IF i < k THEN s[i] ELSE s[i + 1]
    <3>1. t = a \o b
      BY <2>5, <2>7, <2>8, <2>11
    <3>2. t \in Seq(T) /\ Len(t) = Len(a) + Len(b)
          /\ \A i \in 1..(Len(a) + Len(b)) : t[i] = IF i <= Len(a) THEN a[i] ELSE b[i - Len(a)]
      BY <2>9, <2>10, <3>1, ConcatProperties
    <3>3. ASSUME NEW i \in 1..(n - 1) PROVE t[i] = IF i < k THEN s[i] ELSE s[i + 1]
      <4>1. t[i] = IF i <= k - 1 THEN a[i] ELSE b[i - (k - 1)]
        BY <2>6, <2>9, <2>10, <3>2
      <4>2. CASE i < k
        BY <2>9, <4>1, <4>2
      <4>3. CASE ~(i < k)
        <5>1. i - (k - 1) \in 1..(n - k) /\ k + (i - (k - 1)) = i + 1
          BY <2>6, <4>3
        <5> QED
          BY <2>10, <4>1, <4>3, <5>1
      <4> QED
        BY <4>2, <4>3
    <3> QED
      BY <2>6, <2>9, <2>10, <3>2, <3>3
  <2>13. \A i \in 1..Len(t) : \E j \in 1..Len(s) : t[i] = s[j] /\ j # k /\ j = IF i < k THEN i ELSE i + 1
    <3> TAKE i \in 1..Len(t)
    <3>1. (IF i < k THEN i ELSE i + 1) \in 1..Len(s)
      BY <2>6, <2>12
    <3> WITNESS (IF i < k THEN i ELSE i + 1) \in 1..Len(s)
    <3> QED
      BY <2>6, <2>12
  <2>14. ASSUME \A i, j \in 1..Len(s) : s[i] = s[j] => i = j
         PROVE  /\ \A i, j \in 1..Len(t) : t[i] = t[j] => i = j
                /\ \A i \in 1..Len(t) : t[i] # e
    <3>1. ASSUME NEW i \in 1..Len(t), NEW j \in 1..Len(t), t[i] = t[j] PROVE i = j
      BY <2>6, <2>12, <2>13, <2>14, <3>1
    <3>2. ASSUME NEW i \in 1..Len(t) PROVE t[i] # e
      BY <2>3, <2>13, <2>14
    <3> QED
      BY <3>1, <3>2
  <2> QED
    BY <2>11, <2>12, <2>13, <2>14
<1> QED
  BY <1>1, <1>2

----------------------------------------------------------------------------
(* A function is called.                                                    *)
LEMMA PushIs ==
  ASSUME NEW T, NEW S \in Seq(T), NEW x \in T
  PROVE  /\ <<x>> \o S \in Seq(T) /\ Len(<<x>> \o S) = Len(S) + 1
         /\ Len(S) \in Nat /\ (<<x>> \o S)[1] = x
         /\ \A i \in 1..Len(S) : (<<x>> \o S)[i + 1] = S[i]
         /\ \A i \in 1..(Len(S) + 1) : i # 1 => i - 1 \in 1..Len(S) /\ (<<x>> \o S)[i] = S[i - 1]
<1>1. <<x>> \in Seq(T) /\ Len(<<x>>) = 1 /\ <<x>>[1] = x
  OBVIOUS
<1>2. PICK u \in Seq(T) : u = <<x>> /\ Len(u) = 1 /\ u[1] = x
  BY <1>1
<1>3. PICK t : t = u \o S
  OBVIOUS
<1>4. PICK n \in Nat : n = Len(S)
  BY LenProperties
<1>5. /\ t \in Seq(T) /\ Len(t) = Len(u) + Len(S)
      /\ \A i \in 1..(Len(u) + Len(S)) : t[i] = IF i <= Len(u) THEN u[i] ELSE S[i - Len(u)]
  BY <1>3, ConcatProperties
<1>6. /\ Len(t) = n + 1
      /\ \A i \in 1..(n + 1) : t[i] = IF i <= 1 THEN u[i] ELSE S[i - 1]
  BY <1>2, <1>4, <1>5
<1>7. t[1] = x
  BY <1>2, <1>6
<1>8. \A i \in 1..n : t[i + 1] = S[i]
  <2> TAKE i \in 1..n
  <2>1. i + 1 \in 1..(n + 1) /\ ~(i + 1 <= 1) /\ (i + 1) - 1 = i
    OBVIOUS
  <2> QED
    BY <1>6, <2>1
<1>9. \A i \in 1..(n + 1) : i # 1 => i - 1 \in 1..n /\ t[i] = S[i - 1]
  BY <1>6
<1> QED
  BY <1>2, <1>3, <1>4, <1>5, <1>6, <1>7, <1>8, <1>9

(* A function returns.                                                      *)
LEMMA PopIs ==
  ASSUME NEW T, NEW S \in Seq(T), S # <<>>
  PROVE  /\ Tail(S) \in Seq(T) /\ Len(S) \in Nat /\ Len(S) >= 1 /\ Len(Tail(S)) = Len(S) - 1
         /\ Head(S) = S[1] /\ S[1] \in T
         /\ \A i \in 1..(Len(S) - 1) : i + 1 \in 1..Len(S) /\ Tail(S)[i] = S[i + 1]
         /\ S = <<S[1]>> \o Tail(S)
<1>1. Len(S) \in Nat /\ Len(S) # 0
  BY LenProperties, EmptySeq
<1>2. /\ Tail(S) \in Seq(T) /\ Len(Tail(S)) = Len(S) - 1 /\ Head(S) \in T
      /\ \A i \in 1..Len(Tail(S)) : Tail(S)[i] = S[i + 1]
  BY HeadTailProperties
<1>3. Head(S) = S[1]
  OBVIOUS
<1>4. S = <<S[1]>> \o Tail(S)
  BY <1>3, HeadTailProperties
<1> QED
  BY <1>1, <1>2, <1>3, <1>4

(* A callback is called from a function that is called.                     *)
LEMMA TwoFrames ==
  ASSUME NEW T, NEW S \in Seq(T), NEW x \in T, NEW y \in T
  PROVE  <<x, y>> \o S = <<x>> \o (<<y>> \o S)
<1>1. <<x>> \in Seq(T) /\ <<y>> \in Seq(T)
  OBVIOUS
<1>2. <<x>> \o <<y>> = <<x, y>>
  <2>1. PICK u \in Seq(T) : u = <<x>> \o <<y>>
    BY <1>1, ConcatProperties
  <2>2. Len(u) = 2 /\ u[1] = x /\ u[2] = y
    <3>1. PICK z \in Seq(T) : z = <<y>> /\ Len(z) = 1 /\ z[1] = y
      BY <1>1
    <3>2. /\ Len(<<x>> \o z) = Len(z) + 1 /\ (<<x>> \o z)[1] = x
          /\ \A i \in 1..Len(z) : (<<x>> \o z)[i + 1] = z[i]
      BY PushIs
    <3> QED
      BY <2>1, <3>1, <3>2
  <2>3. PICK v \in Seq(T) : v = <<x, y>> /\ Len(v) = 2 /\ v[1] = x /\ v[2] = y
    <3>1. <<x, y>> \in Seq(T)
      OBVIOUS
    <3>2. Len(<<x, y>>) = 2 /\ <<x, y>>[1] = x /\ <<x, y>>[2] = y
      OBVIOUS
    <3> QED
      BY <3>1, <3>2
  <2>4. \A i \in 1..2 : i = 1 \/ i = 2
    OBVIOUS
  <2>5. u = v
    BY <2>2, <2>3, <2>4, SeqEqual
  <2> QED
    BY <2>1, <2>3, <2>5
<1>3. (<<x>> \o <<y>>) \o S = <<x>> \o (<<y>> \o S)
  BY <1>1, ConcatAssociative
<1> QED
  BY <1>2, <1>3

(* What is left on the stack when a function returns.                       *)
LEMMA PopKeeps ==
  ASSUME NEW S, NEW R, StackOK(S, R), S # <<>>
  PROVE  /\ StackOK(Tail(S), R) /\ S[1] \in Frames /\ FrameOK(S[1], R)
         /\ \A j \in 1..Len(Tail(S)) : ~Same(S[1], Tail(S)[j])
         /\ \A r : Active(S, r) => Active(Tail(S), r) \/ (S[1].f = "complete" /\ S[1].r = r)
         /\ \A r : Active(Tail(S), r) => Active(S, r)
         /\ S[1].f = "complete" =>
              \A j \in 1..Len(Tail(S)) : ~(Tail(S)[j].f = "pend" /\ Tail(S)[j].r = S[1].r)
         /\ S[1].f = "pend" /\ R[S[1].r].kind = "sync" => Active(Tail(S), S[1].r)
<1>0. S \in Seq(Frames)
  BY DEF StackOK
<1>1. PICK n \in Nat : n = Len(S) /\ n >= 1
  BY <1>0, PopIs
<1>2. PICK t \in Seq(Frames) : t = Tail(S) /\ Len(t) = n - 1
                               /\ \A i \in 1..(n - 1) : i + 1 \in 1..n /\ t[i] = S[i + 1]
  <2>1. /\ Tail(S) \in Seq(Frames) /\ Len(Tail(S)) = Len(S) - 1
        /\ \A i \in 1..(Len(S) - 1) : i + 1 \in 1..Len(S) /\ Tail(S)[i] = S[i + 1]
    BY <1>0, PopIs
  <2> QED
    BY <1>1, <2>1
<1>3. S[1] \in Frames /\ 1 \in 1..n
  BY <1>0, <1>1, PopIs
<1>4. FrameOK(S[1], R)
  BY <1>1, <1>3 DEF StackOK
<1>5. \A i, j \in 1..n : Same(S[i], S[j]) => i = j
  BY <1>1 DEF StackOK
<1>6. \A j \in 1..(n - 1) : ~Same(S[1], t[j])
  BY <1>1, <1>2, <1>3, <1>5
<1>7. \A i \in 1..n : i = 1 \/ (i - 1 \in 1..(n - 1) /\ S[i] = t[i - 1])
  BY <1>1, <1>2
<1>8. ASSUME NEW r, Active(S, r) PROVE Active(t, r) \/ (S[1].f = "complete" /\ S[1].r = r)
  BY <1>1, <1>2, <1>7, <1>8 DEF Active
<1>9. ASSUME NEW r, Active(t, r) PROVE Active(S, r)
  BY <1>1, <1>2, <1>9 DEF Active
<1>10. ASSUME NEW i \in 1..n, S[i].f = "pend", R[S[i].r].kind = "sync"
       PROVE  \E j \in 1..(n - 1) : i < j + 1 /\ t[j].f = "complete" /\ t[j].r = S[i].r
  <2>1. PICK j \in 1..n : i < j /\ S[j].f = "complete" /\ S[j].r = S[i].r
    BY <1>1, <1>10 DEF StackOK
  <2>2. j - 1 \in 1..(n - 1) /\ S[j] = t[j - 1] /\ i < (j - 1) + 1
    BY <1>7, <2>1
  <2> QED
    BY <2>1, <2>2
<1>11. S[1].f = "pend" /\ R[S[1].r].kind = "sync" => Active(t, S[1].r)
  BY <1>2, <1>3, <1>10 DEF Active
<1>12. ASSUME S[1].f = "complete", NEW j \in 1..(n - 1), t[j].f = "pend", t[j].r = S[1].r PROVE FALSE
  <2>1. R[t[j].r].kind = "sync" /\ j + 1 \in 1..n /\ t[j] = S[j + 1]
    BY <1>2, <1>4, <1>12 DEF FrameOK, CompleteOK
  <2>2. PICK k \in 1..(n - 1) : t[k].f = "complete" /\ t[k].r = S[1].r
    BY <1>10, <1>12, <2>1
  <2> QED
    BY <1>6, <1>12, <2>2 DEF Same, Once
<1>13. StackOK(t, R)
  <2>1. \A i \in 1..(n - 1) : FrameOK(t[i], R)
    BY <1>1, <1>2 DEF StackOK
  <2>2. ASSUME NEW i \in 1..(n - 1), NEW j \in 1..(n - 1), Same(t[i], t[j]) PROVE i = j
    <3>1. i + 1 = j + 1
      BY <1>2, <1>5, <2>2
    <3> QED
      BY <3>1
  <2>3. ASSUME NEW i \in 1..(n - 1), t[i].f = "pend", R[t[i].r].kind = "sync"
        PROVE  \E j \in 1..(n - 1) : i < j /\ t[j].f = "complete" /\ t[j].r = t[i].r
    <3>1. i + 1 \in 1..n /\ t[i] = S[i + 1]
      BY <1>2
    <3>2. PICK j \in 1..(n - 1) : i + 1 < j + 1 /\ t[j].f = "complete" /\ t[j].r = t[i].r
      BY <1>10, <2>3, <3>1
    <3> QED
      BY <3>2
  <2>4. t \in Seq(Frames) /\ Len(t) = n - 1
    BY <1>2
  <2>5. /\ t \in Seq(Frames)
        /\ \A i \in 1..Len(t) : FrameOK(t[i], R)
        /\ \A i, j \in 1..Len(t) : Same(t[i], t[j]) => i = j
        /\ \A i \in 1..Len(t) : t[i].f = "pend" /\ R[t[i].r].kind = "sync" =>
             \E j \in 1..Len(t) : i < j /\ t[j].f = "complete" /\ t[j].r = t[i].r
    BY <2>1, <2>2, <2>3, <2>4
  <2> QED
    BY ONLY <2>5 DEF StackOK
<1> QED
  BY <1>2, <1>3, <1>4, <1>6, <1>8, <1>9, <1>11, <1>12, <1>13

(* A function is called that relies on nothing that does not hold.          *)
LEMMA PushKeeps ==
  ASSUME NEW S, NEW R, StackOK(S, R), NEW x \in Frames, FrameOK(x, R),
         \A j \in 1..Len(S) : ~Same(x, S[j]),
         x.f = "pend" /\ R[x.r].kind = "sync" => Active(S, x.r)
  PROVE  /\ StackOK(<<x>> \o S, R)
         /\ \A r : Active(S, r) => Active(<<x>> \o S, r)
         /\ x.f = "complete" => Active(<<x>> \o S, x.r)
<1>0. S \in Seq(Frames)
  BY DEF StackOK
<1>1. PICK n \in Nat : n = Len(S)
  BY <1>0, LenProperties
<1>2. PICK t \in Seq(Frames) : /\ t = <<x>> \o S /\ Len(t) = n + 1 /\ t[1] = x
                               /\ \A i \in 1..n : t[i + 1] = S[i]
                               /\ \A i \in 1..(n + 1) : i # 1 => i - 1 \in 1..n /\ t[i] = S[i - 1]
  <2>1. /\ <<x>> \o S \in Seq(Frames) /\ Len(<<x>> \o S) = Len(S) + 1 /\ (<<x>> \o S)[1] = x
        /\ \A i \in 1..Len(S) : (<<x>> \o S)[i + 1] = S[i]
        /\ \A i \in 1..(Len(S) + 1) : i # 1 => i - 1 \in 1..Len(S) /\ (<<x>> \o S)[i] = S[i - 1]
    BY <1>0, PushIs
  <2>2. PICK u : u = <<x>> \o S
    OBVIOUS
  <2>3. u \in Seq(Frames) /\ Len(u) = n + 1 /\ u[1] = x /\ (\A i \in 1..n : u[i + 1] = S[i])
        /\ \A i \in 1..(n + 1) : i # 1 => i - 1 \in 1..n /\ u[i] = S[i - 1]
    BY <1>1, <2>1, <2>2
  <2> QED
    BY <2>2, <2>3
<1>3. \A i \in 1..n : i + 1 \in 1..(n + 1) /\ 1 \in 1..(n + 1)
  OBVIOUS
<1>4. ASSUME NEW r, Active(S, r) PROVE Active(t, r)
  BY <1>1, <1>2, <1>3, <1>4 DEF Active
<1>5. x.f = "complete" => Active(t, x.r)
  <2>1. 1 \in 1..(n + 1)
    OBVIOUS
  <2> QED
    BY <1>2, <2>1 DEF Active
<1>6. \A i \in 1..(n + 1) : FrameOK(t[i], R)
  BY <1>1, <1>2 DEF StackOK
<1>7. ASSUME NEW i \in 1..(n + 1), NEW j \in 1..(n + 1), Same(t[i], t[j]) PROVE i = j
  <2>1. CASE i = 1 /\ j # 1
    BY <1>1, <1>2, <1>7, <2>1
  <2>2. CASE i # 1 /\ j = 1
    <3>1. Same(t[j], t[i])
      BY <1>7 DEF Same
    <3> QED
      BY <1>1, <1>2, <2>2, <3>1
  <2>3. CASE i # 1 /\ j # 1
    <3>1. i - 1 = j - 1
      BY <1>1, <1>2, <1>7, <2>3 DEF StackOK
    <3> QED
      BY <3>1
  <2> QED
    BY <2>1, <2>2, <2>3
<1>8. ASSUME NEW i \in 1..(n + 1), t[i].f = "pend", R[t[i].r].kind = "sync"
      PROVE  \E j \in 1..(n + 1) : i < j /\ t[j].f = "complete" /\ t[j].r = t[i].r
  <2>1. CASE i = 1
    <3>1. PICK k \in 1..n : S[k].f = "complete" /\ S[k].r = x.r
      BY <1>1, <1>2, <1>8, <2>1 DEF Active
    <3>2. k + 1 \in 1..(n + 1) /\ i < k + 1 /\ t[k + 1] = S[k]
      BY <1>2, <2>1
    <3> QED
      BY <1>2, <2>1, <3>1, <3>2
  <2>2. CASE i # 1
    <3>1. i - 1 \in 1..n /\ t[i] = S[i - 1]
      BY <1>2, <2>2
    <3>2. PICK k \in 1..n : i - 1 < k /\ S[k].f = "complete" /\ S[k].r = t[i].r
      BY <1>1, <1>8, <3>1 DEF StackOK
    <3>3. k + 1 \in 1..(n + 1) /\ i < k + 1 /\ t[k + 1] = S[k]
      BY <1>2, <3>2
    <3> QED
      BY <3>2, <3>3
  <2> QED
    BY <2>1, <2>2
<1>9. StackOK(t, R)
  <2>1. t \in Seq(Frames) /\ Len(t) = n + 1
    BY <1>2
  <2>2. /\ t \in Seq(Frames)
        /\ \A i \in 1..Len(t) : FrameOK(t[i], R)
        /\ \A i, j \in 1..Len(t) : Same(t[i], t[j]) => i = j
        /\ \A i \in 1..Len(t) : t[i].f = "pend" /\ R[t[i].r].kind = "sync" =>
             \E j \in 1..Len(t) : i < j /\ t[j].f = "complete" /\ t[j].r = t[i].r
    BY <1>6, <1>7, <1>8, <2>1
  <2> QED
    BY ONLY <2>2 DEF StackOK
<1> QED
  BY <1>2, <1>4, <1>5, <1>9

(* A function goes on at another place.                                     *)
LEMMA GotoKeeps ==
  ASSUME NEW S, NEW R, StackOK(S, R), S # <<>>, NEW a \in Places,
         S[1].f \in {"handle", "complete", "handler"}, FrameOK([S[1] EXCEPT !.at = a], R)
  PROVE  /\ StackOK(<<[Head(S) EXCEPT !.at = a]>> \o Tail(S), R)
         /\ \A r : Active(S, r) => Active(<<[Head(S) EXCEPT !.at = a]>> \o Tail(S), r)
<1>1. PICK x : x = [S[1] EXCEPT !.at = a]
  OBVIOUS
<1>2. S[1] \in Frames /\ Head(S) = S[1]
  BY PopIs DEF StackOK
<1>3. x \in Frames /\ x.f = S[1].f /\ x.r = S[1].r
  BY <1>1, <1>2 DEF Frames
<1>4. StackOK(Tail(S), R)
  BY PopKeeps
<1>5. \A j \in 1..Len(Tail(S)) : ~Same(x, Tail(S)[j])
  BY <1>3, PopKeeps DEF Same
<1>6. /\ StackOK(<<x>> \o Tail(S), R)
      /\ \A r : Active(Tail(S), r) => Active(<<x>> \o Tail(S), r)
      /\ x.f = "complete" => Active(<<x>> \o Tail(S), x.r)
  <2>1. x.f # "pend" /\ FrameOK(x, R)
    BY <1>1, <1>3
  <2> QED
    BY <1>3, <1>4, <1>5, <2>1, PushKeeps
<1>7. \A r : Active(S, r) => Active(Tail(S), r) \/ (S[1].f = "complete" /\ S[1].r = r)
  BY PopKeeps
<1>8. PICK y : y = <<x>> \o Tail(S)
  OBVIOUS
<1>9. <<[Head(S) EXCEPT !.at = a]>> \o Tail(S) = y
  BY <1>1, <1>2, <1>8
<1>10. StackOK(y, R)
  BY <1>6, <1>8
<1>11. ASSUME NEW r, Active(S, r) PROVE Active(y, r)
  <2>1. CASE Active(Tail(S), r)
    BY <1>6, <1>8, <2>1
  <2>2. CASE S[1].f = "complete" /\ S[1].r = r
    BY <1>3, <1>6, <1>8, <2>2
  <2> QED
    BY <1>7, <1>11, <2>1, <2>2
<1> QED
  BY <1>9, <1>10, <1>11

----------------------------------------------------------------------------
(* A request changes: what lies on the stack must still be right for it.    *)
LEMMA ChangeKeeps ==
  ASSUME NEW R, RequestsOK(R), NEW S, StackOK(S, R), NEW r \in Req, NEW x \in Requests,
         R[r].kind # "none", x.kind # "none", x.kind = "sync" => R[r].kind = "sync",
         ~x.blocked => x.pend = 0 \/ x.late,
         x.kind = "ended" => x.pend = 0 /\ x.status = "none",
         \A i \in 1..Len(S) : S[i].r = r => FrameOK(S[i], [R EXCEPT ![r] = x])
  PROVE  RequestsOK([R EXCEPT ![r] = x]) /\ StackOK(S, [R EXCEPT ![r] = x])
<1>1. PICK Q : Q = [R EXCEPT ![r] = x]
  OBVIOUS
<1>2. /\ R \in [Req -> Requests] /\ Q \in [Req -> Requests] /\ Q[r] = x
      /\ \A q \in Req : q # r => Q[q] = R[q]
  BY <1>1 DEF RequestsOK
<1>3. RequestsOK(Q)
  <2>1. /\ \A q \in Req : ~Q[q].blocked => Q[q].pend = 0 \/ Q[q].late
        /\ \A q \in Req : Q[q].kind = "ended" => Q[q].pend = 0 /\ Q[q].status = "none"
    BY <1>2 DEF RequestsOK
  <2>2. {q \in Req : Q[q].kind # "none"} = {q \in Req : R[q].kind # "none"}
    BY <1>2
  <2>3. \E n \in 0..MaxReq : {q \in Req : Q[q].kind # "none"} = 1..n
    BY <2>2 DEF RequestsOK
  <2> QED
    BY <1>2, <2>1, <2>3 DEF RequestsOK
<1>4. ASSUME NEW i \in 1..Len(S) PROVE FrameOK(S[i], Q)
  <2>1. CASE S[i].r = r
    BY <1>1, <2>1
  <2>2. CASE S[i].r # r
    <3>1. FrameOK(S[i], R)
      BY DEF StackOK
    <3> QED
      BY <1>2, <2>2, <3>1 DEF FrameOK, CompleteOK, CallbackOK, PendOK
  <2> QED
    BY <2>1, <2>2
<1>5. ASSUME NEW i \in 1..Len(S), S[i].f = "pend", Q[S[i].r].kind = "sync"
      PROVE  R[S[i].r].kind = "sync"
  <2>1. S[i].r \in Req
    BY <1>5 DEF StackOK, FrameOK, PendOK
  <2> QED
    BY <1>2, <1>5, <2>1
<1>6. StackOK(S, Q)
  <2>1. /\ S \in Seq(Frames)
        /\ \A i, j \in 1..Len(S) : Same(S[i], S[j]) => i = j
        /\ \A i \in 1..Len(S) : S[i].f = "pend" /\ R[S[i].r].kind = "sync" =>
             \E j \in 1..Len(S) : i < j /\ S[j].f = "complete" /\ S[j].r = S[i].r
    BY DEF StackOK
  <2>2. \A i \in 1..Len(S) : S[i].f = "pend" /\ Q[S[i].r].kind = "sync" =>
          \E j \in 1..Len(S) : i < j /\ S[j].f = "complete" /\ S[j].r = S[i].r
    BY <1>5, <2>1
  <2> QED
    BY ONLY <1>4, <2>1, <2>2 DEF StackOK
<1> QED
  BY <1>1, <1>3, <1>6

(* The requests that are still listed, when only r has changed.             *)
LEMMA ListKeeps ==
  ASSUME NEW Q, NEW R, NEW S, ListOK(Q, R, S), NEW P, NEW S2, NEW r \in Req, NEW x,
         R \in [Req -> Requests], P \in Seq(Req),
         \A i, j \in 1..Len(P) : P[i] = P[j] => i = j,
         \A i \in 1..Len(P) : \E j \in 1..Len(Q) : P[i] = Q[j],
         \A i \in 1..Len(P) : P[i] = r => x.kind = R[r].kind /\ x.status = R[r].status,
         \A i \in 1..Len(P) : Active(S, P[i]) => Active(S2, P[i])
  PROVE  ListOK(P, [R EXCEPT ![r] = x], S2)
<1>1. PICK T : T = [R EXCEPT ![r] = x]
  OBVIOUS
<1>2. T[r] = x /\ \A q \in Req : q # r => T[q] = R[q]
  BY <1>1
<1>3. ASSUME NEW i \in 1..Len(P)
      PROVE  /\ T[P[i]].status = "none"
             /\ \/ T[P[i]].kind = "async"
                \/ T[P[i]].kind = "sync" /\ Active(S2, P[i])
  <2>1. PICK j \in 1..Len(Q) : P[i] = Q[j]
    OBVIOUS
  <2>2. /\ R[P[i]].status = "none"
        /\ R[P[i]].kind = "async" \/ (R[P[i]].kind = "sync" /\ Active(S, P[i]))
    BY <2>1 DEF ListOK
  <2>3. P[i] \in Req
    BY ElementOfSeq
  <2>4. T[P[i]].status = R[P[i]].status /\ T[P[i]].kind = R[P[i]].kind
    BY <1>2, <2>3
  <2> QED
    BY <2>2, <2>4
<1> QED
  BY <1>1, <1>3 DEF ListOK

(* The list, when r is taken out, was not in it, or stays.                  *)
LEMMA ListUpdates ==
  ASSUME NEW Q, NEW R, NEW S, ListOK(Q, R, S), R \in [Req -> Requests],
         NEW S2, NEW r \in Req, NEW x, \A q : q # r /\ Active(S, q) => Active(S2, q)
  PROVE  /\ ListOK(RemoveFirst(Q, r), [R EXCEPT ![r] = x], S2)
         /\ (\A i \in 1..Len(Q) : Q[i] # r) => ListOK(Q, [R EXCEPT ![r] = x], S2)
         /\ x.kind = R[r].kind /\ x.status = R[r].status /\ (Active(S, r) => Active(S2, r))
              => ListOK(Q, [R EXCEPT ![r] = x], S2)
<1>1. Q \in Seq(Req) /\ \A i, j \in 1..Len(Q) : Q[i] = Q[j] => i = j
  BY DEF ListOK
<1>2. \A i \in 1..Len(Q) : \E j \in 1..Len(Q) : Q[i] = Q[j]
  OBVIOUS
<1>3. PICK P : P = RemoveFirst(Q, r)
  OBVIOUS
<1>4. /\ P \in Seq(Req) /\ \A i, j \in 1..Len(P) : P[i] = P[j] => i = j
      /\ \A i \in 1..Len(P) : P[i] # r
      /\ \A i \in 1..Len(P) : \E j \in 1..Len(Q) : P[i] = Q[j]
  <2>1. /\ RemoveFirst(Q, r) \in Seq(Req)
        /\ \A i \in 1..Len(RemoveFirst(Q, r)) : \E j \in 1..Len(Q) : RemoveFirst(Q, r)[i] = Q[j]
    BY <1>1, RemoveFirstIs
  <2>2. /\ \A i, j \in 1..Len(RemoveFirst(Q, r)) :
             RemoveFirst(Q, r)[i] = RemoveFirst(Q, r)[j] => i = j
        /\ \A i \in 1..Len(RemoveFirst(Q, r)) : RemoveFirst(Q, r)[i] # r
    BY <1>1, RemoveFirstIs
  <2> QED
    BY <1>3, <2>1, <2>2
<1>5. ListOK(P, [R EXCEPT ![r] = x], S2)
  <2>1. \A i \in 1..Len(P) : Active(S, P[i]) => Active(S2, P[i])
    BY <1>4
  <2>2. \A i \in 1..Len(P) : P[i] = r => x.kind = R[r].kind /\ x.status = R[r].status
    BY <1>4
  <2> QED
    BY <1>4, <2>1, <2>2, ListKeeps
<1>6. ASSUME \A i \in 1..Len(Q) : Q[i] # r PROVE ListOK(Q, [R EXCEPT ![r] = x], S2)
  BY <1>1, <1>2, <1>6, ListKeeps
<1>7. ASSUME x.kind = R[r].kind, x.status = R[r].status, Active(S, r) => Active(S2, r)
      PROVE  ListOK(Q, [R EXCEPT ![r] = x], S2)
  <2>1. \A i \in 1..Len(Q) : Active(S, Q[i]) => Active(S2, Q[i])
    BY <1>7
  <2> QED
    BY <1>1, <1>2, <1>7, <2>1, ListKeeps
<1> QED
  BY <1>3, <1>5, <1>6, <1>7

(* Only the stack changes.                                                  *)
LEMMA ListStack ==
  ASSUME NEW Q, NEW R, NEW S, ListOK(Q, R, S), NEW S2, \A q : Active(S, q) => Active(S2, q)
  PROVE  ListOK(Q, R, S2)
  BY DEF ListOK

(* A request that is waited for gets its status.                            *)
LEMMA StatusKeeps ==
  ASSUME NEW R, RequestsOK(R), NEW S, StackOK(S, R), NEW r \in Req,
         R[r].kind \in {"sync", "async"}, NEW code \in Codes \ {"none"}
  PROVE  /\ RequestsOK([R EXCEPT ![r].status = code]) /\ StackOK(S, [R EXCEPT ![r].status = code])
         /\ [R EXCEPT ![r].status = code] = [R EXCEPT ![r] = [R[r] EXCEPT !.status = code]]
         /\ [R EXCEPT ![r].status = code][r] = [R[r] EXCEPT !.status = code]
<1>1. R \in [Req -> Requests] /\ R[r] \in Requests
  BY DEF RequestsOK
<1>2. PICK x : x = [R[r] EXCEPT !.status = code]
  OBVIOUS
<1>3. /\ x \in Requests /\ x.kind = R[r].kind /\ x.status = code /\ x.blocked = R[r].blocked
      /\ x.pend = R[r].pend /\ x.late = R[r].late
  BY <1>1, <1>2 DEF Requests
<1>4. PICK P : P = [R EXCEPT ![r] = x]
  OBVIOUS
<1>5. P = [R EXCEPT ![r].status = code] /\ P[r] = x
  BY <1>1, <1>2, <1>4
<1>6. ASSUME NEW i \in 1..Len(S), S[i].r = r PROVE FrameOK(S[i], P)
  <2>1. FrameOK(S[i], R)
    BY DEF StackOK
  <2> QED
    BY <1>3, <1>5, <1>6, <2>1 DEF FrameOK, CompleteOK, CallbackOK, PendOK
<1>7. ~x.blocked => x.pend = 0 \/ x.late
  BY <1>3 DEF RequestsOK
<1>8. RequestsOK(P) /\ StackOK(S, P)
  BY <1>3, <1>4, <1>6, <1>7, ChangeKeeps
<1> QED
  BY <1>2, <1>4, <1>5, <1>8

(* ubus_set_req_status                                                      *)
LEMMA SetStatusKeeps ==
  ASSUME NEW R, RequestsOK(R), NEW S, ListOK(requests, R, S), NEW r \in Req,
         R[r].kind \in {"sync", "async"}, R[r].kind = req[r].kind, R[r].blocked = req[r].blocked,
         NEW code \in Codes \ {"none"}, NEW st, StackOK(st, [R EXCEPT ![r].status = code]),
         RequestsOK([R EXCEPT ![r].status = code]),
         \A j \in 1..Len(st) : ~(st[j].f = "complete_cb" /\ st[j].r = r),
         \A q : Active(S, q) => Active(st, q),
         ubus_set_req_status(r, R, code, st)
  PROVE  ReqInv'
<1>1. R \in [Req -> Requests] /\ R[r] \in Requests
  BY DEF RequestsOK
<1>2. PICK x : x = [R[r] EXCEPT !.status = code]
  OBVIOUS
<1>3. /\ x.kind = R[r].kind /\ x.status = code /\ x.blocked = R[r].blocked
  BY <1>1, <1>2 DEF Requests
<1>4. PICK P : P = [R EXCEPT ![r] = x]
  OBVIOUS
<1>5. P = [R EXCEPT ![r].status = code] /\ P[r] = x
  BY <1>1, <1>2, <1>4
<1>6. req' = P /\ requests' = RemoveFirst(requests, r)
  BY <1>5 DEF ubus_set_req_status
<1>7. ListOK(requests', P, st)
  BY <1>1, <1>4, <1>6, ListUpdates
<1>8. StackOK(st, P) /\ RequestsOK(P)
  BY <1>5
<1>9. CASE req[r].blocked \/ req[r].kind = "sync"
  <2>1. stack' = st
    BY <1>9 DEF ubus_set_req_status, complete_cb
  <2> QED
    BY <1>6, <1>7, <1>8, <2>1 DEF ReqInv
<1>10. CASE ~req[r].blocked /\ req[r].kind # "sync"
  <2>1. PICK y : y = Frame("complete_cb", r, "user", 0)
    OBVIOUS
  <2>2. y \in Frames /\ y.f = "complete_cb" /\ y.r = r
    BY <2>1, BoundsAssumption DEF Frame, Frames, Functions, Places, Req
  <2>3. stack' = <<y>> \o st
    BY <1>10, <2>1 DEF ubus_set_req_status, complete_cb
  <2>4. FrameOK(y, P)
    BY <1>3, <1>5, <1>10, <2>2 DEF FrameOK, CallbackOK
  <2>5. \A j \in 1..Len(st) : ~Same(y, st[j])
    BY <2>2 DEF Same
  <2>6. StackOK(stack', P) /\ \A q : Active(st, q) => Active(stack', q)
    BY <1>8, <2>2, <2>3, <2>4, <2>5, PushKeeps
  <2>7. ListOK(requests', P, stack')
    BY <1>7, <2>6, ListStack
  <2> QED
    BY <1>6, <1>8, <2>6, <2>7 DEF ReqInv
<1> QED
  BY <1>9, <1>10

----------------------------------------------------------------------------
(* The requests started are the first ones.                                 *)
LEMMA StartedIs ==
  ASSUME RequestsOK(req)
  PROVE  Started \in Nat /\ {r \in Req : req[r].kind # "none"} = 1..Started
<1>1. PICK n \in 0..MaxReq : {r \in Req : req[r].kind # "none"} = 1..n
  BY DEF RequestsOK
<1>2. n \in Nat
  BY BoundsAssumption
<1>3. Cardinality(1..n) = n
  <2>1. CASE n = 0
    <3>1. 1..n = {}
      BY <2>1
    <3> QED
      BY <2>1, <3>1, FS_EmptySet
  <2>2. CASE n # 0
    <3>1. 1 \in Int /\ n \in Int /\ 1 <= n
      BY <1>2, <2>2
    <3>2. Cardinality(1..n) = n - 1 + 1
      BY <3>1, FS_Interval
    <3> QED
      BY <1>2, <3>2
  <2> QED
    BY <2>1, <2>2
<1> QED
  BY <1>1, <1>2, <1>3 DEF Started

(* A new request: nothing on the stack or in the list is about it.          *)
LEMMA FreshKeeps ==
  ASSUME RequestsOK(req), NEW S, StackOK(S, req), ListOK(requests, req, S),
         Started < MaxReq, NEW r, r = Started + 1, NEW x \in Requests,
         x.kind \in {"sync", "async", "ended"}, x.pend = 0, x.status = "none"
  PROVE  /\ r \in Req /\ r \in Nat
         /\ RequestsOK([req EXCEPT ![r] = x]) /\ StackOK(S, [req EXCEPT ![r] = x])
         /\ \A i \in 1..Len(S) : S[i].f \in Once => S[i].r # r
         /\ \A i \in 1..Len(requests) : requests[i] # r
<1>0. RequestsOK(req) /\ StackOK(S, req) /\ ListOK(requests, req, S)
  OBVIOUS
<1>1. PICK n \in Nat : n = Started /\ {q \in Req : req[q].kind # "none"} = 1..n /\ n < MaxReq
  BY <1>0, StartedIs
<1>2. r = n + 1 /\ r \in Req /\ r \in Nat /\ MaxReq \in Nat
  BY <1>1, BoundsAssumption DEF Req
<1>3. req[r].kind = "none"
  BY <1>1, <1>2
<1>4. PICK Q : Q = [req EXCEPT ![r] = x]
  OBVIOUS
<1>5. /\ req \in [Req -> Requests] /\ Q \in [Req -> Requests] /\ Q[r] = x
      /\ \A q \in Req : q # r => Q[q] = req[q]
  BY <1>0, <1>2, <1>4 DEF RequestsOK
<1>6. RequestsOK(Q)
  <2>1. /\ \A q \in Req : ~Q[q].blocked => Q[q].pend = 0 \/ Q[q].late
        /\ \A q \in Req : Q[q].kind = "ended" => Q[q].pend = 0 /\ Q[q].status = "none"
    BY <1>0, <1>5 DEF RequestsOK
  <2>2. ASSUME NEW q \in Req PROVE Q[q].kind # "none" <=> q \in 1..(n + 1)
    <3>1. CASE q = r
      BY <1>2, <1>5, <3>1
    <3>2. CASE q # r
      <4>1. Q[q].kind # "none" <=> q \in 1..n
        BY <1>1, <1>5, <3>2
      <4>2. q \in Nat
        BY <1>2 DEF Req
      <4> QED
        BY <1>2, <3>2, <4>1, <4>2
    <3> QED
      BY <3>1, <3>2
  <2>3. 1..(n + 1) \subseteq Req /\ n + 1 \in 0..MaxReq
    BY <1>1, <1>2 DEF Req
  <2>4. {q \in Req : Q[q].kind # "none"} = 1..(n + 1)
    BY <2>2, <2>3
  <2> QED
    BY <1>5, <2>1, <2>3, <2>4 DEF RequestsOK
<1>7. ASSUME NEW i \in 1..Len(S), S[i].f \in Once
      PROVE  S[i].r \in Req /\ S[i].r # r /\ Q[S[i].r] = req[S[i].r]
  <2>1. FrameOK(S[i], req)
    BY <1>0 DEF StackOK
  <2>2. S[i].r \in Req /\ req[S[i].r].kind # "none"
    BY <1>7, <2>1 DEF Once, FrameOK, CompleteOK, CallbackOK, PendOK
  <2> QED
    BY <1>3, <1>5, <2>2
<1>8. StackOK(S, Q)
  <2>1. /\ S \in Seq(Frames)
        /\ \A i, j \in 1..Len(S) : Same(S[i], S[j]) => i = j
        /\ \A i \in 1..Len(S) : S[i].f = "pend" /\ req[S[i].r].kind = "sync" =>
             \E j \in 1..Len(S) : i < j /\ S[j].f = "complete" /\ S[j].r = S[i].r
    BY <1>0 DEF StackOK
  <2>2. \A i \in 1..Len(S) : S[i].f = "pend" /\ Q[S[i].r].kind = "sync" =>
          \E j \in 1..Len(S) : i < j /\ S[j].f = "complete" /\ S[j].r = S[i].r
    BY <1>7, <2>1 DEF Once
  <2>3. ASSUME NEW i \in 1..Len(S) PROVE FrameOK(S[i], Q)
    <3>1. FrameOK(S[i], req)
      BY <1>0 DEF StackOK
    <3> QED
      BY <1>7, <3>1 DEF FrameOK, CompleteOK, CallbackOK, PendOK, Once
  <2> QED
    BY ONLY <2>1, <2>2, <2>3 DEF StackOK
<1>9. \A i \in 1..Len(requests) : requests[i] # r
  BY <1>0, <1>3 DEF ListOK
<1> QED
  BY <1>2, <1>4, <1>6, <1>7, <1>8, <1>9

(* The fields of a request that is sent, and of one that is over.           *)
LEMMA NewRequests ==
  /\ Ended \in Requests /\ Ended.kind = "ended" /\ Ended.pend = 0 /\ Ended.status = "none"
  /\ ~Ended.blocked
  /\ \A kind \in {"sync", "async"}, timed \in BOOLEAN :
       /\ NewReq(kind, timed) \in Requests /\ NewReq(kind, timed).kind = kind
       /\ NewReq(kind, timed).pend = 0 /\ NewReq(kind, timed).status = "none"
<1>1. PICK q \in Requests : q = NoReq /\ q.pend = 0 /\ q.status = "none" /\ q.blocked = FALSE
  <2>1. NoReq \in Requests
    BY DEF NoReq, Requests, Kinds, Codes
  <2>2. NoReq.pend = 0 /\ NoReq.status = "none" /\ NoReq.blocked = FALSE
    BY DEF NoReq
  <2> QED
    BY <2>1, <2>2
<1>2. PICK e : e = [q EXCEPT !.kind = "ended"]
  OBVIOUS
<1>3. /\ e \in Requests /\ e.kind = "ended" /\ e.pend = 0 /\ e.status = "none" /\ e.blocked = FALSE
      /\ e = Ended
  BY <1>1, <1>2 DEF Requests, Kinds, Ended
<1>4. ASSUME NEW kind \in {"sync", "async"}, NEW timed \in BOOLEAN
      PROVE  /\ NewReq(kind, timed) \in Requests /\ NewReq(kind, timed).kind = kind
             /\ NewReq(kind, timed).pend = 0 /\ NewReq(kind, timed).status = "none"
  <2>1. PICK i \in Seq(Nat) : i = <<Ubusd>>
    <3>1. <<0>> \in Seq(Nat)
      OBVIOUS
    <3> QED
      BY <3>1 DEF Ubusd
  <2>2. PICK x : x = [q EXCEPT !.kind = kind, !.timed = timed, !.ids = i]
    OBVIOUS
  <2>3. x \in Requests /\ x.kind = kind /\ x.pend = 0 /\ x.status = "none"
    BY <1>1, <2>1, <2>2 DEF Requests, Kinds
  <2>4. x = NewReq(kind, timed)
    BY <1>1, <2>1, <2>2 DEF NewReq
  <2> QED
    BY <2>3, <2>4
<1> QED
  BY <1>3, <1>4

(* A request is sent or cannot be sent.                                     *)
LEMMA SendKeeps ==
  ASSUME RequestsOK(req), NEW S, StackOK(S, req), ListOK(requests, req, S),
         Started < MaxReq, NEW r, r = Started + 1,
         NEW kind \in {"sync", "async"}, NEW timed \in BOOLEAN
  PROVE  /\ Send(r, NewReq(kind, timed)) /\ kind = "async" /\ stack' = S => ReqInv'
         /\ Send(r, NewReq(kind, timed)) /\ kind = "sync"
              /\ stack' = <<Frame("complete", r, "loop", 0)>> \o S => ReqInv'
         /\ SendFails(r) /\ stack' = S => ReqInv'
<1>0. RequestsOK(req) /\ StackOK(S, req) /\ ListOK(requests, req, S) /\ req \in [Req -> Requests]
  BY DEF RequestsOK
<1>1. ASSUME SendFails(r), stack' = S PROVE ReqInv'
  <2>1. PICK x : x = Ended
    OBVIOUS
  <2>2. /\ r \in Req /\ RequestsOK([req EXCEPT ![r] = x]) /\ StackOK(S, [req EXCEPT ![r] = x])
        /\ \A i \in 1..Len(requests) : requests[i] # r
    BY <2>1, NewRequests, FreshKeeps
  <2>3. ListOK(requests, [req EXCEPT ![r] = x], S)
    BY <1>0, <2>2, ListUpdates
  <2> QED
    BY <1>1, <2>1, <2>2, <2>3 DEF ReqInv, SendFails
<1>2. ASSUME Send(r, NewReq(kind, timed)) PROVE
        /\ kind = "async" /\ stack' = S => ReqInv'
        /\ kind = "sync" /\ stack' = <<Frame("complete", r, "loop", 0)>> \o S => ReqInv'
  <2>1. PICK x \in Requests : x = NewReq(kind, timed) /\ x.kind = kind /\ x.pend = 0 /\ x.status = "none"
    BY NewRequests
  <2>2. PICK P : P = [req EXCEPT ![r] = x]
    OBVIOUS
  <2>3. /\ r \in Req /\ r \in Nat /\ RequestsOK(P) /\ StackOK(S, P)
        /\ \A i \in 1..Len(S) : S[i].f \in Once => S[i].r # r
        /\ \A i \in 1..Len(requests) : requests[i] # r
    BY <2>1, <2>2, FreshKeeps
  <2>4. P[r] = x
    BY <1>0, <2>2, <2>3
  <2>5. req' = P /\ requests' = <<r>> \o requests
    BY <1>2, <2>1, <2>2 DEF Send
  <2>6. ASSUME kind = "sync" => Active(stack', r), \A q : Active(S, q) => Active(stack', q)
        PROVE  ListOK(requests', P, stack')
    <3>1. requests \in Seq(Req)
      BY <1>0 DEF ListOK
    <3>2. PICK n \in Nat : n = Len(requests)
      BY <3>1, LenProperties
    <3>3. PICK t : t = <<r>> \o requests
      OBVIOUS
    <3>4. /\ <<r>> \o requests \in Seq(Req) /\ Len(<<r>> \o requests) = Len(requests) + 1
          /\ (<<r>> \o requests)[1] = r
          /\ \A i \in 1..(Len(requests) + 1) : i # 1 =>
               i - 1 \in 1..Len(requests) /\ (<<r>> \o requests)[i] = requests[i - 1]
      BY <2>3, <3>1, PushIs
    <3>5. /\ t \in Seq(Req) /\ Len(t) = n + 1 /\ t[1] = r
          /\ \A i \in 1..(n + 1) : i # 1 => i - 1 \in 1..n /\ t[i] = requests[i - 1]
      BY <3>2, <3>3, <3>4
    <3>6. ListOK(requests, P, stack')
      BY <1>0, <2>2, <2>3, <2>6, ListUpdates
    <3>7. ASSUME NEW i \in 1..(n + 1), NEW j \in 1..(n + 1), t[i] = t[j] PROVE i = j
      <4>1. CASE i = 1 /\ j # 1
        BY <2>3, <3>2, <3>5, <3>7, <4>1
      <4>2. CASE i # 1 /\ j = 1
        BY <2>3, <3>2, <3>5, <3>7, <4>2
      <4>3. CASE i # 1 /\ j # 1
        <5>1. i - 1 = j - 1
          BY <3>2, <3>5, <3>6, <3>7, <4>3 DEF ListOK
        <5> QED
          BY <5>1
      <4> QED
        BY <4>1, <4>2, <4>3
    <3>8. ASSUME NEW i \in 1..(n + 1)
          PROVE  /\ P[t[i]].status = "none"
                 /\ P[t[i]].kind = "async" \/ (P[t[i]].kind = "sync" /\ Active(stack', t[i]))
      <4>1. CASE i = 1
        BY <2>1, <2>4, <2>6, <3>5, <4>1
      <4>2. CASE i # 1
        BY <3>2, <3>5, <3>6, <4>2 DEF ListOK
      <4> QED
        BY <4>1, <4>2
    <3>9. ListOK(t, P, stack')
      BY ONLY <3>5, <3>7, <3>8 DEF ListOK
    <3> QED
      BY <2>5, <3>3, <3>9
  <2>7. ASSUME kind = "async", stack' = S PROVE ReqInv'
    BY <2>3, <2>5, <2>6, <2>7 DEF ReqInv
  <2>8. ASSUME kind = "sync", stack' = <<Frame("complete", r, "loop", 0)>> \o S PROVE ReqInv'
    <3>1. PICK y : y = Frame("complete", r, "loop", 0)
      OBVIOUS
    <3>2. y \in Frames /\ y.f = "complete" /\ y.r = r /\ y.at = "loop"
      BY <2>3, <3>1 DEF Frame, Frames, Functions, Places
    <3>3. FrameOK(y, P)
      BY <2>1, <2>3, <2>4, <2>8, <3>2 DEF FrameOK, CompleteOK
    <3>4. \A j \in 1..Len(S) : ~Same(y, S[j])
      BY <2>3, <3>2 DEF Same
    <3>5. StackOK(stack', P) /\ Active(stack', r) /\ \A q : Active(S, q) => Active(stack', q)
      <4>1. stack' = <<y>> \o S
        BY <2>8, <3>1
      <4> QED
        BY <2>3, <3>2, <3>3, <3>4, <4>1, PushKeeps
    <3> QED
      BY <2>3, <2>5, <2>6, <3>5 DEF ReqInv
  <2> QED
    BY <2>7, <2>8
<1> QED
  BY <1>1, <1>2

----------------------------------------------------------------------------
(* The steps of the user's code.                                            *)
LEMMA CallReq ==
  ASSUME ReqInv, NEW kind \in {"sync", "async"}, NEW limit \in {0, 1}, Call(kind, limit)
  PROVE  ReqInv'
<1>1. PICK x : x = Frame(kind, 0, "write", limit)
  OBVIOUS
<1>2. x \in Frames /\ x.f = kind
  BY <1>1 DEF Frame, Frames, Functions, Places
<1>3. FrameOK(x, req)
  BY <1>2 DEF FrameOK
<1>4. x.f \notin Once
  BY <1>2 DEF Once
<1>5. \A j \in 1..Len(stack) : ~Same(x, stack[j])
  BY <1>4 DEF Same
<1>6. stack' = <<x>> \o stack /\ UNCHANGED <<req, requests>> /\ x.f # "pend" /\ StackOK(stack, req)
  BY <1>1, <1>2 DEF Call, ReqInv
<1>7. StackOK(stack', req) /\ \A q : Active(stack, q) => Active(stack', q)
  BY <1>2, <1>3, <1>5, <1>6, PushKeeps
<1> QED
  BY <1>6, <1>7, ListStack DEF ReqInv

(* A function that is about no request returns.                             *)
LEMMA PlainPop ==
  ASSUME ReqInv, stack # <<>>, Head(stack).f # "complete"
  PROVE  /\ StackOK(Tail(stack), req) /\ ListOK(requests, req, Tail(stack))
         /\ \A q : Active(stack, q) => Active(Tail(stack), q)
<1>0. StackOK(stack, req) /\ ListOK(requests, req, stack) /\ stack \in Seq(Frames)
  BY DEF ReqInv, StackOK
<1>1. stack[1].f # "complete"
  BY <1>0, PopIs
<1>2. StackOK(Tail(stack), req) /\ \A q : Active(stack, q) => Active(Tail(stack), q)
  BY <1>0, <1>1, PopKeeps
<1> QED
  BY <1>0, <1>2, ListStack

(* The request is written, or cannot be written.                            *)
LEMMA SentReq ==
  ASSUME ReqInv, Sent PROVE ReqInv'
<1>0. stack # <<>> /\ Head(stack).f \in {"sync", "async"} /\ Started < MaxReq
  BY DEF Sent, Top
<1>1. PICK S : S = Tail(stack)
  OBVIOUS
<1>2. RequestsOK(req) /\ StackOK(S, req) /\ ListOK(requests, req, S)
  BY <1>0, <1>1, PlainPop DEF ReqInv
<1>3. PICK kind \in {"sync", "async"} : kind = Head(stack).f
  BY <1>0
<1>4. PICK timed \in BOOLEAN : timed = (Head(stack).n # 0)
  OBVIOUS
<1>5. PICK r : r = Started + 1
  OBVIOUS
<1>6. \/ Send(r, NewReq(kind, timed)) /\ kind = "async" /\ stack' = S
      \/ Send(r, NewReq(kind, timed)) /\ kind = "sync"
           /\ stack' = <<Frame("complete", r, "loop", 0)>> \o S
      \/ SendFails(r) /\ stack' = S
  BY <1>1, <1>3, <1>4, <1>5 DEF Sent
<1> QED
  BY <1>0, <1>2, <1>5, <1>6, SendKeeps

(* A request is over: of what is on the stack only __ubus_process_req_data   *)
(* may still be about it, and only when it has not begun.                   *)
LEMMA EndKeeps ==
  ASSUME NEW R, RequestsOK(R), NEW S, StackOK(S, R), NEW r \in Req, R[r].kind # "none",
         \A i \in 1..Len(S) : S[i].r = r =>
           S[i].f \notin {"complete", "complete_cb"} /\ (S[i].f = "pend" => S[i].at = "start")
  PROVE  RequestsOK([R EXCEPT ![r] = Ended]) /\ StackOK(S, [R EXCEPT ![r] = Ended])
<1>1. PICK x \in Requests : x = Ended /\ x.kind = "ended" /\ x.pend = 0 /\ x.status = "none"
  BY NewRequests
<1>2. PICK P : P = [R EXCEPT ![r] = x]
  OBVIOUS
<1>3. P[r] = x
  BY <1>2 DEF RequestsOK
<1>4. ASSUME NEW i \in 1..Len(S), S[i].r = r PROVE FrameOK(S[i], P)
  <2>1. FrameOK(S[i], R)
    BY DEF StackOK
  <2> QED
    BY <1>1, <1>3, <1>4, <2>1 DEF FrameOK, PendOK
<1>5. RequestsOK(P) /\ StackOK(S, P)
  BY <1>1, <1>2, <1>4, ChangeKeeps
<1> QED
  BY <1>1, <1>2, <1>5

(* The user gives a request up.                                             *)
LEMMA AbortReq ==
  ASSUME ReqInv, NEW r \in Req, ubus_abort_request(r) PROVE ReqInv'
<1>0. RequestsOK(req) /\ StackOK(stack, req) /\ ListOK(requests, req, stack) /\ req \in [Req -> Requests]
  BY DEF ReqInv, RequestsOK
<1>1. req[r].kind = "async" /\ Listed(r) /\ ~Traversed(r) /\ UNCHANGED stack
      /\ requests' = RemoveFirst(requests, r) /\ req' = [req EXCEPT ![r] = Ended]
  BY DEF ubus_abort_request
<1>2. req[r].status = "none"
  <2>1. PICK i \in 1..Len(requests) : requests[i] = r
    BY <1>0, <1>1, LenProperties DEF Listed, Range, ListOK
  <2> QED
    BY <1>0, <2>1 DEF ListOK
<1>3. ASSUME NEW i \in 1..Len(stack), stack[i].r = r
      PROVE  stack[i].f \notin {"complete", "complete_cb"} /\ (stack[i].f = "pend" => stack[i].at = "start")
  <2>1. FrameOK(stack[i], req)
    BY <1>0 DEF StackOK
  <2> QED
    BY <1>1, <1>2, <1>3, <2>1 DEF FrameOK, CompleteOK, CallbackOK, PendOK, Traversed
<1>4. RequestsOK(req') /\ StackOK(stack', req')
  BY <1>0, <1>1, <1>3, EndKeeps
<1>5. ListOK(requests', req', stack')
  BY <1>0, <1>1, ListUpdates
<1> QED
  BY <1>4, <1>5 DEF ReqInv

(* A callback returns; complete_cb ends its request.                        *)
LEMMA ReturnReq ==
  ASSUME ReqInv, Return PROVE ReqInv'
<1>0. RequestsOK(req) /\ StackOK(stack, req) /\ ListOK(requests, req, stack) /\ req \in [Req -> Requests]
  BY DEF ReqInv, RequestsOK
<1>1. stack # <<>> /\ Head(stack).at = "user" /\ stack' = Tail(stack) /\ UNCHANGED requests
  BY DEF Return, User
<1>2. Head(stack) = stack[1] /\ stack[1] \in Frames /\ FrameOK(stack[1], req)
  BY <1>0, <1>1, PopIs, PopKeeps DEF StackOK
<1>3. stack[1].f # "complete"
  BY <1>1, <1>2 DEF FrameOK, CompleteOK
<1>4. StackOK(stack', req) /\ \A q : Active(stack, q) => Active(stack', q)
  BY <1>0, <1>1, <1>3, PopKeeps
<1>5. CASE stack[1].f # "complete_cb"
  <2>1. req' = req
    BY <1>2, <1>5 DEF Return
  <2> QED
    BY <1>0, <1>1, <1>4, <2>1, ListStack DEF ReqInv
<1>6. CASE stack[1].f = "complete_cb"
  <2>1. PICK r : r = stack[1].r
    OBVIOUS
  <2>2. r \in Req /\ req[r].kind = "async" /\ req[r].status # "none" /\ ~req[r].blocked
    BY <1>2, <1>6, <2>1 DEF FrameOK, CallbackOK
  <2>3. req' = [req EXCEPT ![r] = Ended]
    BY <1>2, <1>6, <2>1 DEF Return
  <2>4. ASSUME NEW i \in 1..Len(stack'), stack'[i].r = r
        PROVE  stack'[i].f \notin {"complete", "complete_cb"} /\ stack'[i].f # "pend"
    <3>1. FrameOK(stack'[i], req)
      BY <1>4 DEF StackOK
    <3>2. ~Same(stack[1], stack'[i])
      BY <1>0, <1>1, PopKeeps
    <3> QED
      BY <1>6, <2>1, <2>2, <2>4, <3>1, <3>2 DEF FrameOK, CompleteOK, PendOK, Same, Once
  <2>5. RequestsOK(req') /\ StackOK(stack', req')
    BY <1>0, <1>4, <2>2, <2>3, <2>4, EndKeeps
  <2>6. \A i \in 1..Len(requests) : requests[i] # r
    BY <1>0, <2>2 DEF ListOK
  <2>7. ListOK(requests', req', stack')
    BY <1>0, <1>1, <1>4, <2>2, <2>3, <2>6, ListUpdates
  <2> QED
    BY <2>5, <2>7 DEF ReqInv
<1> QED
  BY <1>5, <1>6

----------------------------------------------------------------------------
(* A status: the peers that still have to answer.                           *)
LEMMA PeersLeft ==
  ASSUME NEW ids \in Seq(Nat), NEW from, NEW subs \in Seq(Nat)
  PROVE  RemoveFirst(ids, from) \o SubSeq(subs, 1, Min({Len(subs), MaxPeers})) \in Seq(Nat)
<1>1. Len(subs) \in Nat /\ MaxPeers \in Nat
  BY LenProperties, BoundsAssumption
<1>2. PICK S \in SUBSET Nat : S = {Len(subs), MaxPeers} /\ S # {} /\ Len(subs) \in S
  BY <1>1
<1>3. Min(S) \in S /\ Min(S) <= Len(subs)
  BY <1>2, LeastNumber
<1>4. PICK k \in Nat : k = Min(S) /\ k <= Len(subs)
  BY <1>2, <1>3
<1>5. SubSeq(subs, 1, k) \in Seq(Nat)
  BY <1>1, <1>4, SubSeqProperties
<1>6. RemoveFirst(ids, from) \in Seq(Nat)
  BY RemoveFirstIs
<1>7. RemoveFirst(ids, from) \o SubSeq(subs, 1, k) \in Seq(Nat)
  BY <1>5, <1>6, ConcatProperties
<1> QED
  BY <1>2, <1>4, <1>7

(* A status is read.                                                        *)
LEMMA StatusReq ==
  ASSUME ReqInv, NEW m, m.r \in Req, req[m.r].status = "none", m.subs \in Seq(Nat),
         req[m.r].kind \in {"sync", "async"}, NEW st, StackOK(st, req),
         \A q : Active(stack, q) => Active(st, q), Status(m, st)
  PROVE  ReqInv'
<1>0. RequestsOK(req) /\ StackOK(stack, req) /\ ListOK(requests, req, stack) /\ req \in [Req -> Requests]
  BY DEF ReqInv, RequestsOK
<1>1. PICK r \in Req : r = m.r /\ req[r] \in Requests
  BY <1>0
<1>2. PICK i \in Seq(Nat) : i = RemoveFirst(req[r].ids, m.from)
                                  \o SubSeq(m.subs, 1, Min({Len(m.subs), MaxPeers}))
  <2>1. req[r].ids \in Seq(Nat)
    BY <1>1 DEF Requests
  <2> QED
    BY <2>1, PeersLeft
<1>3. PICK x : x = [req[r] EXCEPT !.ids = i]
  OBVIOUS
<1>4. /\ x \in Requests /\ x.kind = req[r].kind /\ x.status = req[r].status
      /\ x.blocked = req[r].blocked /\ x.pend = req[r].pend /\ x.late = req[r].late
  BY <1>1, <1>2, <1>3 DEF Requests
<1>5. PICK R : R = [req EXCEPT ![r] = x]
  OBVIOUS
<1>6. R[r] = x /\ R = [req EXCEPT ![r].ids = RemoveFirst(@, m.from)
                         \o SubSeq(m.subs, 1, Min({Len(m.subs), MaxPeers}))]
  BY <1>0, <1>1, <1>2, <1>3, <1>5
<1>7. ASSUME NEW k \in 1..Len(st), st[k].r = r PROVE FrameOK(st[k], R)
  <2>1. FrameOK(st[k], req)
    BY DEF StackOK
  <2> QED
    BY <1>4, <1>6, <1>7, <2>1 DEF FrameOK, CompleteOK, CallbackOK, PendOK
<1>8. RequestsOK(R) /\ StackOK(st, R)
  <2>1. ~x.blocked => x.pend = 0 \/ x.late
    BY <1>0, <1>1, <1>4 DEF RequestsOK
  <2>2. x.kind # "none" /\ x.kind # "ended" /\ req[r].kind # "none"
    BY <1>1, <1>4
  <2> QED
    BY <1>0, <1>4, <1>5, <1>7, <2>1, <2>2, ChangeKeeps
<1>9. ListOK(requests, R, st) /\ ListOK(requests, R, stack)
  BY <1>0, <1>4, <1>5, ListUpdates
<1>10. CASE R[r].ids = <<>>
  <2>1. ubus_set_req_status(r, R, "OK", st)
    BY <1>1, <1>6, <1>10 DEF Status
  <2>2. \A j \in 1..Len(st) : ~(st[j].f = "complete_cb" /\ st[j].r = r)
    BY <1>1 DEF StackOK, FrameOK, CallbackOK
  <2>3. R[r].kind \in {"sync", "async"} /\ "OK" \in Codes \ {"none"}
    BY <1>1, <1>4, <1>6 DEF Codes
  <2>4. RequestsOK([R EXCEPT ![r].status = "OK"]) /\ StackOK(st, [R EXCEPT ![r].status = "OK"])
    BY <1>8, <2>3, StatusKeeps
  <2> QED
    BY <1>4, <1>6, <1>8, <1>9, <2>1, <2>2, <2>3, <2>4, SetStatusKeeps
<1>11. CASE R[r].ids # <<>>
  <2>1. req' = R /\ stack' = st /\ requests' = requests
    BY <1>1, <1>6, <1>11 DEF Status
  <2> QED
    BY <1>8, <1>9, <2>1 DEF ReqInv
<1> QED
  BY <1>10, <1>11

(* DATA is read: its callback is called, or it is put off.                  *)
LEMMA DataReq ==
  ASSUME ReqInv, NEW m, m.r \in Req, req[m.r].status = "none",
         req[m.r].kind \in {"sync", "async"}, NEW st, StackOK(st, req),
         req[m.r].kind = "sync" => Active(stack, m.r),
         \A q : Traversed(q) <=> \E i \in 1..Len(st) : st[i].f = "pend" /\ st[i].r = q /\ st[i].at = "next",
         \A q : Active(stack, q) => Active(st, q), Data(m, st)
  PROVE  ReqInv'
<1>0. RequestsOK(req) /\ StackOK(stack, req) /\ ListOK(requests, req, stack) /\ req \in [Req -> Requests]
  BY DEF ReqInv, RequestsOK
<1>1. PICK r \in Req : r = m.r /\ req[r] \in Requests
  BY <1>0
<1>2. UNCHANGED requests
  BY DEF Data
<1>3. CASE req[r].blocked
  <2>1. PICK l \in BOOLEAN : l <=> (req[r].late \/ Traversed(r))
    OBVIOUS
  <2>2. PICK c \in Nat, n \in Nat : c = req[r].pend /\ n = c + 1
    BY <1>1 DEF Requests
  <2>3. PICK x : x = [req[r] EXCEPT !.pend = n, !.late = l]
    OBVIOUS
  <2>4. /\ x \in Requests /\ x.kind = req[r].kind /\ x.status = req[r].status
        /\ x.blocked = req[r].blocked /\ x.pend = n /\ x.late = l
    BY <1>1, <2>1, <2>3 DEF Requests
  <2>5. PICK R : R = [req EXCEPT ![r] = x]
    OBVIOUS
  <2>6. R[r] = x /\ req' = R /\ stack' = st
    <3>1. req' = [req EXCEPT ![r].pend = @ + 1, ![r].late = @ \/ Traversed(r)] /\ stack' = st
      BY <1>1, <1>3 DEF Data
    <3>2. R = [req EXCEPT ![r].pend = @ + 1, ![r].late = @ \/ Traversed(r)]
      BY <1>0, <1>1, <2>1, <2>2, <2>5, <2>3
    <3> QED
      BY <1>0, <2>5, <3>1, <3>2
  <2>7. ASSUME NEW k \in 1..Len(st), st[k].r = r PROVE FrameOK(st[k], R)
    <3>1. FrameOK(st[k], req) /\ st[k] \in Frames
      BY ElementOfSeq DEF StackOK
    <3>2. st[k].n \in Nat
      BY <3>1 DEF Frames
    <3>3. st[k].f = "pend" => PendOK(st[k], R)
      <4>1. CASE st[k].f = "pend" /\ st[k].at = "next"
        <5>1. l = TRUE
          BY <2>1, <2>7, <4>1
        <5>2. req[r].pend >= st[k].n
          BY <1>1, <2>7, <3>1, <4>1 DEF FrameOK, PendOK
        <5>3. x.pend >= st[k].n
          BY <2>2, <2>4, <3>2, <5>2
        <5> QED
          BY <1>1, <1>3, <2>4, <2>6, <2>7, <4>1, <5>1, <5>3 DEF PendOK
      <4>2. CASE st[k].f = "pend" /\ st[k].at # "next"
        BY <1>1, <1>3, <2>4, <2>6, <2>7, <3>1, <4>2 DEF FrameOK, PendOK
      <4> QED
        BY <4>1, <4>2
    <3> QED
      BY <1>3, <2>4, <2>6, <2>7, <3>1, <3>3 DEF FrameOK, CompleteOK, CallbackOK
  <2>8. RequestsOK(R) /\ StackOK(st, R)
    <3>1. x.blocked /\ x.kind # "none" /\ x.kind # "ended" /\ req[r].kind # "none"
      BY <1>1, <1>3, <2>4
    <3> QED
      BY <1>0, <2>4, <2>5, <2>7, <3>1, ChangeKeeps
  <2>9. ListOK(requests, R, st)
    BY <1>0, <2>4, <2>5, ListUpdates
  <2> QED
    BY <1>2, <2>6, <2>8, <2>9 DEF ReqInv
<1>4. CASE ~req[r].blocked
  <2>1. PICK x : x = [req[r] EXCEPT !.blocked = TRUE]
    OBVIOUS
  <2>2. /\ x \in Requests /\ x.kind = req[r].kind /\ x.status = req[r].status
        /\ x.blocked /\ x.pend = req[r].pend /\ x.late = req[r].late
    BY <1>1, <2>1 DEF Requests
  <2>3. PICK R : R = [req EXCEPT ![r] = x]
    OBVIOUS
  <2>4. R[r] = x /\ req' = R
    BY <1>0, <1>1, <1>4, <2>1, <2>3 DEF Data
  <2>5. ASSUME NEW k \in 1..Len(st), st[k].r = r
        PROVE  FrameOK(st[k], R) /\ st[k].f # "pend"
    <3>1. FrameOK(st[k], req)
      BY DEF StackOK
    <3> QED
      BY <1>1, <1>4, <2>2, <2>4, <2>5, <3>1 DEF FrameOK, CompleteOK, CallbackOK, PendOK
  <2>6. RequestsOK(R) /\ StackOK(st, R)
    <3>1. x.blocked /\ x.kind # "none" /\ x.kind # "ended" /\ req[r].kind # "none"
      BY <1>1, <2>2
    <3> QED
      BY <1>0, <2>2, <2>3, <2>5, <3>1, ChangeKeeps
  <2>7. PICK p : p = Frame("pend", r, "start", 0)
    OBVIOUS
  <2>8. PICK d : d = Frame("data_cb", r, "user", 0)
    OBVIOUS
  <2>9. /\ p \in Frames /\ p.f = "pend" /\ p.r = r /\ p.at = "start"
        /\ d \in Frames /\ d.f = "data_cb"
    BY <1>1, <2>7, <2>8, BoundsAssumption DEF Frame, Frames, Functions, Places, Req
  <2>10. FrameOK(p, R) /\ FrameOK(d, R)
    BY <1>1, <2>2, <2>4, <2>9 DEF FrameOK, PendOK
  <2>11. PICK t : t = <<p>> \o st
    OBVIOUS
  <2>12. StackOK(t, R) /\ \A q : Active(st, q) => Active(t, q)
    <3>1. \A j \in 1..Len(st) : ~Same(p, st[j])
      BY <2>5, <2>9 DEF Same
    <3>2. p.f = "pend" /\ R[p.r].kind = "sync" => Active(st, p.r)
      BY <1>1, <2>2, <2>4, <2>9
    <3> QED
      BY <2>6, <2>9, <2>10, <2>11, <3>1, <3>2, PushKeeps
  <2>13. StackOK(<<d>> \o t, R) /\ \A q : Active(t, q) => Active(<<d>> \o t, q)
    <3>1. \A j \in 1..Len(t) : ~Same(d, t[j])
      BY <2>9 DEF Same, Once
    <3> QED
      BY <2>9, <2>10, <2>12, <3>1, PushKeeps
  <2>14. stack' = <<d>> \o t
    <3>1. stack' = <<d, p>> \o st
      BY <1>1, <1>4, <2>7, <2>8 DEF Data
    <3>2. st \in Seq(Frames)
      BY DEF StackOK
    <3> QED
      BY <2>9, <2>11, <3>1, <3>2, TwoFrames
  <2>15. ListOK(requests, R, stack')
    BY <1>0, <2>2, <2>3, <2>12, <2>13, <2>14, ListUpdates
  <2> QED
    BY <1>2, <2>4, <2>6, <2>13, <2>14, <2>15 DEF ReqInv
<1> QED
  BY <1>3, <1>4

----------------------------------------------------------------------------
(* Steps that change nothing but the stack.                                 *)
LEMMA OnlyStack ==
  ASSUME ReqInv, UNCHANGED <<req, requests>>, StackOK(stack', req),
         \A q : Active(stack, q) => Active(stack', q)
  PROVE  ReqInv'
  BY ListStack DEF ReqInv

(* A function that is about no request is called or returns.                *)
LEMMA PlainPush ==
  ASSUME NEW S, NEW R, StackOK(S, R), NEW f \in {"handle", "drain", "handler"}, NEW r \in Nat,
         NEW at \in {"loop", "user"}, f # "handler" => at = "loop"
  PROVE  /\ StackOK(<<Frame(f, r, at, 0)>> \o S, R)
         /\ \A q : Active(S, q) => Active(<<Frame(f, r, at, 0)>> \o S, q)
<1>1. PICK x : x = Frame(f, r, at, 0)
  OBVIOUS
<1>2. x \in Frames /\ x.f = f /\ x.at = at
  BY <1>1 DEF Frame, Frames, Functions, Places
<1>3. FrameOK(x, R)
  BY <1>2 DEF FrameOK
<1>4. x.f \notin Once
  BY <1>2 DEF Once
<1>5. \A j \in 1..Len(S) : ~Same(x, S[j])
  BY <1>4 DEF Same
<1>6. x.f # "pend"
  BY <1>2
<1> QED
  BY <1>1, <1>2, <1>3, <1>5, <1>6, PushKeeps

(* ubus_handle_data goes on.                                                *)
LEMMA HandleGoto ==
  ASSUME ReqInv, stack # <<>>, Head(stack).f = "handle", NEW a \in {"check", "exit", "loop"}
  PROVE  /\ StackOK(Goto(a), req)
         /\ \A q : Active(stack, q) => Active(Goto(a), q)
         /\ \A q : Traversed(q) <=> \E i \in 1..Len(Goto(a)) :
                     Goto(a)[i].f = "pend" /\ Goto(a)[i].r = q /\ Goto(a)[i].at = "next"
<1>1. StackOK(stack, req) /\ stack \in Seq(Frames)
  BY DEF ReqInv, StackOK
<1>2. Head(stack) = stack[1] /\ stack[1] \in Frames
  BY <1>1, PopIs
<1>3. PICK x : x = [stack[1] EXCEPT !.at = a]
  OBVIOUS
<1>4. x \in Frames /\ x.f = "handle" /\ x.at = a
  BY <1>2, <1>3 DEF Frames, Places
<1>5. FrameOK(x, req)
  BY <1>4 DEF FrameOK
<1>6. a \in Places /\ stack[1].f = "handle"
  BY <1>2 DEF Places
<1>7. /\ StackOK(<<[Head(stack) EXCEPT !.at = a]>> \o Tail(stack), req)
      /\ \A q : Active(stack, q) => Active(<<[Head(stack) EXCEPT !.at = a]>> \o Tail(stack), q)
  BY <1>1, <1>3, <1>5, <1>6, GotoKeeps
<1>8. PICK t \in Seq(Frames) : t = Tail(stack) /\ stack = <<stack[1]>> \o t
  BY <1>1, PopIs
<1>9. PICK n \in Nat : n = Len(t)
  BY LenProperties
<1>10. /\ Len(stack) = n + 1
       /\ \A i \in 1..(n + 1) : i # 1 => i - 1 \in 1..n /\ stack[i] = t[i - 1]
  BY <1>2, <1>8, <1>9, PushIs
<1>11. PICK g : g = Goto(a)
  OBVIOUS
<1>12. g = <<x>> \o t
  BY <1>2, <1>3, <1>8, <1>11 DEF Goto
<1>13. /\ Len(g) = n + 1 /\ g[1] = x
       /\ \A i \in 1..(n + 1) : i # 1 => i - 1 \in 1..n /\ g[i] = t[i - 1]
  BY <1>4, <1>9, <1>12, PushIs
<1>14. ASSUME NEW i \in 1..(n + 1) PROVE g[i] = stack[i] \/ (g[i].f # "pend" /\ stack[i].f # "pend")
  BY <1>4, <1>6, <1>10, <1>13
<1>15. \A q : Traversed(q) <=> \E i \in 1..Len(g) : g[i].f = "pend" /\ g[i].r = q /\ g[i].at = "next"
  BY <1>10, <1>13, <1>14 DEF Traversed
<1>16. StackOK(g, req) /\ \A q : Active(stack, q) => Active(g, q)
  BY <1>7, <1>11 DEF Goto
<1> QED
  BY <1>11, <1>15, <1>16

(* A method handler answers.                                                *)
LEMMA AnswerReq ==
  ASSUME ReqInv, Answer \/ Answered PROVE ReqInv'
<1>0. StackOK(stack, req) /\ stack \in Seq(Frames) /\ UNCHANGED <<req, requests>>
      /\ stack # <<>> /\ Head(stack).f = "handler"
  BY DEF ReqInv, StackOK, Answer, Answered, Top
<1>1. CASE Answer
  <2>1. Head(stack) = stack[1] /\ stack[1] \in Frames /\ stack[1].f = "handler"
    BY <1>0, PopIs
  <2>2. PICK x : x = [stack[1] EXCEPT !.at = "write"]
    OBVIOUS
  <2>3. x \in Frames /\ x.f = "handler"
    BY <2>1, <2>2 DEF Frames, Places
  <2>4. FrameOK(x, req) /\ "write" \in Places
    BY <2>3 DEF FrameOK, Places
  <2>5. stack' = <<[Head(stack) EXCEPT !.at = "write"]>> \o Tail(stack)
    BY <1>1 DEF Answer, Goto
  <2>6. StackOK(stack', req) /\ \A q : Active(stack, q) => Active(stack', q)
    BY <1>0, <2>1, <2>2, <2>4, <2>5, GotoKeeps
  <2> QED
    BY <1>0, <2>6, OnlyStack
<1>2. CASE Answered
  <2>1. stack' = Tail(stack)
    BY <1>2 DEF Answered
  <2> QED
    BY <1>0, <2>1, PlainPop, OnlyStack
<1> QED
  BY <1>1, <1>2

(* An answer that is read finds a request that waits for one.               *)
LEMMA ReadableIs ==
  ASSUME ReqInv, objs \in Nat, NEW m \in Readable
  PROVE  /\ m.r \in Nat /\ m.subs \in Seq(Nat)
         /\ m.type # "OBJ" =>
              /\ m.r \in Req /\ req[m.r].status = "none" /\ req[m.r].kind \in {"sync", "async"}
              /\ req[m.r].kind = "sync" => Active(stack, m.r)
         /\ m.type = "OBJ" => m.r = objs + 1
<1>0. ListOK(requests, req, stack)
  BY DEF ReqInv
<1>1. m \in Found \/ m = Msg("OBJ", objs + 1, Ubusd, <<>>)
  BY DEF Readable
<1>2. CASE m = Msg("OBJ", objs + 1, Ubusd, <<>>)
  <2>1. m.type = "OBJ" /\ m.r = objs + 1 /\ m.subs = <<>>
    BY <1>2 DEF Msg
  <2>2. <<>> \in Seq(Nat)
    OBVIOUS
  <2> QED
    BY <2>1, <2>2
<1>3. CASE m \in Found
  <2>1. PICK r \in Range(requests), p \in 0..NumPeers : m \in AnswersFor(r, p)
    BY <1>3 DEF Found
  <2>2. PICK i \in 1..Len(requests) : requests[i] = r
    BY <1>0, <2>1, LenProperties DEF Range, ListOK
  <2>3. r \in Req
    BY <1>0, <2>2, ElementOfSeq DEF ListOK
  <2>4. /\ req[r].status = "none" /\ req[r].kind \in {"sync", "async"}
        /\ req[r].kind = "sync" => Active(stack, r)
    BY <1>0, <2>2 DEF ListOK
  <2>5. m.r = r /\ m.type # "OBJ" /\ m.subs \in Seq(Nat)
    <3>1. CASE m = Msg("DATA", r, p, <<>>)
      <4>1. <<>> \in Seq(Nat)
        OBVIOUS
      <4> QED
        BY <3>1, <4>1 DEF Msg
    <3>2. CASE m # Msg("DATA", r, p, <<>>)
      <4>1. PICK k \in (IF p = Ubusd THEN 0..NumPeers ELSE {0}) :
              m = Msg("STATUS", r, p, [j \in 1..k |-> j])
        BY <2>1, <3>2 DEF AnswersFor
      <4>2. k \in Nat
        BY <4>1, BoundsAssumption
      <4>3. [j \in 1..k |-> j] \in Seq(Nat)
        BY <4>2
      <4> QED
        BY <4>1, <4>3 DEF Msg
    <3> QED
      BY <3>1, <3>2
  <2>6. r \in Nat
    BY <2>3, BoundsAssumption DEF Req
  <2> QED
    BY <2>3, <2>4, <2>5, <2>6
<1> QED
  BY <1>1, <1>2, <1>3

(* A message is read: NextMsg.                                              *)
LEMMA NextMsgReq ==
  ASSUME ReqInv, objs \in Nat, stack # <<>>, Head(stack).f = "handle", NextMsg
  PROVE  ReqInv'
<1>1. PICK m \in Readable : ubus_process_msg(m, Goto("check"))
  BY DEF NextMsg
<1>2. PICK st : st = Goto("check")
  OBVIOUS
<1>3. /\ StackOK(st, req)
      /\ \A q : Active(stack, q) => Active(st, q)
      /\ \A q : Traversed(q) <=> \E i \in 1..Len(st) :
                  st[i].f = "pend" /\ st[i].r = q /\ st[i].at = "next"
  BY <1>2, HandleGoto
<1>4. CASE m.type = "OBJ"
  <2>1. UNCHANGED <<req, requests>> /\ ObjMsg(m, st) /\ m.r \in Nat
    BY <1>1, <1>2, <1>4, ReadableIs DEF ubus_process_msg
  <2>2. StackOK(stack', req) /\ \A q : Active(stack, q) => Active(stack', q)
    <3>1. CASE stack' = st
      BY <1>3, <3>1
    <3>2. CASE stack' = <<Frame("handler", m.r, "user", 0)>> \o st
      BY <1>3, <2>1, <3>2, PlainPush
    <3> QED
      BY <2>1, <3>1, <3>2 DEF ObjMsg
  <2> QED
    BY <2>1, <2>2, OnlyStack
<1>5. CASE m.type # "OBJ"
  <2>1. Status(m, st) \/ Data(m, st)
    BY <1>1, <1>2, <1>5 DEF ubus_process_msg
  <2>2. /\ m.subs \in Seq(Nat) /\ m.r \in Req /\ req[m.r].status = "none"
        /\ req[m.r].kind \in {"sync", "async"} /\ (req[m.r].kind = "sync" => Active(stack, m.r))
    BY <1>5, ReadableIs
  <2>3. CASE Status(m, st)
    BY <1>3, <2>2, <2>3, StatusReq
  <2>4. CASE Data(m, st)
    BY <1>3, <2>2, <2>4, DataReq
  <2> QED
    BY <2>1, <2>3, <2>4
<1> QED
  BY <1>4, <1>5

----------------------------------------------------------------------------
(* ubus_handle_data and ubus_process_pending_msg.                           *)
LEMMA HandleReq ==
  ASSUME ReqInv, Mid, objs \in Nat, HandleLoop \/ HandleRecv \/ HandleCheck \/ HandleExit
  PROVE  ReqInv'
<1>0. StackOK(stack, req)
  BY DEF ReqInv
<1>1. stack # <<>> /\ Head(stack).f = "handle"
  BY DEF HandleLoop, HandleRecv, HandleCheck, HandleExit, Top, Mid
<1>2. Drain = Frame("drain", 0, "loop", 0)
  BY DEF Drain
<1>3. ASSUME stack' = <<Drain>> \o stack
      PROVE  StackOK(stack', req) /\ \A q : Active(stack, q) => Active(stack', q)
  BY <1>0, <1>2, <1>3, PlainPush
<1>4. ASSUME NEW a \in {"check", "exit", "loop"}, stack' = Goto(a)
      PROVE  StackOK(stack', req) /\ \A q : Active(stack, q) => Active(stack', q)
  BY <1>1, <1>4, HandleGoto
<1>5. CASE HandleLoop
  <2>1. CASE MustDrain
    <3>1. stack' = <<Drain>> \o stack /\ UNCHANGED <<req, requests>>
      BY <1>5, <2>1 DEF HandleLoop
    <3> QED
      BY <1>3, <3>1, OnlyStack
  <2>2. CASE NothingToRead
    <3>1. stack' = Goto("exit") /\ UNCHANGED <<req, requests>>
      BY <2>2 DEF NothingToRead
    <3> QED
      BY <1>4, <3>1, OnlyStack
  <2>3. CASE MsgBegins
    BY <2>3 DEF MsgBegins, ReqInv
  <2> QED
    BY <1>5, <2>1, <2>2, <2>3 DEF HandleLoop
<1>6. CASE HandleRecv
  <2>1. CASE NextMsg
    BY <1>1, <2>1, NextMsgReq
  <2>2. CASE LateMsg \/ CutOff
    <3>1. UNCHANGED <<req, requests>> /\ (stack' = Goto("exit") \/ stack' = Goto("check"))
      BY <2>2 DEF LateMsg, CutOff
    <3> QED
      BY <1>4, <3>1, OnlyStack
  <2> QED
    BY <1>6, <2>1, <2>2 DEF HandleRecv
<1>7. CASE HandleCheck
  <2>1. UNCHANGED <<req, requests>> /\ (stack' = Goto("exit") \/ stack' = Goto("loop"))
    BY <1>7 DEF HandleCheck
  <2> QED
    BY <1>4, <2>1, OnlyStack
<1>8. CASE HandleExit
  <2>1. UNCHANGED <<req, requests>> /\ (stack' = <<Drain>> \o stack \/ stack' = Tail(stack))
    BY <1>8 DEF HandleExit
  <2>2. CASE stack' = Tail(stack)
    <3>1. stack[1].f # "complete"
      BY <1>0, <1>1, PopIs DEF StackOK
    <3>2. StackOK(stack', req) /\ \A q : Active(stack, q) => Active(stack', q)
      BY <1>0, <1>1, <2>2, <3>1, PopKeeps
    <3> QED
      BY <2>1, <3>2, OnlyStack
  <2> QED
    BY <1>3, <2>1, <2>2, OnlyStack
<1> QED
  BY <1>5, <1>6, <1>7, <1>8

(* Messages put off are handled, or there are none left.                    *)
LEMMA DrainReq ==
  ASSUME ReqInv, pending \in Seq(Nat), ubus_process_pending_msg
  PROVE  ReqInv'
<1>0. StackOK(stack, req)
  BY DEF ReqInv
<1>1. stack # <<>> /\ Head(stack).f = "drain" /\ UNCHANGED <<req, requests>>
  BY DEF ubus_process_pending_msg, Top
<1>2. CASE MustDrain
  <2>1. stack' = <<Frame("handler", Head(pending), "user", 0)>> \o stack
    BY <1>2 DEF ubus_process_pending_msg
  <2>2. Head(pending) \in Nat
    BY <1>2, PopIs DEF MustDrain
  <2> QED
    BY <1>0, <1>1, <2>1, <2>2, PlainPush, OnlyStack
<1>3. CASE ~MustDrain
  <2>1. stack' = Tail(stack)
    BY <1>3 DEF ubus_process_pending_msg
  <2>2. stack[1].f # "complete"
    BY <1>0, <1>1, PopIs DEF StackOK
  <2>3. StackOK(stack', req) /\ \A q : Active(stack, q) => Active(stack', q)
    BY <1>0, <1>1, <2>1, <2>2, PopKeeps
  <2> QED
    BY <1>1, <2>3, OnlyStack
<1> QED
  BY <1>2, <1>3

(* The event loop calls.                                                    *)
LEMMA LoopReq ==
  ASSUME ReqInv, ubus_handle_data \/ PendingTimer
  PROVE  ReqInv'
<1>0. StackOK(stack, req)
  BY DEF ReqInv
<1>1. UNCHANGED <<req, requests>> /\ stack = <<>>
  BY DEF ubus_handle_data, PendingTimer
<1>2. PICK f \in {"handle", "drain"} : stack' = <<Frame(f, 0, "loop", 0)>>
  BY DEF ubus_handle_data, PendingTimer, Drain
<1>3. stack' = <<Frame(f, 0, "loop", 0)>> \o stack
  <2>1. PICK x : x = Frame(f, 0, "loop", 0)
    OBVIOUS
  <2>2. x \in Frames
    BY <2>1 DEF Frame, Frames, Functions, Places
  <2>3. <<x>> \in Seq(Frames)
    BY <2>2
  <2>4. <<x>> \o <<>> = <<x>>
    BY <2>3, ConcatEmptySeq
  <2> QED
    BY <1>1, <1>2, <2>1, <2>4
<1> QED
  BY <1>0, <1>1, <1>3, PlainPush, OnlyStack

----------------------------------------------------------------------------
(* ubus_complete_request.                                                   *)
LEMMA CompleteIs ==
  ASSUME ReqInv, NEW at, Top("complete", at)
  PROVE  /\ stack # <<>> /\ Head(stack) = stack[1] /\ stack[1] \in Frames
         /\ stack[1].f = "complete" /\ stack[1].at = at
         /\ stack[1].r \in Req /\ req[stack[1].r].kind = "sync"
         /\ at = "return" => req[stack[1].r].status # "none"
<1>1. StackOK(stack, req) /\ stack # <<>> /\ Head(stack).f = "complete" /\ Head(stack).at = at
  BY DEF ReqInv, Top
<1>2. Head(stack) = stack[1] /\ stack[1] \in Frames /\ FrameOK(stack[1], req)
  BY <1>1, PopIs, PopKeeps DEF StackOK
<1> QED
  BY <1>1, <1>2 DEF FrameOK, CompleteOK

(* The call goes on at another place; it returns only with a status.        *)
LEMMA CompleteGoto ==
  ASSUME NEW R, StackOK(stack, R), stack # <<>>, Head(stack).f = "complete",
         NEW a \in {"polled", "loop", "return"}, a = "return" => R[Head(stack).r].status # "none"
  PROVE  StackOK(Goto(a), R) /\ \A q : Active(stack, q) => Active(Goto(a), q)
<1>1. Head(stack) = stack[1] /\ stack[1] \in Frames /\ FrameOK(stack[1], R)
  BY PopIs, PopKeeps DEF StackOK
<1>2. PICK x : x = [stack[1] EXCEPT !.at = a]
  OBVIOUS
<1>3. x.f = "complete" /\ x.r = stack[1].r /\ x.at = a
  BY <1>1, <1>2 DEF Frames
<1>4. FrameOK(x, R)
  BY <1>1, <1>3 DEF FrameOK, CompleteOK
<1>5. a \in Places /\ stack[1].f = "complete"
  BY <1>1 DEF Places
<1> QED
  BY <1>2, <1>4, <1>5, GotoKeeps DEF Goto

(* The time of a call is over.                                              *)
LEMMA TimesOutReq ==
  ASSUME ReqInv, NEW r \in Req, TimesOut(r)
  PROVE  ReqInv'
<1>0. RequestsOK(req) /\ StackOK(stack, req) /\ ListOK(requests, req, stack)
  BY DEF ReqInv
<1>1. /\ Top("complete", "loop") /\ Head(stack).r = r /\ req[r].status = "none"
      /\ ubus_set_req_status(r, req, "TIMEOUT", Goto("return"))
  BY DEF TimesOut
<1>2. stack # <<>> /\ Head(stack) = stack[1] /\ stack[1].f = "complete" /\ req[r].kind = "sync"
  BY <1>1, CompleteIs
<1>3. PICK R : R = [req EXCEPT ![r].status = "TIMEOUT"]
  OBVIOUS
<1>4. RequestsOK(R) /\ StackOK(stack, R) /\ R[r] = [req[r] EXCEPT !.status = "TIMEOUT"]
  <2>1. "TIMEOUT" \in Codes \ {"none"}
    BY DEF Codes
  <2>2. req[r].kind \in {"sync", "async"}
    BY <1>2
  <2>3. /\ RequestsOK([req EXCEPT ![r].status = "TIMEOUT"])
        /\ StackOK(stack, [req EXCEPT ![r].status = "TIMEOUT"])
        /\ [req EXCEPT ![r].status = "TIMEOUT"][r] = [req[r] EXCEPT !.status = "TIMEOUT"]
    BY <1>0, <2>1, <2>2, StatusKeeps
  <2> QED
    BY <1>3, <2>3
<1>5. R[r].status = "TIMEOUT" /\ R[r].kind = "sync"
  BY <1>0, <1>2, <1>4 DEF RequestsOK, Requests
<1>6. StackOK(Goto("return"), R) /\ \A q : Active(stack, q) => Active(Goto("return"), q)
  BY <1>1, <1>2, <1>4, <1>5, CompleteGoto
<1>7. PICK st : st = Goto("return")
  OBVIOUS
<1>8. \A j \in 1..Len(st) : ~(st[j].f = "complete_cb" /\ st[j].r = r)
  BY <1>5, <1>6, <1>7 DEF StackOK, FrameOK, CallbackOK
<1>9. "TIMEOUT" \in Codes \ {"none"}
  BY DEF Codes
<1> QED
  BY <1>0, <1>1, <1>2, <1>3, <1>4, <1>6, <1>7, <1>8, <1>9, SetStatusKeeps

(* The call sees its status, or polls.                                      *)
LEMMA CompleteLoopReq ==
  ASSUME ReqInv, CompleteLoop
  PROVE  ReqInv'
<1>0. StackOK(stack, req)
  BY DEF ReqInv
<1>1. Top("complete", "loop") /\ UNCHANGED <<req, requests>>
  BY DEF CompleteLoop
<1>2. stack # <<>> /\ Head(stack).f = "complete"
  BY <1>1, CompleteIs
<1>3. CASE req[Head(stack).r].status # "none"
  <2>1. stack' = Goto("return")
    BY <1>3 DEF CompleteLoop
  <2> QED
    BY <1>0, <1>1, <1>2, <1>3, <2>1, CompleteGoto, OnlyStack
<1>4. CASE req[Head(stack).r].status = "none"
  <2>1. PICK st : st = Goto("polled")
    OBVIOUS
  <2>2. stack' = <<Frame("handle", 0, "loop", 0)>> \o st
    BY <1>4, <2>1 DEF CompleteLoop
  <2>3. StackOK(st, req) /\ \A q : Active(stack, q) => Active(st, q)
    BY <1>0, <1>2, <2>1, CompleteGoto
  <2>4. StackOK(stack', req) /\ \A q : Active(st, q) => Active(stack', q)
    BY <2>2, <2>3, PlainPush
  <2> QED
    BY <1>1, <2>3, <2>4, OnlyStack
<1> QED
  BY <1>3, <1>4

(* After the poll: a lost connection ends the call.                         *)
LEMMA CompletePolledReq ==
  ASSUME ReqInv, CompletePolled
  PROVE  ReqInv'
<1>0. /\ RequestsOK(req) /\ StackOK(stack, req) /\ ListOK(requests, req, stack)
      /\ req \in [Req -> Requests]
  BY DEF ReqInv, RequestsOK
<1>1. Top("complete", "polled")
  BY DEF CompletePolled
<1>2. PICK r : r = Head(stack).r
  OBVIOUS
<1>3. stack # <<>> /\ Head(stack).f = "complete" /\ r \in Req /\ req[r].kind = "sync"
  BY <1>1, <1>2, CompleteIs
<1>4. CASE eof
  <2>1. /\ requests' = RemoveFirst(requests, r) /\ stack' = Goto("return")
        /\ req' = [req EXCEPT ![r].status = "CONNECTION_FAILED"]
    BY <1>2, <1>4 DEF CompletePolled
  <2>2. "CONNECTION_FAILED" \in Codes \ {"none"}
    BY DEF Codes
  <2>3. PICK x : x = [req[r] EXCEPT !.status = "CONNECTION_FAILED"]
    OBVIOUS
  <2>4. RequestsOK(req') /\ StackOK(stack, req') /\ req' = [req EXCEPT ![r] = x] /\ req'[r] = x
    BY <1>0, <1>3, <2>1, <2>2, <2>3, StatusKeeps
  <2>5. x.status # "none"
    BY <1>0, <1>3, <2>3 DEF Requests
  <2>6. StackOK(stack', req') /\ \A q : Active(stack, q) => Active(stack', q)
    BY <1>2, <1>3, <2>1, <2>4, <2>5, CompleteGoto
  <2>7. ListOK(requests', req', stack')
    <3>1. PICK st : st = stack' /\ \A q : q # r /\ Active(stack, q) => Active(st, q)
      BY <2>6
    <3>2. ListOK(RemoveFirst(requests, r), [req EXCEPT ![r] = x], st)
      BY <1>0, <1>3, <3>1, ListUpdates
    <3> QED
      BY <2>1, <2>4, <3>1, <3>2
  <2> QED
    BY <2>4, <2>6, <2>7 DEF ReqInv
<1>5. CASE ~eof
  <2>1. stack' = Goto("loop") /\ UNCHANGED <<req, requests>>
    BY <1>5 DEF CompletePolled
  <2> QED
    BY <1>0, <1>3, <2>1, CompleteGoto, OnlyStack
<1> QED
  BY <1>4, <1>5

(* The call returns, and its request is gone.                               *)
LEMMA CompleteReturnReq ==
  ASSUME ReqInv, CompleteReturn
  PROVE  ReqInv'
<1>0. /\ RequestsOK(req) /\ StackOK(stack, req) /\ ListOK(requests, req, stack)
      /\ req \in [Req -> Requests]
  BY DEF ReqInv, RequestsOK
<1>1. Top("complete", "return") /\ UNCHANGED requests
  BY DEF CompleteReturn
<1>2. PICK r : r = Head(stack).r
  OBVIOUS
<1>3. /\ stack # <<>> /\ stack[1].f = "complete" /\ stack[1].r = r /\ r \in Req
      /\ req[r].kind = "sync" /\ req[r].status # "none"
  BY <1>1, <1>2, CompleteIs
<1>4. req' = [req EXCEPT ![r] = Ended]
  BY <1>2 DEF CompleteReturn
<1>5. PICK t : t = Tail(stack)
  OBVIOUS
<1>6. /\ StackOK(t, req) /\ \A q : q # r /\ Active(stack, q) => Active(t, q)
      /\ \A j \in 1..Len(t) : ~Same(stack[1], t[j])
      /\ \A j \in 1..Len(t) : ~(t[j].f = "pend" /\ t[j].r = r)
  <2>1. /\ StackOK(Tail(stack), req)
        /\ \A j \in 1..Len(Tail(stack)) : ~Same(stack[1], Tail(stack)[j])
        /\ \A q : Active(stack, q) => Active(Tail(stack), q) \/ (stack[1].f = "complete" /\ stack[1].r = q)
    BY <1>0, <1>3, PopKeeps
  <2>2. \A j \in 1..Len(Tail(stack)) : ~(Tail(stack)[j].f = "pend" /\ Tail(stack)[j].r = stack[1].r)
    BY <1>0, <1>3, PopKeeps
  <2> QED
    BY <1>3, <1>5, <2>1, <2>2
<1>7. ASSUME NEW j \in 1..Len(t), t[j].r = r
      PROVE  t[j].f \notin {"complete", "complete_cb"} /\ t[j].f # "pend"
  <2>1. FrameOK(t[j], req)
    BY <1>6 DEF StackOK
  <2> QED
    BY <1>3, <1>6, <1>7, <2>1 DEF FrameOK, CallbackOK, Same, Once
<1>8. RequestsOK(req') /\ StackOK(t, req')
  BY <1>0, <1>3, <1>4, <1>6, <1>7, EndKeeps
<1>9. \A i \in 1..Len(requests) : requests[i] # r
  BY <1>0, <1>3 DEF ListOK
<1>10. ListOK(requests, req', t)
  BY <1>0, <1>3, <1>4, <1>6, <1>9, ListUpdates
<1>11. CASE stack' = t
  BY <1>1, <1>8, <1>10, <1>11 DEF ReqInv
<1>12. CASE stack' = <<Drain>> \o t
  <2>1. StackOK(stack', req') /\ \A q : Active(t, q) => Active(stack', q)
    BY <1>8, <1>12, PlainPush DEF Drain
  <2> QED
    BY <1>1, <1>8, <1>10, <2>1, ListStack DEF ReqInv
<1> QED
  BY <1>5, <1>11, <1>12 DEF CompleteReturn

----------------------------------------------------------------------------
(* __ubus_process_req_data hands out the next entry, or is at the end.      *)
LEMMA ProcessReqDataReq ==
  ASSUME ReqInv, ProcessReqData
  PROVE  ReqInv'
<1>0. /\ RequestsOK(req) /\ StackOK(stack, req) /\ ListOK(requests, req, stack)
      /\ req \in [Req -> Requests]
  BY DEF ReqInv, RequestsOK
<1>1. stack # <<>> /\ Head(stack).f = "pend" /\ UNCHANGED requests
  BY DEF ProcessReqData
<1>2. Head(stack) = stack[1] /\ stack[1] \in Frames /\ FrameOK(stack[1], req) /\ stack[1].f = "pend"
  BY <1>0, <1>1, PopIs, PopKeeps DEF StackOK
<1>3. PICK r \in Req : r = stack[1].r /\ PendOK(stack[1], req) /\ req[r] \in Requests
  BY <1>0, <1>2 DEF FrameOK, PendOK
<1>4. PICK p \in Nat : p = req[r].pend
  BY <1>3 DEF Requests
<1>5. PICK n \in Nat : n = IF stack[1].at = "start" THEN p ELSE stack[1].n
  BY <1>2 DEF Frames
<1>6. /\ req[r].kind \in {"sync", "async", "ended"} /\ p >= n /\ (req[r].late \/ p = n)
      /\ req[r].kind # "ended" => req[r].blocked
      /\ req[r].kind = "ended" => n = 0 /\ req[r].status = "none"
  <2>1. req[r].kind = "ended" => p = 0 /\ req[r].status = "none"
    BY <1>0, <1>4 DEF RequestsOK
  <2>2. CASE stack[1].at = "start"
    BY <1>3, <1>5, <2>1, <2>2 DEF PendOK
  <2>3. CASE stack[1].at # "start"
    BY <1>3, <1>4, <1>5, <2>3 DEF PendOK
  <2> QED
    BY <2>2, <2>3
<1>7. PICK t : t = Tail(stack)
  OBVIOUS
<1>8. /\ StackOK(t, req) /\ \A q : Active(stack, q) => Active(t, q)
      /\ \A j \in 1..Len(t) : ~(t[j].f = "pend" /\ t[j].r = r)
  <2>1. /\ StackOK(Tail(stack), req)
        /\ \A q : Active(stack, q) => Active(Tail(stack), q) \/ (stack[1].f = "complete" /\ stack[1].r = q)
        /\ \A j \in 1..Len(Tail(stack)) : ~Same(stack[1], Tail(stack)[j])
    BY <1>0, <1>1, PopKeeps
  <2>2. \A j \in 1..Len(t) : ~(t[j].f = "pend" /\ t[j].r = r)
    BY <1>2, <1>3, <1>7, <2>1 DEF Same, Once
  <2> QED
    BY <1>2, <1>7, <2>1, <2>2
<1>9. CASE n > 0
  <2>1. req[r].kind \in {"sync", "async"} /\ req[r].blocked
    BY <1>6, <1>9
  <2>2. PICK k \in Nat, l \in Nat : k = p - 1 /\ l = n - 1 /\ k >= l /\ (p = n => k = l)
    <3>1. p - 1 \in Nat /\ n - 1 \in Nat /\ p - 1 >= n - 1
      BY <1>6, <1>9
    <3> QED
      BY <3>1
  <2>3. PICK x : x = [req[r] EXCEPT !.pend = k]
    OBVIOUS
  <2>4. /\ x \in Requests /\ x.kind = req[r].kind /\ x.status = req[r].status
        /\ x.blocked = req[r].blocked /\ x.pend = k /\ x.late = req[r].late
    BY <1>3, <2>3 DEF Requests
  <2>5. PICK R : R = [req EXCEPT ![r] = x]
    OBVIOUS
  <2>6. PICK d : d = Frame("data_cb", r, "user", 0)
    OBVIOUS
  <2>7. PICK y : y = Frame("pend", r, "next", l)
    OBVIOUS
  <2>8. req' = R /\ R[r] = x /\ stack' = <<d, y>> \o t
    <3>1. /\ req' = [req EXCEPT ![r].pend = @ - 1]
          /\ stack' = <<Frame("data_cb", r, "user", 0), Frame("pend", r, "next", n - 1)>> \o Tail(stack)
      BY <1>2, <1>3, <1>4, <1>5, <1>9 DEF ProcessReqData
    <3>2. R = [req EXCEPT ![r].pend = @ - 1] /\ R[r] = x
      BY <1>0, <1>4, <2>2, <2>3, <2>5
    <3> QED
      BY <1>7, <2>2, <2>6, <2>7, <3>1, <3>2
  <2>9. ASSUME NEW j \in 1..Len(t), t[j].r = r PROVE FrameOK(t[j], R)
    <3>1. FrameOK(t[j], req) /\ t[j].f # "pend"
      BY <1>8, <2>9 DEF StackOK
    <3> QED
      BY <2>1, <2>4, <2>8, <2>9, <3>1 DEF FrameOK, CompleteOK, CallbackOK
  <2>10. RequestsOK(R) /\ StackOK(t, R)
    <3>1. x.blocked /\ x.kind # "none" /\ x.kind # "ended" /\ req[r].kind # "none"
      BY <2>1, <2>4
    <3> QED
      BY <1>0, <1>8, <2>4, <2>5, <2>9, <3>1, ChangeKeeps
  <2>11. /\ y \in Frames /\ y.f = "pend" /\ y.r = r /\ y.at = "next" /\ y.n = l
         /\ d \in Frames /\ d.f = "data_cb"
    BY <1>3, <2>6, <2>7, BoundsAssumption DEF Frame, Frames, Functions, Places, Req
  <2>12. PendOK(y, R)
    <3>1. R[y.r].pend = k /\ R[y.r].blocked /\ R[y.r].kind \in {"sync", "async"}
      BY <2>1, <2>4, <2>8, <2>11
    <3>2. R[y.r].late \/ k = l
      BY <1>6, <2>2, <2>4, <2>8, <2>11
    <3> QED
      BY <2>2, <2>11, <3>1, <3>2 DEF PendOK
  <2>13. FrameOK(y, R) /\ FrameOK(d, R)
    BY <2>11, <2>12 DEF FrameOK
  <2>14. PICK u : u = <<y>> \o t
    OBVIOUS
  <2>15. StackOK(u, R) /\ \A q : Active(t, q) => Active(u, q)
    <3>1. \A j \in 1..Len(t) : ~Same(y, t[j])
      BY <1>8, <2>11 DEF Same
    <3>2. y.f = "pend" /\ R[y.r].kind = "sync" => Active(t, y.r)
      <4>1. req[r].kind = "sync" => Active(t, r)
        BY <1>0, <1>1, <1>2, <1>3, <1>7, PopKeeps
      <4> QED
        BY <2>4, <2>8, <2>11, <4>1
    <3> QED
      BY <2>10, <2>11, <2>13, <2>14, <3>1, <3>2, PushKeeps
  <2>16. StackOK(<<d>> \o u, R) /\ \A q : Active(u, q) => Active(<<d>> \o u, q)
    <3>1. \A j \in 1..Len(u) : ~Same(d, u[j])
      BY <2>11 DEF Same, Once
    <3> QED
      BY <2>11, <2>13, <2>15, <3>1, PushKeeps
  <2>17. stack' = <<d>> \o u
    <3>1. t \in Seq(Frames)
      BY <1>8 DEF StackOK
    <3> QED
      BY <2>8, <2>11, <2>14, <3>1, TwoFrames
  <2>18. ListOK(requests, R, stack')
    <3>1. PICK v : v = stack' /\ \A q : Active(stack, q) => Active(v, q)
      BY <1>8, <2>15, <2>16, <2>17
    <3>2. ListOK(requests, [req EXCEPT ![r] = x], v)
      BY <1>0, <2>4, <3>1, ListUpdates
    <3> QED
      BY <2>5, <3>1, <3>2
  <2> QED
    BY <1>1, <2>8, <2>10, <2>16, <2>17, <2>18 DEF ReqInv
<1>10. CASE ~(n > 0)
  <2>1. n = 0 /\ (req[r].late \/ p = 0)
    BY <1>6, <1>10
  <2>2. PICK x : x = [req[r] EXCEPT !.blocked = FALSE]
    OBVIOUS
  <2>3. /\ x \in Requests /\ x.kind = req[r].kind /\ x.status = req[r].status
        /\ x.blocked = FALSE /\ x.pend = p /\ x.late = req[r].late
    BY <1>3, <1>4, <2>2 DEF Requests
  <2>4. PICK R : R = [req EXCEPT ![r] = x]
    OBVIOUS
  <2>5. /\ req' = R /\ R[r] = x
        /\ IF req[r].status # "none" THEN complete_cb(r, t) ELSE stack' = t
    <3>1. /\ req' = [req EXCEPT ![r].blocked = FALSE]
          /\ IF req[r].status # "none" THEN complete_cb(r, Tail(stack)) ELSE stack' = Tail(stack)
      BY <1>2, <1>3, <1>4, <1>5, <1>10 DEF ProcessReqData
    <3>2. R = [req EXCEPT ![r].blocked = FALSE] /\ R[r] = x
      BY <1>0, <2>2, <2>4
    <3> QED
      BY <1>7, <3>1, <3>2
  <2>6. ASSUME NEW j \in 1..Len(t), t[j].r = r
        PROVE  FrameOK(t[j], R) /\ (req[r].kind # "ended" => t[j].f # "complete_cb")
    <3>1. FrameOK(t[j], req) /\ t[j].f # "pend"
      BY <1>8, <2>6 DEF StackOK
    <3>2. t[j].f = "complete_cb" => CallbackOK(t[j], R) /\ req[r].kind = "ended"
      BY <1>6, <2>3, <2>5, <2>6, <3>1 DEF FrameOK, CallbackOK
    <3>3. t[j].f = "complete" => CompleteOK(t[j], R)
      BY <2>3, <2>5, <2>6, <3>1 DEF FrameOK, CompleteOK
    <3> QED
      BY <3>1, <3>2, <3>3 DEF FrameOK
  <2>7. RequestsOK(R) /\ StackOK(t, R)
    <3>1. /\ x.kind # "none" /\ req[r].kind # "none" /\ (x.pend = 0 \/ x.late)
          /\ x.kind = "ended" => x.pend = 0 /\ x.status = "none"
      BY <1>0, <1>4, <1>6, <2>1, <2>3 DEF RequestsOK
    <3> QED
      BY <1>0, <1>8, <2>3, <2>4, <2>6, <3>1, ChangeKeeps
  <2>8. ListOK(requests, R, t)
    BY <1>0, <1>8, <2>3, <2>4, ListUpdates
  <2>9. CASE stack' = t
    BY <1>1, <2>5, <2>7, <2>8, <2>9 DEF ReqInv
  <2>10. CASE stack' # t
    <3>1. req[r].status # "none" /\ req[r].kind # "sync"
      BY <2>5, <2>10 DEF complete_cb
    <3>2. req[r].kind = "async"
      BY <1>6, <3>1
    <3>3. PICK y : y = Frame("complete_cb", r, "user", 0)
      OBVIOUS
    <3>4. stack' = <<y>> \o t
      BY <2>5, <3>1, <3>3 DEF complete_cb
    <3>5. y \in Frames /\ y.f = "complete_cb" /\ y.r = r
      BY <3>3, BoundsAssumption DEF Frame, Frames, Functions, Places, Req
    <3>6. FrameOK(y, R)
      BY <2>3, <2>5, <3>1, <3>2, <3>5 DEF FrameOK, CallbackOK
    <3>7. \A j \in 1..Len(t) : ~Same(y, t[j])
      BY <2>6, <3>2, <3>5 DEF Same
    <3>8. StackOK(stack', R) /\ \A q : Active(t, q) => Active(stack', q)
      BY <2>7, <3>4, <3>5, <3>6, <3>7, PushKeeps
    <3> QED
      BY <1>1, <2>5, <2>7, <2>8, <3>8, ListStack DEF ReqInv
  <2> QED
    BY <2>9, <2>10
<1> QED
  BY <1>9, <1>10

----------------------------------------------------------------------------
(* Handlers on the stack, when a function is called, returns or goes on.    *)
LEMMA HandlerCalls ==
  ASSUME NEW S \in Seq(Frames), OneHandler(S), NEW x, x.f = "handler" => ~Nested(S)
  PROVE  OneHandler(<<x>> \o S)
<1>1. PICK n \in Nat : n = Len(S)
  BY LenProperties
<1>2. PICK t : t = <<x>> \o S
  OBVIOUS
<1>3. /\ Len(t) = n + 1 /\ t[1] = x
      /\ \A i \in 1..(n + 1) : i # 1 => i - 1 \in 1..n /\ t[i] = S[i - 1]
  <2>1. PICK T : T = Frames \cup {x}
    OBVIOUS
  <2>2. S \in Seq(T) /\ x \in T
    <3>1. \A i \in 1..Len(S) : S[i] \in T
      BY <2>1, ElementOfSeq
    <3> QED
      BY <1>1, <2>1, <3>1
  <2>3. /\ Len(<<x>> \o S) = Len(S) + 1 /\ (<<x>> \o S)[1] = x
        /\ \A i \in 1..(Len(S) + 1) : i # 1 => i - 1 \in 1..Len(S) /\ (<<x>> \o S)[i] = S[i - 1]
    BY <2>2, PushIs
  <2> QED
    BY <1>1, <1>2, <2>3
<1>4. ASSUME NEW i \in 1..(n + 1), NEW j \in 1..(n + 1), t[i].f = "handler", t[j].f = "handler"
      PROVE  i = j
  <2>1. ASSUME NEW k \in 1..n, S[k].f = "handler" PROVE x.f # "handler"
    BY <1>1, <2>1 DEF Nested
  <2>2. CASE i = 1 /\ j # 1
    BY <1>3, <1>4, <2>1, <2>2
  <2>3. CASE i # 1 /\ j = 1
    BY <1>3, <1>4, <2>1, <2>3
  <2>4. CASE i # 1 /\ j # 1
    <3>1. i - 1 = j - 1
      BY <1>1, <1>3, <1>4, <2>4 DEF OneHandler
    <3> QED
      BY <3>1
  <2> QED
    BY <2>2, <2>3, <2>4
<1> QED
  BY <1>2, <1>3, <1>4 DEF OneHandler

(* A function returns.                                                      *)
LEMMA HandlerReturns ==
  ASSUME NEW S \in Seq(Frames), S # <<>>, OneHandler(S)
  PROVE  OneHandler(Tail(S)) /\ Tail(S) \in Seq(Frames)
<1>1. PICK n \in Nat : n = Len(S)
  BY LenProperties
<1>2. PICK t \in Seq(Frames) : t = Tail(S) /\ Len(t) = n - 1 /\ \A i \in 1..(n - 1) :
                                 i + 1 \in 1..n /\ t[i] = S[i + 1]
  <2>1. /\ Tail(S) \in Seq(Frames) /\ Len(Tail(S)) = Len(S) - 1
        /\ \A i \in 1..(Len(S) - 1) : i + 1 \in 1..Len(S) /\ Tail(S)[i] = S[i + 1]
    BY PopIs
  <2> QED
    BY <1>1, <2>1
<1>3. ASSUME NEW i \in 1..(n - 1), NEW j \in 1..(n - 1), t[i].f = "handler", t[j].f = "handler"
      PROVE  i = j
  <2>1. i + 1 = j + 1
    BY <1>1, <1>2, <1>3 DEF OneHandler
  <2> QED
    BY <2>1
<1> QED
  BY <1>2, <1>3 DEF OneHandler

(* A function goes on at another place.                                     *)
LEMMA HandlerGoesOn ==
  ASSUME stack \in Seq(Frames), stack # <<>>, OneHandler(stack), NEW a \in Places
  PROVE  OneHandler(Goto(a)) /\ (Nested(Goto(a)) <=> Nested(stack)) /\ Goto(a) \in Seq(Frames)
<1>1. PICK t \in Seq(Frames) : t = Tail(stack) /\ stack = <<stack[1]>> \o t
  BY PopIs
<1>2. PICK n \in Nat : n = Len(t)
  BY LenProperties
<1>3. stack[1] \in Frames /\ Head(stack) = stack[1]
  BY PopIs
<1>4. /\ Len(stack) = n + 1
      /\ \A i \in 1..(n + 1) : i # 1 => i - 1 \in 1..n /\ stack[i] = t[i - 1]
  BY <1>1, <1>2, <1>3, PushIs
<1>5. PICK x : x = [stack[1] EXCEPT !.at = a]
  OBVIOUS
<1>6. x \in Frames /\ x.f = stack[1].f
  BY <1>3, <1>5 DEF Frames
<1>7. PICK g : g = <<x>> \o t
  OBVIOUS
<1>8. Goto(a) = g
  BY <1>1, <1>3, <1>5, <1>7 DEF Goto
<1>9. /\ g \in Seq(Frames) /\ Len(g) = n + 1 /\ g[1] = x
      /\ \A i \in 1..(n + 1) : i # 1 => i - 1 \in 1..n /\ g[i] = t[i - 1]
  BY <1>2, <1>6, <1>7, PushIs
<1>10. \A i \in 1..(n + 1) : g[i].f = stack[i].f
  BY <1>4, <1>6, <1>9
<1>11. OneHandler(g)
  BY <1>4, <1>9, <1>10 DEF OneHandler
<1>12. Nested(g) <=> Nested(stack)
  BY <1>4, <1>9, <1>10 DEF Nested
<1> QED
  BY <1>8, <1>9, <1>11, <1>12

----------------------------------------------------------------------------
(* A message is put off, handled at once, or handled after it was put off.  *)
LEMMA OrderSteps ==
  ASSUME Order
  PROVE  /\ UNCHANGED <<served, pending, objs>> => Order'
         /\ pending' = Append(pending, objs + 1) /\ objs' = objs + 1 /\ UNCHANGED served => Order'
         /\ pending = <<>> /\ served' = Append(served, objs + 1) /\ objs' = objs + 1
              /\ UNCHANGED pending => Order'
         /\ pending # <<>> /\ served' = Append(served, Head(pending)) /\ pending' = Tail(pending)
              /\ UNCHANGED objs => Order'
<1>0. PICK a \in Nat, b \in Nat : a = Len(served) /\ b = Len(pending)
  BY LenProperties DEF Order
<1>1. /\ served \in Seq(Nat) /\ pending \in Seq(Nat) /\ objs = a + b
      /\ \A i \in 1..a : served[i] = i
      /\ \A i \in 1..b : pending[i] = a + i
  BY <1>0 DEF Order
<1>2. UNCHANGED <<served, pending, objs>> => Order'
  BY DEF Order
<1>3. ASSUME pending' = Append(pending, objs + 1), objs' = objs + 1, UNCHANGED served PROVE Order'
  <2>1. /\ pending' \in Seq(Nat) /\ Len(pending') = b + 1
        /\ \A i \in 1..b : pending'[i] = pending[i]
        /\ pending'[b + 1] = objs + 1
    BY <1>0, <1>1, <1>3, AppendProperties
  <2>2. ASSUME NEW i \in 1..(b + 1) PROVE pending'[i] = a + i
    <3>1. CASE i = b + 1
      BY <1>1, <2>1, <3>1
    <3>2. CASE i # b + 1
      <4>1. i \in 1..b
        BY <3>2
      <4> QED
        BY <1>1, <2>1, <4>1
    <3> QED
      BY <3>1, <3>2
  <2>3. objs' = a + (b + 1)
    BY <1>1, <1>3
  <2> QED
    BY <1>0, <1>1, <1>3, <2>1, <2>2, <2>3 DEF Order
<1>4. ASSUME NEW e \in Nat, e = a + 1, served' = Append(served, e)
      PROVE  served' \in Seq(Nat) /\ Len(served') = a + 1 /\ \A i \in 1..(a + 1) : served'[i] = i
  <2>1. /\ served' \in Seq(Nat) /\ Len(served') = a + 1
        /\ \A i \in 1..a : served'[i] = served[i]
        /\ served'[a + 1] = e
    BY <1>0, <1>1, <1>4, AppendProperties
  <2> QED
    BY <1>1, <1>4, <2>1
<1>5. ASSUME pending = <<>>, served' = Append(served, objs + 1), objs' = objs + 1, UNCHANGED pending
      PROVE  Order'
  <2>1. b = 0 /\ objs + 1 = a + 1
    BY <1>0, <1>1, <1>5, EmptySeq
  <2>2. served' \in Seq(Nat) /\ Len(served') = a + 1 /\ \A i \in 1..(a + 1) : served'[i] = i
    BY <1>4, <1>5, <2>1
  <2>3. pending' \in Seq(Nat) /\ Len(pending') = 0 /\ objs' = a + 1
    BY <1>0, <1>1, <1>5, <2>1
  <2> QED
    BY <2>2, <2>3 DEF Order
<1>6. ASSUME pending # <<>>, served' = Append(served, Head(pending)), pending' = Tail(pending),
             UNCHANGED objs
      PROVE  Order'
  <2>1. /\ Tail(pending) \in Seq(Nat) /\ b >= 1 /\ Len(Tail(pending)) = b - 1
        /\ Head(pending) = pending[1]
        /\ \A i \in 1..(b - 1) : i + 1 \in 1..b /\ Tail(pending)[i] = pending[i + 1]
    <3>1. /\ Tail(pending) \in Seq(Nat) /\ Len(pending) >= 1 /\ Len(Tail(pending)) = Len(pending) - 1
          /\ Head(pending) = pending[1]
          /\ \A i \in 1..(Len(pending) - 1) :
               i + 1 \in 1..Len(pending) /\ Tail(pending)[i] = pending[i + 1]
      BY <1>1, <1>6, PopIs
    <3> QED
      BY <1>0, <3>1
  <2>2. Head(pending) = a + 1
    BY <1>1, <2>1
  <2>3. served' \in Seq(Nat) /\ Len(served') = a + 1 /\ \A i \in 1..(a + 1) : served'[i] = i
    BY <1>4, <1>6, <2>2
  <2>4. \A i \in 1..(b - 1) : pending'[i] = (a + 1) + i
    BY <1>1, <1>6, <2>1
  <2>5. objs' = (a + 1) + (b - 1)
    BY <1>1, <1>6, <2>1
  <2> QED
    <3>1. pending' \in Seq(Nat) /\ Len(pending') = b - 1
      BY <1>6, <2>1
    <3> QED
      BY <2>3, <2>4, <2>5, <3>1 DEF Order
<1> QED
  BY <1>2, <1>3, <1>5, <1>6

(* complete_cb calls no handler.                                            *)
LEMMA CallbackHandlers ==
  ASSUME NEW st \in Seq(Frames), OneHandler(st), NEW r,
         complete_cb(r, st) \/ stack' = st
  PROVE  OneHandler(stack')
<1>1. PICK x : x = Frame("complete_cb", r, "user", 0)
  OBVIOUS
<1>2. x.f # "handler"
  BY <1>1 DEF Frame
<1>3. stack' = st \/ stack' = <<x>> \o st
  BY <1>1 DEF complete_cb
<1> QED
  BY <1>2, <1>3, HandlerCalls

(* DATA calls the user's callback under __ubus_process_req_data.            *)
LEMMA DataHandlers ==
  ASSUME NEW st \in Seq(Frames), OneHandler(st), NEW r \in Nat, NEW at \in Places, NEW n \in Nat,
         stack' = <<Frame("data_cb", r, "user", 0), Frame("pend", r, at, n)>> \o st
  PROVE  OneHandler(stack')
<1>1. PICK d : d = Frame("data_cb", r, "user", 0)
  OBVIOUS
<1>2. PICK y : y = Frame("pend", r, at, n)
  OBVIOUS
<1>3. d \in Frames /\ y \in Frames /\ d.f = "data_cb" /\ y.f = "pend"
  BY <1>1, <1>2 DEF Frame, Frames, Functions, Places
<1>4. PICK u : u = <<y>> \o st
  OBVIOUS
<1>5. u \in Seq(Frames) /\ OneHandler(u)
  BY <1>3, <1>4, PushIs, HandlerCalls
<1>6. stack' = <<d>> \o u
  BY <1>1, <1>2, <1>3, <1>4, TwoFrames
<1> QED
  BY <1>3, <1>5, <1>6, HandlerCalls

(* A message is read.                                                       *)
LEMMA NextMsgObj ==
  ASSUME ReqInv, ObjInv, stack # <<>>, ~MustDrain, NextMsg
  PROVE  ObjInv'
<1>0. stack \in Seq(Frames) /\ OneHandler(stack) /\ Order /\ objs \in Nat
  BY LenProperties DEF ReqInv, StackOK, ObjInv, Order
<1>1. PICK m \in Readable : ubus_process_msg(m, Goto("check"))
  BY DEF NextMsg
<1>2. PICK st : st = Goto("check")
  OBVIOUS
<1>3. st \in Seq(Frames) /\ OneHandler(st) /\ (Nested(st) <=> Nested(stack))
  BY <1>0, <1>2, HandlerGoesOn DEF Places
<1>4. m.r \in Nat /\ (m.type = "OBJ" => m.r = objs + 1)
  BY <1>0, ReadableIs
<1>5. CASE m.type = "OBJ"
  <2>1. ObjMsg(m, st) /\ objs' = objs + 1 /\ m.r = objs + 1
    BY <1>1, <1>2, <1>4, <1>5 DEF ubus_process_msg
  <2>2. CASE Nested(st)
    <3>1. pending' = Append(pending, objs + 1) /\ stack' = st /\ UNCHANGED served
      BY <2>1, <2>2 DEF ObjMsg
    <3>2. Order'
      BY <1>0, <2>1, <3>1, OrderSteps
    <3> QED
      BY <1>3, <3>1, <3>2 DEF ObjInv
  <2>3. CASE ~Nested(st)
    <3>1. PICK x : x = Frame("handler", m.r, "user", 0)
      OBVIOUS
    <3>2. served' = Append(served, objs + 1) /\ stack' = <<x>> \o st /\ UNCHANGED pending
      BY <2>1, <2>3, <3>1 DEF ObjMsg
    <3>3. pending = <<>>
      BY <1>3, <2>3 DEF MustDrain
    <3>4. Order'
      BY <1>0, <2>1, <3>2, <3>3, OrderSteps
    <3>5. OneHandler(stack')
      BY <1>3, <2>3, <3>2, HandlerCalls
    <3> QED
      BY <3>4, <3>5 DEF ObjInv
  <2> QED
    BY <2>2, <2>3
<1>6. CASE m.type # "OBJ"
  <2>1. UNCHANGED <<served, pending, objs>> /\ (Status(m, st) \/ Data(m, st))
    BY <1>1, <1>2, <1>6 DEF ubus_process_msg
  <2>2. Order'
    BY <1>0, <2>1, OrderSteps
  <2>3. CASE Status(m, st)
    <3>1. complete_cb(m.r, st) \/ stack' = st
      BY <2>3 DEF Status, ubus_set_req_status
    <3> QED
      BY <1>3, <2>2, <3>1, CallbackHandlers DEF ObjInv
  <2>4. CASE Data(m, st)
    <3>1. \/ stack' = st
          \/ stack' = <<Frame("data_cb", m.r, "user", 0), Frame("pend", m.r, "start", 0)>> \o st
      BY <2>4 DEF Data
    <3>2. "start" \in Places /\ 0 \in Nat
      BY DEF Places
    <3>3. OneHandler(stack')
      BY <1>3, <1>4, <3>1, <3>2, DataHandlers
    <3> QED
      BY <2>2, <3>3 DEF ObjInv
  <2> QED
    BY <2>1, <2>3, <2>4
<1> QED
  BY <1>5, <1>6

(* Steps that handle no object message.                                     *)
LEMMA CallsObj ==
  ASSUME ReqInv, ObjInv,
         \/ Call("sync", 0) \/ Call("sync", 1) \/ Call("async", 0)
         \/ Sent \/ Answer \/ Answered
         \/ \E r \in Req : ubus_abort_request(r) \/ TimesOut(r)
         \/ Return \/ CompleteLoop \/ CompletePolled \/ CompleteReturn
         \/ ProcessReqData \/ ubus_handle_data \/ PendingTimer \/ HandleCheck \/ HandleExit
  PROVE  ObjInv'
<1>0. stack \in Seq(Frames) /\ OneHandler(stack) /\ Order /\ StackOK(stack, req)
  BY DEF ReqInv, StackOK, ObjInv
<1>1. UNCHANGED <<served, pending, objs>>
  BY DEF Call, Sent, Answer, Answered, ubus_abort_request, TimesOut, Return, CompleteLoop, CompletePolled,
         CompleteReturn, ProcessReqData, ubus_handle_data, PendingTimer, HandleCheck, HandleExit
<1>2. Order'
  BY <1>0, <1>1, OrderSteps
<1>3. \A f, r, at, n : Frame(f, r, at, n).f = f
  BY DEF Frame
<1>4. ASSUME NEW S \in Seq(Frames), OneHandler(S), NEW f, f # "handler", NEW r, NEW at, NEW n,
             stack' = <<Frame(f, r, at, n)>> \o S
      PROVE  OneHandler(stack')
  <2>1. PICK x : x = Frame(f, r, at, n) /\ x.f # "handler"
    BY <1>3, <1>4
  <2> QED
    BY <1>4, <2>1, HandlerCalls
<1>5. stack # <<>> => OneHandler(Tail(stack)) /\ Tail(stack) \in Seq(Frames)
  BY <1>0, HandlerReturns
<1>6. ASSUME NEW a \in Places, stack # <<>>
      PROVE  OneHandler(Goto(a)) /\ Goto(a) \in Seq(Frames)
  BY <1>0, <1>6, HandlerGoesOn
<1>7. {"return", "polled", "loop", "exit", "next", "write"} \subseteq Places
  BY DEF Places
<1>8. CASE Call("sync", 0) \/ Call("sync", 1) \/ Call("async", 0)
  <2>1. PICK kind \in {"sync", "async"}, limit \in {0, 1} :
          stack' = <<Frame(kind, 0, "write", limit)>> \o stack
    BY <1>8 DEF Call
  <2>2. OneHandler(stack')
    BY <1>0, <1>4, <2>1
  <2> QED
    BY <1>2, <2>2 DEF ObjInv
<1>9. CASE \E r \in Req : ubus_abort_request(r)
  <2>1. stack' = stack
    BY <1>9 DEF ubus_abort_request
  <2> QED
    BY <1>0, <1>2, <2>1 DEF ObjInv
<1>10. CASE Sent
  <2>1. stack # <<>> /\ (stack' = Tail(stack)
                         \/ stack' = <<Frame("complete", Started + 1, "loop", 0)>> \o Tail(stack))
    BY <1>10 DEF Sent, Top
  <2>2. OneHandler(stack')
    BY <1>4, <1>5, <2>1
  <2> QED
    BY <1>2, <2>2 DEF ObjInv
<1>11. CASE Answer
  <2>1. stack # <<>> /\ stack' = Goto("write")
    BY <1>11 DEF Answer, Top
  <2> QED
    BY <1>2, <1>6, <1>7, <2>1 DEF ObjInv
<1>12. CASE \E r \in Req : TimesOut(r)
  <2>1. PICK r \in Req : TimesOut(r)
    BY <1>12
  <2>2. stack # <<>> /\ ubus_set_req_status(r, req, "TIMEOUT", Goto("return"))
    BY <2>1 DEF TimesOut, Top
  <2>3. complete_cb(r, Goto("return")) \/ stack' = Goto("return")
    BY <2>2 DEF ubus_set_req_status
  <2>4. OneHandler(stack')
    BY <1>6, <1>7, <2>2, <2>3, CallbackHandlers
  <2> QED
    BY <1>2, <2>4 DEF ObjInv
<1>13. CASE Return \/ Answered
  <2>1. stack # <<>> /\ stack' = Tail(stack)
    BY <1>13 DEF Return, Answered, Top
  <2> QED
    BY <1>2, <1>5, <2>1 DEF ObjInv
<1>14. CASE CompleteLoop
  <2>1. stack # <<>> /\ (stack' = Goto("return")
                         \/ stack' = <<Frame("handle", 0, "loop", 0)>> \o Goto("polled"))
    BY <1>14 DEF CompleteLoop, Top
  <2>2. OneHandler(stack')
    BY <1>4, <1>6, <1>7, <2>1
  <2> QED
    BY <1>2, <2>2 DEF ObjInv
<1>15. CASE CompletePolled \/ HandleCheck
  <2>1. PICK a \in Places : stack # <<>> /\ stack' = Goto(a)
    BY <1>7, <1>15 DEF CompletePolled, HandleCheck, Top
  <2> QED
    BY <1>2, <1>6, <2>1 DEF ObjInv
<1>16. CASE CompleteReturn
  <2>1. stack # <<>> /\ (stack' = Tail(stack)
                         \/ stack' = <<Frame("drain", 0, "loop", 0)>> \o Tail(stack))
    BY <1>16 DEF CompleteReturn, Top, Drain
  <2>2. OneHandler(stack')
    BY <1>4, <1>5, <2>1
  <2> QED
    BY <1>2, <2>2 DEF ObjInv
<1>17. CASE HandleExit
  <2>1. stack # <<>> /\ (stack' = Tail(stack)
                         \/ stack' = <<Frame("drain", 0, "loop", 0)>> \o stack)
    BY <1>17 DEF HandleExit, Top, Drain
  <2>2. OneHandler(stack')
    BY <1>0, <1>4, <1>5, <2>1
  <2> QED
    BY <1>2, <2>2 DEF ObjInv
<1>18. CASE ubus_handle_data \/ PendingTimer
  <2>1. PICK x : stack' = <<x>>
    BY <1>18 DEF ubus_handle_data, PendingTimer
  <2>2. Len(<<x>>) = 1
    OBVIOUS
  <2>3. OneHandler(stack')
    BY <2>1, <2>2 DEF OneHandler
  <2> QED
    BY <1>2, <2>3 DEF ObjInv
<1>19. CASE ProcessReqData
  <2>1. stack # <<>> /\ Head(stack).f = "pend"
    BY <1>19 DEF ProcessReqData
  <2>2. PICK r \in Nat : r = Head(stack).r /\ req[r] \in Requests /\ Head(stack).n \in Nat
    <3>1. Head(stack) \in Frames /\ PendOK(Head(stack), req)
      <4>1. Head(stack) = stack[1] /\ stack[1] \in Frames
        BY <1>0, <2>1, PopIs
      <4>2. FrameOK(stack[1], req)
        BY <1>0, <2>1, PopKeeps
      <4> QED
        BY <2>1, <4>1, <4>2 DEF FrameOK
    <3> QED
      BY <3>1 DEF Frames, PendOK, ReqInv, RequestsOK
  <2>3. PICK n \in Nat : n = IF Head(stack).at = "start" THEN req[r].pend ELSE Head(stack).n
    BY <2>2 DEF Requests
  <2>4. CASE n > 0
    <3>1. stack' = <<Frame("data_cb", r, "user", 0), Frame("pend", r, "next", n - 1)>> \o Tail(stack)
      BY <1>19, <2>2, <2>3, <2>4 DEF ProcessReqData
    <3>2. n - 1 \in Nat
      BY <2>4
    <3>3. OneHandler(stack')
      BY <1>5, <1>7, <2>1, <3>1, <3>2, DataHandlers
    <3> QED
      BY <1>2, <3>3 DEF ObjInv
  <2>5. CASE ~(n > 0)
    <3>1. complete_cb(r, Tail(stack)) \/ stack' = Tail(stack)
      BY <1>19, <2>2, <2>3, <2>5 DEF ProcessReqData
    <3>2. OneHandler(stack')
      BY <1>5, <2>1, <3>1, CallbackHandlers
    <3> QED
      BY <1>2, <3>2 DEF ObjInv
  <2> QED
    BY <2>4, <2>5
<1> QED
  BY <1>8, <1>9, <1>10, <1>11, <1>12, <1>13, <1>14, <1>15, <1>16, <1>17, <1>18,
     <1>19

(* Steps that may handle one.                                               *)
LEMMA ServeObj ==
  ASSUME ReqInv, ObjInv, Mid, HandleLoop \/ HandleRecv \/ ubus_process_pending_msg
  PROVE  ObjInv'
<1>0. stack \in Seq(Frames) /\ OneHandler(stack) /\ Order /\ stack # <<>>
  BY DEF ReqInv, StackOK, ObjInv, HandleLoop, HandleRecv, ubus_process_pending_msg, Top, Mid
<1>1. CASE HandleLoop
  <2>1. CASE MustDrain
    <3>1. stack' = <<Drain>> \o stack /\ UNCHANGED <<served, pending, objs>>
      BY <1>1, <2>1 DEF HandleLoop
    <3>2. Drain.f # "handler"
      BY DEF Drain, Frame
    <3>3. OneHandler(stack')
      BY <1>0, <3>1, <3>2, HandlerCalls
    <3> QED
      BY <1>0, <3>1, <3>3, OrderSteps DEF ObjInv
  <2>2. CASE NothingToRead
    <3>1. stack' = Goto("exit") /\ UNCHANGED <<served, pending, objs>>
      BY <2>2 DEF NothingToRead
    <3>2. OneHandler(stack')
      BY <1>0, <3>1, HandlerGoesOn DEF Places
    <3> QED
      BY <1>0, <3>1, <3>2, OrderSteps DEF ObjInv
  <2>3. CASE MsgBegins
    <3>1. UNCHANGED <<stack, served, pending, objs>>
      BY <2>3 DEF MsgBegins
    <3> QED
      BY <1>0, <3>1, OrderSteps DEF ObjInv
  <2> QED
    BY <1>1, <2>1, <2>2, <2>3 DEF HandleLoop
<1>2. CASE HandleRecv
  <2>1. CASE NextMsg
    <3>1. ~MustDrain
      BY <1>2 DEF HandleRecv, Mid
    <3> QED
      BY <1>0, <2>1, <3>1, NextMsgObj
  <2>2. CASE LateMsg \/ CutOff
    <3>1. PICK a \in {"check", "exit"} : stack' = Goto(a) /\ UNCHANGED <<served, pending, objs>>
      BY <2>2 DEF LateMsg, CutOff
    <3>2. OneHandler(stack')
      BY <1>0, <3>1, HandlerGoesOn DEF Places
    <3> QED
      BY <1>0, <3>1, <3>2, OrderSteps DEF ObjInv
  <2> QED
    BY <1>2, <2>1, <2>2 DEF HandleRecv
<1>3. CASE ubus_process_pending_msg
  <2>1. UNCHANGED objs
    BY <1>3 DEF ubus_process_pending_msg
  <2>2. CASE MustDrain
    <3>1. PICK x : x = Frame("handler", Head(pending), "user", 0)
      OBVIOUS
    <3>2. /\ stack' = <<x>> \o stack /\ served' = Append(served, Head(pending))
          /\ pending' = Tail(pending) /\ pending # <<>> /\ ~Nested(stack)
      BY <1>3, <2>2, <3>1 DEF ubus_process_pending_msg, MustDrain
    <3>3. OneHandler(stack')
      BY <1>0, <3>2, HandlerCalls
    <3> QED
      BY <1>0, <2>1, <3>2, <3>3, OrderSteps DEF ObjInv
  <2>3. CASE ~MustDrain
    <3>1. stack' = Tail(stack) /\ UNCHANGED <<served, pending>>
      BY <1>3, <2>3 DEF ubus_process_pending_msg
    <3>2. OneHandler(stack')
      BY <1>0, <3>1, HandlerReturns
    <3> QED
      BY <1>0, <2>1, <3>1, <3>2, OrderSteps DEF ObjInv
  <2> QED
    BY <2>2, <2>3
<1> QED
  BY <1>1, <1>2, <1>3

(* While recv_retry waits nothing else happens.                             *)
LEMMA NextMid ==
  ASSUME Mid, Next
  PROVE  Mid'
<1>1. CASE partial
  <2>1. stack # <<>> /\ Head(stack).f = "handle" /\ Head(stack).at = "loop"
    BY <1>1 DEF Mid, Top
  <2>2. ~(Call("sync", 0) \/ Call("sync", 1) \/ Call("async", 0) \/ Sent \/ Answer \/ Answered)
    BY <2>1 DEF Call, Sent, Answer, Answered, User, Top
  <2>3. ~(Return \/ \E r \in Req : ubus_abort_request(r) \/ TimesOut(r))
    BY <2>1 DEF Return, ubus_abort_request, TimesOut, User, Top
  <2>4. ~Library
    BY <1>1, <2>1 DEF Library, HandleLoop, HandleCheck, HandleExit, ubus_process_pending_msg,
         ProcessReqData, CompleteLoop, CompletePolled, CompleteReturn, Top
  <2>5. ~(ubus_handle_data \/ PendingTimer)
    BY <2>1 DEF ubus_handle_data, PendingTimer
  <2>6. HandleRecv
    BY <2>2, <2>3, <2>4, <2>5 DEF Next
  <2> QED
    BY <2>6 DEF HandleRecv, Mid
<1>2. CASE ~partial
  <2>1. CASE HandleLoop
    <3>1. CASE ~MustDrain /\ MsgBegins
      <4>1. partial' = TRUE /\ UNCHANGED <<stack, pending>>
        BY <3>1 DEF MsgBegins
      <4>2. Top("handle", "loop")' /\ ~MustDrain'
        BY <2>1, <3>1, <4>1 DEF HandleLoop, Top, MustDrain
      <4> QED
        BY <4>1, <4>2 DEF Mid
    <3>2. CASE MustDrain \/ NothingToRead
      <4>1. CASE MustDrain
        BY <1>2, <2>1, <4>1 DEF HandleLoop, Mid
      <4>2. CASE NothingToRead
        BY <1>2, <4>2 DEF NothingToRead, Mid
      <4> QED
        BY <3>2, <4>1, <4>2
    <3> QED
      BY <2>1, <3>1, <3>2 DEF HandleLoop
  <2>2. CASE ~HandleLoop
    <3>1. ~HandleRecv
      BY <1>2 DEF HandleRecv
    <3>2. UNCHANGED partial
      BY <2>2, <3>1 DEF Next, Call, Sent, Answer, Answered, Return, ubus_abort_request, TimesOut,
           Library, HandleCheck, HandleExit, ubus_process_pending_msg, ProcessReqData,
           CompleteLoop, CompletePolled, CompleteReturn, ubus_handle_data, PendingTimer
    <3> QED
      BY <1>2, <3>2 DEF Mid
  <2> QED
    BY <2>1, <2>2
<1> QED
  BY <1>1, <1>2

----------------------------------------------------------------------------
(* Before the first call nothing is listed, active or put off.              *)
LEMMA InitReqObj ==
  ASSUME Init
  PROVE  ReqInv /\ ObjInv /\ Mid
<1>1. /\ req = [r \in Req |-> NoReq] /\ requests = <<>> /\ stack = <<>>
      /\ pending = <<>> /\ served = <<>> /\ objs = 0
  BY DEF Init
<1>2. NoReq \in Requests
  BY DEF NoReq, Requests, Kinds, Codes
<1>3. NoReq.kind = "none" /\ NoReq.pend = 0
  BY DEF NoReq
<1>4. Len(<<>>) = 0 /\ <<>> \in Seq(Req) /\ <<>> \in Seq(Frames) /\ <<>> \in Seq(Nat)
  OBVIOUS
<1>5. RequestsOK(req)
  <2>1. /\ req \in [Req -> Requests] /\ \A r \in Req : req[r] = NoReq
    BY <1>1, <1>2
  <2>2. {r \in Req : req[r].kind # "none"} = {}
    BY <1>3, <2>1
  <2>3. 0 \in 0..MaxReq /\ 1..0 = {}
    BY BoundsAssumption
  <2>4. \E n \in 0..MaxReq : {r \in Req : req[r].kind # "none"} = 1..n
    BY <2>2, <2>3
  <2>5. /\ \A r \in Req : ~req[r].blocked => req[r].pend = 0 \/ req[r].late
        /\ \A r \in Req : req[r].kind = "ended" => req[r].pend = 0 /\ req[r].status = "none"
    BY <1>3, <2>1
  <2> QED
    BY <2>1, <2>4, <2>5 DEF RequestsOK
<1>6. StackOK(stack, req) /\ ListOK(requests, req, stack)
  BY <1>1, <1>4 DEF StackOK, ListOK
<1>7. Order /\ OneHandler(stack)
  BY <1>1, <1>4 DEF Order, OneHandler
<1>8. Mid
  BY DEF Init, Mid
<1> QED
  BY <1>5, <1>6, <1>7, <1>8 DEF ReqInv, ObjInv

(* Every step keeps the requests, the stack and the list in accord.         *)
LEMMA NextReqObj ==
  ASSUME ReqInv, ObjInv, Mid, [Next]_vars
  PROVE  ReqInv' /\ ObjInv' /\ Mid'
<1>0. objs \in Nat /\ pending \in Seq(Nat)
  BY LenProperties DEF ObjInv, Order
<1>1. CASE UNCHANGED vars
  BY <1>1 DEF vars, ReqInv, ObjInv, Order, Mid, Top, MustDrain
<1>2. Mid'
  <2>1. CASE Next
    BY <2>1, NextMid
  <2>2. CASE UNCHANGED vars
    BY <2>2 DEF vars, Mid, Top, MustDrain
  <2> QED
    BY <2>1, <2>2
<1> SUFFICES ReqInv' /\ ObjInv'
  BY <1>2
<1>3. CASE Call("sync", 0) \/ Call("sync", 1) \/ Call("async", 0)
  BY <1>3, CallReq, CallsObj
<1>4. CASE Sent
  BY <1>4, SentReq, CallsObj
<1>5. CASE Answer \/ Answered
  BY <1>5, AnswerReq, CallsObj
<1>6. CASE HandleRecv
  BY <1>0, <1>6, HandleReq, ServeObj
<1>7. CASE \E r \in Req : ubus_abort_request(r)
  BY <1>7, AbortReq, CallsObj
<1>8. CASE \E r \in Req : TimesOut(r)
  BY <1>8, TimesOutReq, CallsObj
<1>9. CASE Return
  BY <1>9, ReturnReq, CallsObj
<1>10. CASE ubus_handle_data \/ PendingTimer
  BY <1>10, LoopReq, CallsObj
<1>11. CASE Library
  <2>1. CASE HandleLoop
    BY <1>0, <2>1, HandleReq, ServeObj
  <2>2. CASE HandleCheck \/ HandleExit
    BY <1>0, <2>2, HandleReq, CallsObj
  <2>3. CASE ubus_process_pending_msg
    BY <1>0, <2>3, DrainReq, ServeObj
  <2>4. CASE ProcessReqData
    BY <2>4, ProcessReqDataReq, CallsObj
  <2>5. CASE CompleteLoop
    BY <2>5, CompleteLoopReq, CallsObj
  <2>6. CASE CompletePolled
    BY <2>6, CompletePolledReq, CallsObj
  <2>7. CASE CompleteReturn
    BY <2>7, CompleteReturnReq, CallsObj
  <2> QED
    BY <1>11, <2>1, <2>2, <2>3, <2>4, <2>5, <2>6, <2>7 DEF Library
<1> QED
  BY <1>1, <1>3, <1>4, <1>5, <1>6, <1>7, <1>8, <1>9, <1>10, <1>11 DEF Next

(* The inductive invariant holds in every state.                            *)
LEMMA LibubusInv == Spec => [](ReqInv /\ ObjInv /\ Mid)
<1>1. Init => ReqInv /\ ObjInv /\ Mid
  BY InitReqObj
<1>2. ReqInv /\ ObjInv /\ Mid /\ [Next]_vars => ReqInv' /\ ObjInv' /\ Mid'
  BY NextReqObj
<1> QED
  BY <1>1, <1>2, PTL DEF Spec

(* ctx->requests holds no request that is over, and that of a blocking call  *)
(* only while ubus_complete_request, in whose frame it lies, is on the       *)
(* stack: for any nesting of calls in callbacks and any late answer.        *)
THEOREM LiveRequests == Spec => []RequestsLive
<1>1. ReqInv => RequestsLive
  <2> SUFFICES ASSUME ReqInv PROVE RequestsLive
    OBVIOUS
  <2>0. ListOK(requests, req, stack) /\ requests \in Seq(Req)
    BY DEF ReqInv, ListOK
  <2>1. Len(requests) \in Nat /\ DOMAIN requests = 1..Len(requests)
    BY <2>0, LenProperties
  <2>2. IsInjective(requests)
    BY <2>0, <2>1 DEF IsInjective, ListOK
  <2>3. ASSUME NEW r \in Range(requests)
        PROVE  /\ req[r].status = "none"
               /\ req[r].kind = "async" \/ (req[r].kind = "sync" /\ Running("complete", r))
    <3>1. PICK i \in 1..Len(requests) : requests[i] = r
      BY <2>1 DEF Range
    <3> QED
      BY <2>0, <3>1 DEF ListOK, Active, Running
  <2> QED
    BY <2>2, <2>3 DEF RequestsLive
<1> QED
  BY <1>1, LibubusInv, PTL

(* A request that has a status, and no callback active, has no DATA message  *)
(* waiting for its callback, except a late one.                             *)
THEOREM DataHandedOut == Spec => []DataBeforeStatus
<1>1. ReqInv => DataBeforeStatus
  BY DEF ReqInv, RequestsOK, DataBeforeStatus
<1> QED
  BY <1>1, LibubusInv, PTL

(* The process's objects are given their messages one at a time and in the   *)
(* order of the stream, whichever of them were put off.                     *)
THEOREM ObjectsInOrder == Spec => []ObjectMessagesInOrder
<1>1. ObjInv => ObjectMessagesInOrder
  BY DEF ObjInv, Order, OneHandler, ObjectMessagesInOrder
<1> QED
  BY <1>1, LibubusInv, PTL
=============================================================================
