------------------------ MODULE DaemonManagerProofs ------------------------
(***************************************************************************)
(* Theorems about DaemonManager, for any users, any number of handlers at  *)
(* once, and any number of tokens and of moves of the environment.         *)
(***************************************************************************)
EXTENDS DaemonManager, SequenceTheorems, TLAPS

Clearing == {"clear", "clear token", "clear user"}
Syncing == {"sync", "sync user", "mint", "write token", "write user"}
Final == GuardedSteps \cup {"unlock"}
Later == {"sync", "clear user", "guarded stop", "unlock", "auto start", "stop", "start"}

\* What is left of a flow: steps with something half done come first, what takes or gives
\* back the guard last, and nothing but a clear before a sync.
InOrder(s) ==
    /\ \A k \in 2 .. Len(s) : s[k] \in Later
    /\ \A k \in 2 .. Len(s) : s[k] = "clear user" => k = 2 /\ s[1] = "clear token"
    /\ \A k \in 1 .. Len(s) : s[k] \in Final => k = Len(s)
    /\ \A k \in 2 .. Len(s) : s[k] = "sync" => \A j \in 1 .. (k - 1) : s[j] \in Clearing

\* A flow under the guard gives it back however it ends, and a sync knows its user.
Sound(x) ==
    /\ InOrder(x.todo)
    /\ x.onFail \in {<<>>, <<"unlock">>, <<"guarded stop">>}
    /\ (\E k \in 1 .. Len(x.todo) : x.todo[k] = "unlock") <=>
            x.onFail = <<"unlock">> \/ x.todo = <<"unlock">>
    /\ (\E k \in 1 .. Len(x.todo) : x.todo[k] \in Syncing) => x.user \in Users

Known(t) == t = None \/ t \in 1 .. Len(minted)

\* The token in the file is the user's, or is about to be.
Files ==
    /\ \A f \in Flows : At(f, "sync user") => flow[f].token = config
    /\ \A f \in Flows : At(f, "write token") =>
            /\ flow[f].token # None
            /\ minted[flow[f].token] = flow[f].user \/ \E g \in Flows \ {f} : At(g, "write user")
    /\ \A f \in Flows : At(f, "write user") =>
            config # None /\ config = flow[f].token /\ minted[config] = flow[f].user
    /\ \A f \in Flows : At(f, "clear user") => config = None
    /\ (\A f \in Flows : ~At(f, "write user")) =>
            (config # None /\ sidecar # None => minted[config] = sidecar)

TokenInv == Known(config) /\ \A f \in Flows : Known(flow[f].token)
FlowInv == \A f \in Flows : Sound(flow[f])
FilesInv == races \cap {"two writers", "half written"} = {} => Files
IInv == TypeOK /\ TokenInv /\ FlowInv /\ GuardHasOneHolder /\ FilesInv

-----------------------------------------------------------------------------
(* Flows                                                                   *)

\* What takes the place of the first step.
LEMMA Splice ==
    ASSUME NEW S, NEW s \in Seq(S), s # <<>>, NEW a \in Seq(S)
    PROVE  /\ a \o Tail(s) \in Seq(S)
           /\ Len(a \o Tail(s)) = Len(a) + Len(s) - 1
           /\ \A k \in 1 .. Len(a \o Tail(s)) :
                (a \o Tail(s))[k] = IF k <= Len(a) THEN a[k] ELSE s[k - Len(a) + 1]
<1>1. Tail(s) \in Seq(S) /\ Len(Tail(s)) = Len(s) - 1 /\ \A k \in 1 .. Len(Tail(s)) : Tail(s)[k] = s[k + 1]
  BY HeadTailProperties
<1>2. /\ a \o Tail(s) \in Seq(S) /\ Len(a \o Tail(s)) = Len(a) + Len(Tail(s))
      /\ \A k \in 1 .. Len(a) + Len(Tail(s)) :
            (a \o Tail(s))[k] = IF k <= Len(a) THEN a[k] ELSE Tail(s)[k - Len(a)]
  BY <1>1, ConcatProperties
<1>3. Len(a) \in Nat /\ Len(s) \in Nat /\ Len(s) >= 1
  BY LenProperties, EmptySeq
<1>. QED
  BY <1>1, <1>2, <1>3

\* What may take the place of the first step of s.
Follows(s, a) ==
    /\ a \in Seq(Steps) /\ Len(a) <= 2
    /\ \A k \in 1 .. Len(a) : a[k] \notin Final /\ a[k] # "sync"
    /\ Len(a) = 2 => a[2] \in Later /\ (a[2] = "clear user" => a[1] = "clear token")
    /\ Head(s) = "clear token" => a = <<>>
    /\ Head(s) \in Clearing => \A k \in 1 .. Len(a) : a[k] \in Clearing

\* The order of what is left is kept.
LEMMA SpliceInOrder ==
    ASSUME NEW s \in Seq(Steps), s # <<>>, InOrder(s), Head(s) # "unlock",
           NEW a, Follows(s, a)
    PROVE  /\ InOrder(a \o Tail(s))
           /\ (\E k \in 1 .. Len(a \o Tail(s)) : (a \o Tail(s))[k] = "unlock") <=>
                   \E k \in 1 .. Len(s) : s[k] = "unlock"
<1>. DEFINE t == a \o Tail(s)
            n == Len(a)
<1>0. a \in Seq(Steps) /\ Len(a) <= 2
  BY DEF Follows
<1>1. n \in Nat /\ n <= 2 /\ Len(s) \in Nat /\ Len(s) >= 1 /\ Len(t) = n + Len(s) - 1
  <2>1. Len(a) \in Nat /\ Len(s) \in Nat
    BY <1>0, LenProperties
  <2>2. Len(s) # 0
    BY EmptySeq
  <2>3. Len(a \o Tail(s)) = Len(a) + Len(s) - 1
    BY <1>0, Splice
  <2>. QED
    BY <1>0, <2>1, <2>2, <2>3
<1>2. s[1] = Head(s)
  OBVIOUS
<1>3. \A k \in 1 .. n : t[k] = a[k]
  <2>1. \A k \in 1 .. Len(t) : t[k] = IF k <= n THEN a[k] ELSE s[k - n + 1]
    BY <1>0, Splice
  <2>. QED
    BY <2>1, <1>1
<1>4. \A k \in (n + 1) .. Len(t) : k - n + 1 \in 2 .. Len(s) /\ t[k] = s[k - n + 1]
  <2>1. \A k \in 1 .. Len(t) : t[k] = IF k <= n THEN a[k] ELSE s[k - n + 1]
    BY <1>0, Splice
  <2>. QED
    BY <2>1, <1>1
<1>5. \A k \in 1 .. n : a[k] \notin Final /\ a[k] # "unlock" /\ a[k] # "sync"
  BY DEF Follows, Final
<1>6. n = 2 => a[2] \in Later /\ (a[2] = "clear user" => a[1] = "clear token")
  BY DEF Follows
<1>7. s[1] = "clear token" => n = 0
  BY <1>2, EmptySeq DEF Follows
<1>8. s[1] \in Clearing => \A k \in 1 .. n : a[k] \in Clearing
  BY <1>2 DEF Follows
<1>. HIDE DEF t, n
<1>9. \A k \in 1 .. Len(t) : k \in 1 .. n \/ k \in (n + 1) .. Len(t)
  BY <1>1
<1>9a. \A k \in 2 .. Len(t) : /\ n = 0 => k - n + 1 # 2
                              /\ k \in 1 .. n => k = 2 /\ n = 2 /\ 1 \in 1 .. n
                              /\ k \in 1 .. n \/ k \in (n + 1) .. Len(t)
  BY <1>1
<1>10. \A k \in 2 .. Len(t) : t[k] \in Later
  <2>. SUFFICES ASSUME NEW k \in 2 .. Len(t) PROVE t[k] \in Later
    OBVIOUS
  <2>1. CASE k \in 1 .. n
    <3>1. k = 2 /\ n = 2
      BY <2>1, <1>1
    <3>. QED
      BY <3>1, <2>1, <1>3, <1>6
  <2>2. CASE k \in (n + 1) .. Len(t)
    BY <2>2, <1>4 DEF InOrder
  <2>. QED
    BY <2>1, <2>2, <1>1
<1>11. \A k \in 2 .. Len(t) : t[k] = "clear user" => k = 2 /\ t[1] = "clear token"
  <2>. SUFFICES ASSUME NEW k \in 2 .. Len(t), t[k] = "clear user"
                PROVE  k = 2 /\ t[1] = "clear token"
    OBVIOUS
  <2>1. CASE k \in 1 .. n
    <3>1. k = 2 /\ n = 2 /\ 1 \in 1 .. n /\ 2 \in 1 .. n
      BY <2>1, <1>9a
    <3>2. t[1] = a[1] /\ t[2] = a[2]
      BY <3>1, <1>3
    <3>. QED
      BY <3>1, <3>2, <1>6
  <2>2. CASE k \in (n + 1) .. Len(t)
    <3>. DEFINE m == k - n + 1
    <3>1. m \in 2 .. Len(s) /\ s[m] = "clear user"
      BY <2>2, <1>4
    <3>. HIDE DEF m
    <3>2. m = 2 /\ s[1] = "clear token"
      BY <3>1 DEF InOrder
    <3>3. n = 0
      BY <3>2, <1>7
    <3>4. m # 2
      BY <3>3, <1>9a, Zenon DEF m
    <3>. QED
      BY <3>2, <3>4
  <2>. QED
    BY <2>1, <2>2, <1>9a
<1>12. \A k \in 1 .. Len(t) : t[k] \in Final => k = Len(t)
  <2>. SUFFICES ASSUME NEW k \in 1 .. Len(t), t[k] \in Final PROVE k = Len(t)
    OBVIOUS
  <2>1. k \in (n + 1) .. Len(t)
    BY <1>3, <1>5, <1>9
  <2>2. k - n + 1 = Len(s)
    <3>. DEFINE m == k - n + 1
    <3>1. m \in 1 .. Len(s) /\ s[m] \in Final
      BY <2>1, <1>1, <1>4
    <3>. HIDE DEF m
    <3>2. m = Len(s)
      BY <3>1 DEF InOrder
    <3>. QED
      BY <3>2 DEF m
  <2>. QED
    BY <2>2, <1>1
<1>13. \A k \in 2 .. Len(t) : t[k] = "sync" => \A j \in 1 .. (k - 1) : t[j] \in Clearing
  <2>. SUFFICES ASSUME NEW k \in 2 .. Len(t), t[k] = "sync", NEW j \in 1 .. (k - 1)
                PROVE  t[j] \in Clearing
    OBVIOUS
  <2>1. k \in (n + 1) .. Len(t)
    BY <1>1, <1>3, <1>5, <1>9
  <2>2. \A i \in 1 .. (k - n) : s[i] \in Clearing
    <3>. DEFINE m == k - n + 1
    <3>1. m \in 2 .. Len(s) /\ s[m] = "sync" /\ m - 1 = k - n
      BY <2>1, <1>1, <1>4
    <3>. HIDE DEF m
    <3>2. \A i \in 1 .. (m - 1) : s[i] \in Clearing
      BY <3>1 DEF InOrder
    <3>. QED
      BY <3>1, <3>2
  <2>3. s[1] \in Clearing
    BY <2>1, <2>2, <1>1
  <2>4. CASE j \in 1 .. n
    BY <2>3, <2>4, <1>3, <1>8
  <2>5. CASE j \in (n + 1) .. Len(t)
    <3>1. t[j] = s[j - n + 1] /\ j - n + 1 \in 1 .. (k - n)
      BY <2>5, <1>1, <1>4
    <3>. QED
      BY <3>1, <2>2
  <2>. QED
    BY <2>4, <2>5, <1>1
<1>14. (\E k \in 1 .. Len(t) : t[k] = "unlock") <=> \E k \in 1 .. Len(s) : s[k] = "unlock"
  <2>1. ASSUME NEW k \in 1 .. Len(t), t[k] = "unlock" PROVE \E i \in 1 .. Len(s) : s[i] = "unlock"
    <3>1. k \in (n + 1) .. Len(t)
      BY <2>1, <1>3, <1>5, <1>9
    <3>2. k - n + 1 \in 1 .. Len(s) /\ s[k - n + 1] = "unlock"
      BY <2>1, <3>1, <1>1, <1>4
    <3>. QED
      BY <3>2
  <2>2. ASSUME NEW k \in 1 .. Len(s), s[k] = "unlock" PROVE \E i \in 1 .. Len(t) : t[i] = "unlock"
    <3>1. k # 1
      BY <2>2, <1>2
    <3>2. k + n - 1 \in (n + 1) .. Len(t) /\ (k + n - 1) - n + 1 = k
      BY <3>1, <1>1
    <3>3. t[k + n - 1] = s[k]
      BY <3>2, <1>4
    <3>4. k + n - 1 \in 1 .. Len(t)
      BY <3>2, <1>1
    <3>. QED
      BY <3>3, <3>4, <2>2
  <2>. QED
    BY <2>1, <2>2
<1>. QED
  BY <1>10, <1>11, <1>12, <1>13, <1>14 DEF InOrder, t

\* The flow f has the guard as x just when it has it now.
Keeps(f, x) == Holds(f) <=> \E k \in 1 .. Len(x.todo) : x.todo[k] = "unlock"

\* A flow that has ended, and one that only has the guard to give back.
LEMMA Ends ==
    /\ Len(<<>>) = 0 /\ Idle \in Flow /\ Sound(Idle)
    /\ Idle.todo = <<>> /\ Idle.token = None
    /\ \A s : s = <<"unlock">> => \E k \in 1 .. Len(s) : s[k] = "unlock"
<1>1. Len(<<>>) = 0
  BY EmptySeq
<1>2. Idle.todo = <<>> /\ Idle.onFail = <<>> /\ Idle.token = None
  BY DEF Idle
<1>3. Idle \in Flow
  BY EmptySeq DEF Flow, Idle
<1>4. InOrder(<<>>)
  BY <1>1 DEF InOrder
<1>5. <<>> # <<"unlock">>
  OBVIOUS
<1>6. Sound(Idle)
  BY <1>1, <1>2, <1>4, <1>5 DEF Sound
<1>7. Len(<<"unlock">>) = 1 /\ <<"unlock">>[1] = "unlock"
  OBVIOUS
<1>8. ASSUME NEW s, s = <<"unlock">> PROVE \E k \in 1 .. Len(s) : s[k] = "unlock"
  BY <1>7, <1>8
<1>. QED
  BY <1>1, <1>2, <1>3, <1>6, <1>8

\* What a flow does next after its first step.
LEMMA ThenSound ==
    ASSUME NEW f \in Flows, flow[f] \in Flow, Sound(flow[f]),
           flow[f].todo # <<>>, Head(flow[f].todo) # "unlock",
           NEW a, Follows(flow[f].todo, a),
           (\E k \in 1 .. Len(a) : a[k] \in Syncing) => flow[f].user \in Users
    PROVE  /\ Then(f, a) \in Flow /\ Sound(Then(f, a))
           /\ Then(f, a).todo = a \o Tail(flow[f].todo)
           /\ Keeps(f, Then(f, a))
           /\ Then(f, a).token \in {None, flow[f].token}
           /\ Then(f, a).todo # <<>> =>
                Then(f, a).token = flow[f].token /\ Then(f, a).user = flow[f].user
<1>. DEFINE x == flow[f]
            s == x.todo
            t == a \o Tail(s)
<1>1. s \in Seq(Steps) /\ s # <<>> /\ InOrder(s) /\ a \in Seq(Steps) /\ Len(a) \in Nat
  BY LenProperties DEF Flow, Sound, Follows
<1>2. /\ t \in Seq(Steps) /\ InOrder(t)
      /\ (\E k \in 1 .. Len(t) : t[k] = "unlock") <=> \E k \in 1 .. Len(s) : s[k] = "unlock"
  BY <1>1, Splice, SpliceInOrder
<1>3. Idle \in Flow /\ Sound(Idle) /\ Idle.todo = <<>> /\ Idle.token = None /\ Len(<<>>) = 0
  BY Ends
<1>4. CASE t = <<>>
  <2>1. Then(f, a) = Idle
    BY <1>4 DEF Then
  <2>2. Len(t) = 0
    BY <1>3, <1>4
  <2>3. ~Holds(f)
    BY <1>2, <2>2 DEF Holds
  <2>4. \A k \in 1 .. Len(Idle.todo) : FALSE
    BY <1>3
  <2>. QED
    BY <1>3, <1>4, <2>1, <2>3, <2>4, Zenon DEF Keeps
<1>5. CASE t # <<>>
  <2>. DEFINE y == [x EXCEPT !.todo = t, !.saw = None]
  <2>1. Then(f, a) = y
    BY <1>5 DEF Then
  <2>2. /\ y \in Flow /\ y.todo = t /\ y.onFail = x.onFail /\ y.token = x.token /\ y.user = x.user
    BY <1>2 DEF Flow
  <2>3. x.todo # <<"unlock">>
    OBVIOUS
  <2>4. (\E k \in 1 .. Len(s) : s[k] = "unlock") <=> x.onFail = <<"unlock">>
    BY <2>3 DEF Sound
  <2>5. t = <<"unlock">> => \E k \in 1 .. Len(t) : t[k] = "unlock"
    BY Ends
  <2>6. (\E k \in 1 .. Len(t) : t[k] \in Syncing) => x.user \in Users
    <3>1. SUFFICES ASSUME NEW k \in 1 .. Len(t), t[k] \in Syncing PROVE x.user \in Users
      OBVIOUS
    <3>2. \/ k \in 1 .. Len(a) /\ t[k] = a[k]
          \/ k - Len(a) + 1 \in 1 .. Len(s) /\ t[k] = s[k - Len(a) + 1]
      BY <1>1, Splice, LenProperties
    <3>3. CASE k \in 1 .. Len(a) /\ t[k] = a[k]
      BY <3>1, <3>3
    <3>4. CASE k - Len(a) + 1 \in 1 .. Len(s) /\ t[k] = s[k - Len(a) + 1]
      BY <3>1, <3>4 DEF Sound
    <3>. QED
      BY <3>2, <3>3, <3>4
  <2>7. Sound(y)
    BY <1>2, <2>2, <2>4, <2>5, <2>6 DEF Sound
  <2>8. Holds(f) <=> \E k \in 1 .. Len(t) : t[k] = "unlock"
    BY <1>2 DEF Holds
  <2>. QED
    BY <2>1, <2>2, <2>7, <2>8 DEF Keeps
<1>. QED
  BY <1>4, <1>5

\* The step that is next.
LEMMA NextStep ==
    ASSUME NEW s \in Seq(Steps), s # <<>>, InOrder(s), NEW a \in Seq(Steps)
    PROVE  /\ a # <<>> => a \o Tail(s) # <<>> /\ Head(a \o Tail(s)) = a[1]
           /\ a = <<>> /\ a \o Tail(s) # <<>> =>
                /\ Head(a \o Tail(s)) \in Later
                /\ Head(a \o Tail(s)) = "clear user" => Head(s) = "clear token"
<1>. DEFINE t == a \o Tail(s)
<1>1. Len(a) \in Nat /\ Len(s) \in Nat /\ Len(s) >= 1 /\ (a # <<>> => Len(a) >= 1)
  BY LenProperties, EmptySeq
<1>2. /\ t \in Seq(Steps) /\ Len(t) = Len(a) + Len(s) - 1
      /\ \A k \in 1 .. Len(t) : t[k] = IF k <= Len(a) THEN a[k] ELSE s[k - Len(a) + 1]
  BY Splice
<1>3. t # <<>> => Len(t) >= 1 /\ Head(t) = t[1]
  BY <1>2, EmptySeq
<1>4. ASSUME a # <<>> PROVE t # <<>> /\ Head(t) = a[1]
  <2>1. Len(t) >= 1 /\ t[1] = a[1]
    BY <1>1, <1>2, <1>4
  <2>2. t # <<>>
    BY <2>1, EmptySeq
  <2>. QED
    BY <1>3, <1>4, <2>1, <2>2
<1>5. ASSUME a = <<>>, t # <<>>
      PROVE  Head(t) \in Later /\ (Head(t) = "clear user" => Head(s) = "clear token")
  <2>1. Len(a) = 0
    BY <1>5, EmptySeq
  <2>2. t[1] = s[2] /\ 2 \in 2 .. Len(s)
    BY <1>1, <1>2, <1>3, <1>5, <2>1
  <2>3. s[2] \in Later /\ (s[2] = "clear user" => s[1] = "clear token")
    BY <2>2 DEF InOrder
  <2>4. Head(s) = s[1] /\ Head(t) = s[2]
    BY <1>3, <1>5, <2>2
  <2>. QED
    BY <2>3, <2>4
<1>. QED
  BY <1>4, <1>5

Obliging == {"sync user", "write token", "write user", "clear user"}

\* The flow g either goes on to a step that promises nothing, or is where it was.
Idles(g) ==
    \/ (flow'[g].todo # <<>> => Head(flow'[g].todo) \notin Obliging) /\ ~At(g, "write user")
    \/ /\ flow'[g].todo = flow[g].todo
       /\ flow'[g].token = flow[g].token /\ flow'[g].user = flow[g].user

\* Such flows leave the files as they should be.
LEMMA FilesKept ==
    ASSUME \A g \in Flows : Idles(g), FilesInv,
           UNCHANGED <<config, sidecar, minted>>, races \subseteq races'
    PROVE  FilesInv'
<1>. SUFFICES ASSUME Files PROVE Files'
  BY DEF FilesInv
<1>1. \A g \in Flows, step \in Obliging : At(g, step)' =>
          At(g, step) /\ flow'[g].token = flow[g].token /\ flow'[g].user = flow[g].user
  BY DEF Idles, At
<1>2. \A g \in Flows : At(g, "write user")' <=> At(g, "write user")
  BY DEF Idles, At, Obliging
<1>3. \A g \in Flows : At(g, "sync user")' => flow'[g].token = config'
  BY <1>1 DEF Obliging, Files
<1>4. \A g \in Flows : At(g, "write token")' =>
          /\ flow'[g].token # None
          /\ minted'[flow'[g].token] = flow'[g].user \/ \E h \in Flows \ {g} : At(h, "write user")'
  BY <1>1, <1>2 DEF Obliging, Files
<1>5. \A g \in Flows : At(g, "write user")' =>
          config' # None /\ config' = flow'[g].token /\ minted'[config'] = flow'[g].user
  BY <1>1 DEF Obliging, Files
<1>6. \A g \in Flows : At(g, "clear user")' => config' = None
  BY <1>1 DEF Obliging, Files
<1>7. (\A g \in Flows : ~At(g, "write user")') =>
          (config' # None /\ sidecar' # None => minted'[config'] = sidecar')
  BY <1>2 DEF Files
<1>. QED
  BY <1>3, <1>4, <1>5, <1>6, <1>7 DEF Files

\* The flow f becomes x, and keeps the guard if it has it.
Becomes(f, x) ==
    /\ x \in Flow /\ Sound(x)
    /\ flow' = [flow EXCEPT ![f] = x]
    /\ Keeps(f, x)

\* Then the flows and the guard are as they should be.
LEMMA FlowsKept ==
    ASSUME IInv, NEW f \in Flows, NEW x, Becomes(f, x), guard' = guard
    PROVE  /\ flow' \in [Flows -> Flow] /\ flow'[f] = x
           /\ \A g \in Flows \ {f} : flow'[g] = flow[g]
           /\ FlowInv' /\ GuardHasOneHolder'
<1>1. flow \in [Flows -> Flow]
  BY DEF IInv, TypeOK
<1>2. /\ flow' \in [Flows -> Flow] /\ flow'[f] = x
      /\ \A g \in Flows \ {f} : flow'[g] = flow[g]
  BY <1>1 DEF Becomes
<1>3. FlowInv'
  BY <1>2 DEF IInv, FlowInv, Becomes
<1>4. \A g \in Flows : Holds(g)' <=> Holds(g)
  BY <1>2 DEF Holds, Becomes, Keeps
<1>5. GuardHasOneHolder'
  BY <1>4 DEF IInv, GuardHasOneHolder
<1>. QED
  BY <1>2, <1>3, <1>5

\* The indices of no step, and of one.
LEMMA Indices ==
    /\ \A k \in 1 .. 0 : FALSE
    /\ \A k \in 2 .. 1 : FALSE
    /\ 1 \in 1 .. 1 /\ \A k \in 1 .. 1 : k = 1
    /\ 1 <= 2 /\ 2 <= 2 /\ 1 # 2
    /\ \A n \in Nat : \A k \in 2 .. n : 1 \in 1 .. (k - 1)
  OBVIOUS

\* A sequence of one step.
LEMMA Single ==
    ASSUME NEW b
    PROVE  /\ Len(<<b>>) = 1 /\ <<b>>[1] = b /\ Head(<<b>>) = b /\ <<b>> # <<>>
           /\ \A k \in 1 .. Len(<<b>>) : k = 1 /\ <<b>>[k] = b
<1>1. Len(<<b>>) = 1
  OBVIOUS
<1>2. <<b>>[1] = b
  OBVIOUS
<1>3. Head(<<b>>) = b
  OBVIOUS
<1>4. <<b>> # <<>>
  BY <1>1, EmptySeq
<1>5. \A k \in 1 .. Len(<<b>>) : k = 1
  BY <1>1
<1>6. \A k \in 1 .. Len(<<b>>) : <<b>>[k] = b
  BY <1>2, <1>5, Zenon
<1>. QED
  BY <1>1, <1>2, <1>3, <1>4, <1>5, <1>6, Zenon

\* What the actions put in the place of a step.
LEMMA FollowsNone == ASSUME NEW s PROVE Follows(s, <<>>)
  BY EmptySeq DEF Follows

\* A step that may take the place of another.
LEMMA FollowsOne ==
    ASSUME NEW s, Head(s) \notin Clearing, NEW b \in Steps \ Final, b # "sync"
    PROVE  Follows(s, <<b>>) /\ <<b>> # <<>> /\ <<b>>[1] = b /\ \A k \in 1 .. Len(<<b>>) : <<b>>[k] = b
<1>1. <<b>> \in Seq(Steps)
  OBVIOUS
<1>2. /\ Len(<<b>>) = 1 /\ <<b>>[1] = b /\ <<b>> # <<>>
      /\ \A k \in 1 .. Len(<<b>>) : <<b>>[k] = b
  BY Single, Zenon
<1>3. Len(<<b>>) <= 2 /\ Len(<<b>>) # 2
  BY <1>2
<1>4. Head(s) # "clear token"
  BY DEF Clearing
<1>5. \A k \in 1 .. Len(<<b>>) : <<b>>[k] \notin Final /\ <<b>>[k] # "sync"
  BY <1>2, Zenon
<1>6. Follows(s, <<b>>)
  BY <1>1, <1>3, <1>4, <1>5, Zenon DEF Follows
<1>. QED
  BY <1>2, <1>6, Zenon

\* A restart may take the place of a step.
LEMMA FollowsRestart ==
    ASSUME NEW s, Head(s) \notin Clearing
    PROVE  Follows(s, Restart) /\ Restart # <<>> /\ Restart[1] = "stop"
           /\ \A k \in 1 .. Len(Restart) : Restart[k] \notin Syncing
<1>1. Len(Restart) = 2 /\ Restart[1] = "stop" /\ Restart[2] = "start"
  BY DEF Restart
<1>2. Restart \in Seq(Steps)
  BY DEF Restart, Steps
<1>3. \A k \in 1 .. Len(Restart) : Restart[k] \in {"stop", "start"}
  BY <1>1
<1>4. \A k \in 1 .. Len(Restart) :
          Restart[k] \notin Final /\ Restart[k] # "sync" /\ Restart[k] \notin Syncing
  BY <1>3 DEF Syncing, Final, GuardedSteps
<1>5. Restart # <<>> /\ Len(Restart) <= 2
  BY <1>1, EmptySeq
<1>6. Restart[2] \in Later /\ Restart[2] # "clear user"
  BY <1>1 DEF Later
<1>7. Head(s) # "clear token"
  BY DEF Clearing
<1>8. Follows(s, Restart)
  BY <1>2, <1>4, <1>5, <1>6, <1>7, Zenon DEF Follows
<1>. QED
  BY <1>1, <1>4, <1>5, <1>8, Zenon

\* Everything but the types.
Invs == TokenInv /\ FlowInv /\ GuardHasOneHolder /\ FilesInv

\* A flow that becomes x, while the files stay, and has nothing to write next.
LEMMA Quietly ==
    ASSUME IInv, NEW f \in Flows, NEW x, Becomes(f, x), guard' = guard,
           x.todo # <<>> => Head(x.todo) \notin Obliging,
           x.token \in {None, flow[f].token, config}, ~At(f, "write user"),
           UNCHANGED <<config, sidecar, minted>>, races \subseteq races'
    PROVE  flow' \in [Flows -> Flow] /\ Invs'
<1>1. /\ flow' \in [Flows -> Flow] /\ flow'[f] = x
      /\ \A g \in Flows \ {f} : flow'[g] = flow[g]
      /\ FlowInv' /\ GuardHasOneHolder'
  BY FlowsKept
<1>2. \A g \in Flows : Idles(g)
  BY <1>1 DEF Idles
<1>3. FilesInv'
  BY <1>2, FilesKept DEF IInv
<1>4. TokenInv'
  BY <1>1 DEF IInv, TokenInv, Known
<1>. QED
  BY <1>1, <1>3, <1>4 DEF Invs

\* A step that is not one of writing, and those that come after it.
LEMMA GoesQuietly ==
    ASSUME IInv, NEW f \in Flows, NEW step, At(f, step),
           step \notin {"unlock", "write user", "clear token"},
           NEW a, Follows(flow[f].todo, a), a # <<>> => a[1] \notin Obliging,
           \A k \in 1 .. Len(a) : a[k] \notin Syncing,
           Goes(f, a), guard' = guard,
           UNCHANGED <<config, sidecar, minted>>, races \subseteq races'
    PROVE  flow' \in [Flows -> Flow] /\ Invs'
<1>. DEFINE x == Then(f, a)
            s == flow[f].todo
<1>1. flow[f] \in Flow /\ Sound(flow[f]) /\ s \in Seq(Steps) /\ s # <<>> /\ Head(s) = step
      /\ InOrder(s) /\ a \in Seq(Steps)
  BY DEF IInv, TypeOK, FlowInv, At, Flow, Sound, Follows
<1>2. /\ x \in Flow /\ Sound(x) /\ x.todo = a \o Tail(s)
      /\ Keeps(f, x)
      /\ x.token \in {None, flow[f].token}
  BY <1>1, ThenSound
<1>3. Becomes(f, x)
  BY <1>2 DEF Becomes, Goes
<1>4. x.todo # <<>> => Head(x.todo) \notin Obliging
  <2>1. a # <<>> => Head(a \o Tail(s)) = a[1]
    BY <1>1, NextStep
  <2>2. a = <<>> /\ a \o Tail(s) # <<>> =>
            Head(a \o Tail(s)) \in Later /\ Head(a \o Tail(s)) # "clear user"
    BY <1>1, NextStep
  <2>3. \A b \in Later : b # "clear user" => b \notin Obliging
    BY DEF Later, Obliging
  <2>. HIDE DEF x, s
  <2>. QED
    BY <1>2, <2>1, <2>2, <2>3
<1>5. ~At(f, "write user")
  BY <1>1 DEF At
<1>. QED
  BY <1>2, <1>3, <1>4, <1>5, Quietly

\* A step that fails.
LEMMA FailsQuietly ==
    ASSUME IInv, NEW f \in Flows, NEW step, At(f, step), step # "unlock",
           Fails(f), guard' = guard, UNCHANGED <<config, sidecar, minted>>, races \subseteq races',
           step = "write user" => "half written" \in races'
    PROVE  flow' \in [Flows -> Flow] /\ Invs'
<1>. DEFINE x == Failed(f)
            s == flow[f].onFail
<1>1. flow[f] \in Flow /\ Sound(flow[f]) /\ flow[f].todo # <<"unlock">>
      /\ s \in {<<>>, <<"unlock">>, <<"guarded stop">>}
  <2>1. flow[f] \in Flow /\ Sound(flow[f])
    BY DEF IInv, TypeOK, FlowInv
  <2>2. flow[f].todo # <<"unlock">>
    BY Single DEF At
  <2>. QED
    BY <2>1, <2>2 DEF Sound
<1>2. Holds(f) <=> s = <<"unlock">>
  BY <1>1 DEF Holds, Sound
<1>3. /\ s = <<>> => x = Idle
      /\ s # <<>> => x \in Flow /\ x.todo = s /\ x.onFail = <<>> /\ x.token = None
  <2>1. s # <<>> => x = [Idle EXCEPT !.todo = s]
    BY DEF Failed
  <2>2. s \in Seq(Steps)
    BY <1>1 DEF Flow
  <2>3. Idle \in Flow /\ Idle.onFail = <<>> /\ Idle.token = None
    BY Ends DEF Idle
  <2>. QED
    BY <2>1, <2>2, <2>3 DEF Failed, Flow
<1>4. ASSUME NEW b \in {"unlock", "guarded stop"}, s = <<b>>
      PROVE  /\ Sound(x) /\ Head(x.todo) = b
             /\ (\E k \in 1 .. Len(x.todo) : x.todo[k] = "unlock") <=> b = "unlock"
  <2>1. x.todo = <<b>> /\ x.onFail = <<>>
    BY <1>3, <1>4, Single, Zenon
  <2>2. /\ Len(x.todo) = 1 /\ x.todo[1] = b /\ Head(x.todo) = b
        /\ \A k \in 1 .. Len(x.todo) : k = 1 /\ x.todo[k] = b
    BY <2>1, Single, Zenon
  <2>. HIDE DEF x
  <2>3. InOrder(x.todo)
    <3>1. Len(x.todo) = 1
      BY <2>2
    <3>2. (\A k \in 2 .. Len(x.todo) : FALSE) /\ \A k \in 1 .. Len(x.todo) : k = Len(x.todo)
      BY <3>1, Indices, Zenon
    <3>. QED
      BY <3>2, Zenon DEF InOrder
  <2>4. (\E k \in 1 .. Len(x.todo) : x.todo[k] = "unlock") <=> b = "unlock"
    <3>1. Len(x.todo) = 1
      BY <2>2
    <3>2. 1 \in 1 .. Len(x.todo)
      BY <3>1, Indices, Zenon
    <3>. QED
      BY <2>2, <3>2, Zenon
  <2>5. ~\E k \in 1 .. Len(x.todo) : x.todo[k] \in Syncing
    BY <2>2, <1>4 DEF Syncing
  <2>6. x.onFail # <<"unlock">> /\ (x.todo = <<"unlock">> <=> b = "unlock")
    <3>1. <<>> # <<"unlock">>
      OBVIOUS
    <3>2. b # "unlock" => <<b>> # <<"unlock">>
      OBVIOUS
    <3>. QED
      BY <2>1, <3>1, <3>2
  <2>7. Sound(x)
    BY <2>1, <2>3, <2>4, <2>5, <2>6 DEF Sound
  <2>. QED
    BY <2>2, <2>4, <2>7
<1>5. x \in Flow /\ Sound(x) /\ (x.todo # <<>> => Head(x.todo) \in {"unlock", "guarded stop"})
      /\ Keeps(f, x)
      /\ x.token = None
  <2>. HIDE DEF x, s
  <2>1. CASE s = <<>>
    <3>1. x = Idle /\ x.todo = <<>>
      BY <2>1, <1>3, Ends, Zenon
    <3>2. Len(<<>>) = 0
      BY Ends
    <3>3. \A k \in 1 .. Len(<<>>) : FALSE
      BY <3>2, Indices, Zenon
    <3>4. <<"unlock">> # <<>>
      OBVIOUS
    <3>. QED
      BY <2>1, <3>1, <3>3, <3>4, <1>2, Ends, Zenon DEF Keeps
  <2>2. CASE s = <<"unlock">>
    BY <2>2, <1>2, <1>3, <1>4, Single, Zenon DEF Keeps
  <2>3. CASE s = <<"guarded stop">>
    <3>1. <<"guarded stop">> # <<"unlock">>
      OBVIOUS
    <3>. QED
      BY <2>3, <3>1, <1>2, <1>3, <1>4, Single, Zenon DEF Keeps
  <2>. QED
    BY <1>1, <2>1, <2>2, <2>3 DEF s
<1>6. Becomes(f, x)
  BY <1>5 DEF Becomes, Fails
<1>7. x.todo # <<>> => Head(x.todo) \notin Obliging
  BY <1>5 DEF Obliging
<1>8. CASE step = "write user"
  <2>1. FilesInv'
    BY <1>8 DEF FilesInv
  <2>2. /\ flow' \in [Flows -> Flow] /\ flow'[f] = x
        /\ \A g \in Flows \ {f} : flow'[g] = flow[g]
        /\ FlowInv' /\ GuardHasOneHolder'
    BY <1>6, FlowsKept
  <2>3. TokenInv'
    BY <2>2, <1>5 DEF IInv, TokenInv, Known
  <2>. QED
    BY <2>1, <2>2, <2>3 DEF Invs
<1>9. CASE step # "write user"
  <2>1. ~At(f, "write user")
    BY <1>9 DEF At
  <2>. QED
    BY <1>5, <1>6, <1>7, <2>1, Quietly
<1>. QED
  BY <1>8, <1>9

\* What a handler or a timer begins with.
Opening(a, onFail, u) ==
    /\ a \in Seq(Steps) /\ a # <<>> /\ a # <<"unlock">> /\ InOrder(a)
    /\ Head(a) \notin Obliging
    /\ \A k \in 1 .. Len(a) : a[k] # "unlock"
    /\ onFail \in {<<>>, <<"guarded stop">>}
    /\ u \in Users \cup {None}
    /\ (\E k \in 1 .. Len(a) : a[k] \in Syncing) => u \in Users

\* A flow that begins keeps the invariant of flows, guard and files.
LEMMA BeginsQuietly ==
    ASSUME IInv, NEW f \in Flows, NEW a, NEW onFail, NEW u, Opening(a, onFail, u),
           Begins(f, a, onFail, u), guard' = guard,
           UNCHANGED <<config, sidecar, minted>>, races \subseteq races'
    PROVE  flow' \in [Flows -> Flow] /\ Invs'
<1>. DEFINE x == [Idle EXCEPT !.todo = a, !.onFail = onFail, !.user = u]
<1>1. flow[f] \in Flow /\ flow[f].todo = <<>>
  BY DEF IInv, TypeOK, Begins, Free
<1>2. onFail \in Seq(Steps) /\ onFail # <<"unlock">>
  <2>1. <<"guarded stop">> \in Seq(Steps)
    BY DEF Steps, GuardedSteps
  <2>2. <<>> \in Seq(Steps)
    BY EmptySeq
  <2>3. <<>> # <<"unlock">> /\ <<"guarded stop">> # <<"unlock">>
    OBVIOUS
  <2>4. onFail \in {<<>>, <<"guarded stop">>}
    BY DEF Opening
  <2>. QED
    BY <2>1, <2>2, <2>3, <2>4, Zenon
<1>3. /\ x \in Flow /\ x.todo = a /\ x.onFail = onFail /\ x.user = u /\ x.token = None
  BY <1>2, Ends DEF Flow, Opening, Idle
<1>. HIDE DEF x
<1>4. Sound(x)
  BY <1>2, <1>3 DEF Sound, Opening
<1>5. ~Holds(f)
  BY <1>1, Ends, Indices, Zenon DEF Holds
<1>6. Becomes(f, x)
  BY <1>3, <1>4, <1>5 DEF Becomes, Begins, Opening, x, Keeps
<1>7. ~At(f, "write user")
  BY <1>1 DEF At
<1>8. x.todo # <<>> => Head(x.todo) \notin Obliging
  BY <1>3 DEF Opening
<1>. QED
  BY <1>3, <1>6, <1>7, <1>8, Quietly

\* The indices of two steps.
LEMMA Pairs ==
    ASSUME NEW b, NEW c
    PROVE  /\ Len(<<b, c>>) = 2 /\ <<b, c>>[1] = b /\ <<b, c>>[2] = c /\ Head(<<b, c>>) = b
           /\ <<b, c>> # <<>> /\ \A d : <<b, c>> # <<d>>
           /\ \A k \in 1 .. 2 : k = 1 \/ k = 2
           /\ \A k \in 2 .. 2 : k = 2
           /\ \A k \in 1 .. (2 - 1) : k = 1
<1>1. Len(<<b, c>>) = 2
  OBVIOUS
<1>2. <<b, c>>[1] = b
  OBVIOUS
<1>3. <<b, c>>[2] = c
  OBVIOUS
<1>4. Head(<<b, c>>) = b
  OBVIOUS
<1>5. <<b, c>> # <<>>
  BY <1>1, EmptySeq
<1>6. ASSUME NEW d PROVE <<b, c>> # <<d>>
  <2>1. Len(<<d>>) = 1
    OBVIOUS
  <2>. QED
    BY <1>1, <2>1
<1>7. \A k \in 1 .. 2 : k = 1 \/ k = 2
  OBVIOUS
<1>8. \A k \in 2 .. 2 : k = 2
  OBVIOUS
<1>9. \A k \in 1 .. (2 - 1) : k = 1
  OBVIOUS
<1>. QED
  BY <1>1, <1>2, <1>3, <1>4, <1>5, <1>6, <1>7, <1>8, <1>9, Zenon

\* One step to begin with.
LEMMA OpeningOne ==
    ASSUME NEW b \in Steps, b \notin Obliging, b # "unlock", b \notin Syncing
    PROVE  Opening(<<b>>, <<>>, None)
<1>1. <<b>> \in Seq(Steps)
  OBVIOUS
<1>2. /\ Len(<<b>>) = 1 /\ Head(<<b>>) = b /\ <<b>> # <<>> /\ <<b>>[1] = b
      /\ \A k \in 1 .. Len(<<b>>) : <<b>>[k] = b
  BY Single, Zenon
<1>3. InOrder(<<b>>)
  BY <1>2, Indices, Zenon DEF InOrder
<1>4. <<b>> # <<"unlock">>
  BY <1>2, Single
<1>5. \A k \in 1 .. Len(<<b>>) : <<b>>[k] # "unlock" /\ <<b>>[k] \notin Syncing
  BY <1>2, Zenon
<1>. QED
  BY <1>1, <1>2, <1>3, <1>4, <1>5, Zenon DEF Opening

\* A login syncs the credentials and then starts the daemon.
LEMMA OpeningLogin == ASSUME NEW u \in Users PROVE Opening(<<"sync", "auto start">>, <<>>, u)
<1>. DEFINE a == <<"sync", "auto start">>
<1>1. a \in Seq(Steps)
  BY DEF Steps, Credentials
<1>2. /\ Len(a) = 2 /\ a[1] = "sync" /\ a[2] = "auto start" /\ Head(a) = "sync" /\ a # <<>>
      /\ a # <<"unlock">>
  BY Pairs, Zenon
<1>. HIDE DEF a
<1>3. /\ \A k \in 1 .. Len(a) : k = 1 \/ k = 2
      /\ \A k \in 2 .. Len(a) : k = 2
  BY <1>2, Pairs, Zenon
<1>4. a[1] \notin Final /\ a[1] # "unlock" /\ a[2] # "unlock"
      /\ a[2] # "clear user" /\ a[2] # "sync" /\ a[2] \in Later /\ Head(a) \notin Obliging
  BY <1>2 DEF Later, Obliging, Final, GuardedSteps
<1>5. InOrder(a)
  BY <1>2, <1>3, <1>4, Zenon DEF InOrder
<1>6. \A k \in 1 .. Len(a) : a[k] # "unlock"
  BY <1>3, <1>4, Zenon
<1>. QED
  BY <1>1, <1>2, <1>4, <1>5, <1>6, Zenon DEF Opening, a

\* A logout clears the credentials and then stops the daemon.
LEMMA OpeningLogout == Opening(<<"clear", "guarded stop">>, <<"guarded stop">>, None)
<1>. DEFINE a == <<"clear", "guarded stop">>
<1>1. a \in Seq(Steps)
  BY DEF Steps, Credentials, GuardedSteps
<1>2. /\ Len(a) = 2 /\ a[1] = "clear" /\ a[2] = "guarded stop" /\ Head(a) = "clear" /\ a # <<>>
      /\ a # <<"unlock">>
  BY Pairs, Zenon
<1>. HIDE DEF a
<1>3. /\ \A k \in 1 .. Len(a) : k = 1 \/ k = 2
      /\ \A k \in 2 .. Len(a) : k = 2
  BY <1>2, Pairs, Zenon
<1>4. a[1] \notin Final /\ a[1] # "unlock" /\ a[2] # "unlock"
      /\ a[2] # "clear user" /\ a[2] # "sync" /\ a[2] \in Later /\ Head(a) \notin Obliging
      /\ a[1] \notin Syncing /\ a[2] \notin Syncing
  BY <1>2 DEF Later, Obliging, Syncing, Final, GuardedSteps
<1>5. InOrder(a)
  BY <1>2, <1>3, <1>4, Zenon DEF InOrder
<1>6. \A k \in 1 .. Len(a) : a[k] # "unlock" /\ a[k] \notin Syncing
  BY <1>3, <1>4, Zenon
<1>. QED
  BY <1>1, <1>2, <1>4, <1>5, <1>6, Zenon DEF Opening, a

\* A second login replaces the credentials and then the daemon.
LEMMA OpeningReauthenticate ==
    ASSUME NEW u \in Users PROVE Opening(<<"clear", "sync", "stop", "start">>, <<>>, u)
<1>. DEFINE a == <<"clear", "sync", "stop", "start">>
<1>1. a \in Seq(Steps)
  BY DEF Steps, Credentials
<1>2. Len(a) = 4 /\ a[1] = "clear" /\ a[2] = "sync" /\ a[3] = "stop" /\ a[4] = "start" /\ Head(a) = "clear"
  OBVIOUS
<1>3. a # <<>> /\ a # <<"unlock">>
  <2>1. Len(<<>>) = 0 /\ Len(<<"unlock">>) = 1
    BY EmptySeq, Single
  <2>. QED
    BY <1>2, <2>1
<1>. HIDE DEF a
<1>4. /\ \A k \in 1 .. 4 : k \in {1, 2, 3, 4}
      /\ \A k \in 2 .. 4 : k \in {2, 3, 4}
      /\ \A k \in 1 .. (2 - 1) : k = 1
  OBVIOUS
<1>5. /\ \A k \in {1, 2, 3, 4} : a[k] \notin Final /\ a[k] # "unlock"
      /\ \A k \in {2, 3, 4} : a[k] \in Later /\ a[k] # "clear user" /\ (a[k] = "sync" => k = 2)
      /\ a[1] \in Clearing /\ Head(a) \notin Obliging
  BY <1>2 DEF Later, Clearing, Obliging, Final, GuardedSteps
<1>6. InOrder(a)
  BY <1>2, <1>4, <1>5, Zenon DEF InOrder
<1>7. \A k \in 1 .. Len(a) : a[k] # "unlock"
  BY <1>2, <1>4, <1>5, Zenon
<1>. QED
  BY <1>1, <1>3, <1>5, <1>6, <1>7, Zenon DEF Opening, a

-----------------------------------------------------------------------------
(* The actions                                                             *)

\* The types of all but the flows.
Rest ==
    /\ state \in States /\ guard \in BOOLEAN /\ pending \in BOOLEAN /\ probe \in Probe
    /\ config \in Tokens \cup {None} /\ sidecar \in Users \cup {None}
    /\ daemon \in Process
    /\ session \in Users \cup {None, LoggedOut}
    /\ minted \in Seq(Users) /\ Len(minted) <= MaxMints /\ dead \subseteq Tokens
    /\ races \subseteq Races
    /\ moves \in 0 .. MaxMoves

\* The invariant, taken apart and put together.
LEMMA Together ==
    /\ IInv => Rest /\ flow \in [Flows -> Flow] /\ Invs
    /\ Rest' /\ flow' \in [Flows -> Flow] /\ Invs' => IInv'
  BY DEF IInv, Invs, TypeOK, Rest

\* A race that is noted.
LEMMA Noted ==
    ASSUME races \subseteq Races, NEW c \in BOOLEAN, NEW r \in Races, Note(If(c, r))
    PROVE  races' \subseteq Races /\ races \subseteq races'
  BY DEF Note, If

\* A move of the environment.
LEMMA Moved == ASSUME moves \in 0 .. MaxMoves, Move PROVE moves' \in 0 .. MaxMoves
  BY BoundsAssumption DEF Move

\* AskHealth keeps the invariant.
LEMMA StepAskHealth ==
    ASSUME IInv, NEW f \in Flows, AskHealth(f) PROVE IInv'
<1>. DEFINE x == [flow[f] EXCEPT !.saw = Answer(f)]
<1>1. flow[f] \in Flow /\ Sound(flow[f]) /\ Rest
  BY Together DEF IInv, FlowInv
<1>2. Answer(f) \in Health
  BY <1>1 DEF Answer, Health, Rest, Process, Serving
<1>3. /\ x \in Flow /\ x.todo = flow[f].todo /\ x.onFail = flow[f].onFail
      /\ x.user = flow[f].user /\ x.token = flow[f].token
  BY <1>1, <1>2 DEF Flow
<1>4. flow' = [flow EXCEPT ![f] = x]
  BY DEF AskHealth
<1>. HIDE DEF x
<1>5. Becomes(f, x)
  BY <1>1, <1>3, <1>4 DEF Becomes, Sound, Holds, Keeps
<1>6. /\ flow' \in [Flows -> Flow] /\ flow'[f] = x
      /\ \A g \in Flows \ {f} : flow'[g] = flow[g]
      /\ FlowInv' /\ GuardHasOneHolder'
  BY <1>5, FlowsKept DEF AskHealth, manager
<1>7. \A g \in Flows : Idles(g)
  BY <1>3, <1>6 DEF Idles
<1>8. races' \subseteq Races /\ races \subseteq races'
  BY <1>1, Noted DEF AskHealth, Rest, Races, At, ComingUp
<1>9. FilesInv'
  BY <1>7, <1>8, FilesKept DEF IInv, AskHealth, files, server
<1>10. TokenInv'
  BY <1>3, <1>6 DEF IInv, TokenInv, Known, AskHealth, files, server
<1>11. Rest'
  BY <1>1, <1>8 DEF Rest, AskHealth, manager, files, server
<1>. QED
  BY <1>6, <1>9, <1>10, <1>11, Together DEF Invs

\* What runs under the guard.
LEMMA Bodies ==
    ASSUME NEW op \in GuardedSteps, NEW a, a = Guarded(op)
    PROVE  /\ a \in Seq(Steps) /\ InOrder(a) /\ a # <<>> /\ Head(a) \notin Obliging
           /\ \E k \in 1 .. Len(a) : a[k] = "unlock"
           /\ \A k \in 1 .. Len(a) : a[k] \notin Syncing
<1>1. a \in {<<"start", "unlock">>, <<"stop", "unlock">>, <<"stop", "start", "unlock">>}
  BY DEF Guarded, GuardedSteps
<1>2. ASSUME NEW b \in {"start", "stop"}, a = <<b, "unlock">>
      PROVE  /\ a \in Seq(Steps) /\ InOrder(a) /\ a # <<>> /\ Head(a) \notin Obliging
             /\ \E k \in 1 .. Len(a) : a[k] = "unlock"
             /\ \A k \in 1 .. Len(a) : a[k] \notin Syncing
  <2>1. a \in Seq(Steps)
    <3>1. <<"start", "unlock">> \in Seq(Steps) /\ <<"stop", "unlock">> \in Seq(Steps)
      BY DEF Steps
    <3>. QED
      BY <1>2, <3>1, Zenon
  <2>2. Len(a) = 2 /\ a[1] = b /\ a[2] = "unlock" /\ Head(a) = b /\ a # <<>>
    <3>1. /\ Len(<<b, "unlock">>) = 2 /\ <<b, "unlock">>[1] = b /\ <<b, "unlock">>[2] = "unlock"
          /\ Head(<<b, "unlock">>) = b /\ <<b, "unlock">> # <<>>
      BY Pairs
    <3>. QED
      BY <1>2, <3>1
  <2>3. /\ \A k \in 1 .. Len(a) : k = 1 \/ k = 2
        /\ \A k \in 2 .. Len(a) : k = 2
    BY <2>2, Pairs, Zenon
  <2>4. 2 \in 1 .. 2
    OBVIOUS
  <2>5. a[1] \notin Final /\ a[2] # "clear user" /\ a[2] # "sync" /\ a[2] \in Later
        /\ Head(a) \notin Obliging /\ a[1] \notin Syncing /\ a[2] \notin Syncing
    BY <1>2, <2>2 DEF Later, Obliging, Syncing, Final, GuardedSteps
  <2>6. InOrder(a)
    BY <2>2, <2>3, <2>5, Zenon DEF InOrder
  <2>7. (\E k \in 1 .. Len(a) : a[k] = "unlock") /\ \A k \in 1 .. Len(a) : a[k] \notin Syncing
    BY <2>2, <2>3, <2>4, <2>5, Zenon
  <2>. QED
    BY <2>1, <2>2, <2>5, <2>6, <2>7
<1>3. ASSUME a = <<"stop", "start", "unlock">>
      PROVE  /\ a \in Seq(Steps) /\ InOrder(a) /\ a # <<>> /\ Head(a) \notin Obliging
             /\ \E k \in 1 .. Len(a) : a[k] = "unlock"
             /\ \A k \in 1 .. Len(a) : a[k] \notin Syncing
  <2>1. a \in Seq(Steps)
    BY <1>3 DEF Steps
  <2>2. Len(a) = 3 /\ a[1] = "stop" /\ a[2] = "start" /\ a[3] = "unlock" /\ Head(a) = "stop"
    BY <1>3
  <2>3. a # <<>>
    BY <2>2, EmptySeq
  <2>4. /\ \A k \in 1 .. 3 : k \in {1, 2, 3}
        /\ \A k \in 2 .. 3 : k \in {2, 3}
        /\ 3 \in 1 .. 3
    OBVIOUS
  <2>5. /\ \A k \in {1, 2, 3} : (a[k] \in Final => k = 3) /\ a[k] \notin Syncing
        /\ \A k \in {2, 3} : a[k] \in Later /\ a[k] # "clear user" /\ a[k] # "sync"
        /\ Head(a) \notin Obliging
    BY <2>2 DEF Later, Obliging, Syncing, Final, GuardedSteps
  <2>6. InOrder(a)
    BY <2>2, <2>4, <2>5, Zenon DEF InOrder
  <2>7. (\E k \in 1 .. Len(a) : a[k] = "unlock") /\ \A k \in 1 .. Len(a) : a[k] \notin Syncing
    BY <2>2, <2>4, <2>5, Zenon
  <2>. QED
    BY <2>1, <2>3, <2>5, <2>6, <2>7
<1>. QED
  BY <1>1, <1>2, <1>3, Zenon

\* The first step, and one that is the last.
LEMMA First ==
    ASSUME NEW s \in Seq(Steps), s # <<>>
    PROVE  /\ Head(s) = s[1] /\ Len(s) \in Nat /\ Len(s) >= 1 /\ 1 \in 1 .. Len(s)
           /\ InOrder(s) /\ Head(s) \in Final => Len(s) = 1 /\ <<>> \o Tail(s) = <<>>
<1>1. Head(s) = s[1] /\ Len(s) \in Nat /\ Len(s) >= 1
  BY LenProperties, EmptySeq
<1>2. 1 \in 1 .. Len(s)
  BY <1>1
<1>3. ASSUME InOrder(s), Head(s) \in Final PROVE Len(s) = 1 /\ <<>> \o Tail(s) = <<>>
  <2>1. Len(s) = 1
    BY <1>1, <1>2, <1>3 DEF InOrder
  <2>2. Tail(s) \in Seq(Steps) /\ Len(Tail(s)) = 0
    BY <2>1, HeadTailProperties
  <2>3. Tail(s) = <<>>
    BY <2>2, EmptySeq
  <2>. QED
    BY <2>1, <2>3
<1>. QED
  BY <1>1, <1>2, <1>3

\* The flow f takes or gives back the guard, which no other flow has.
LEMMA GuardMoves ==
    ASSUME IInv, NEW f \in Flows, NEW x, x \in Flow, Sound(x), flow' = [flow EXCEPT ![f] = x],
           \A g \in Flows \ {f} : ~Holds(g),
           guard' <=> \E k \in 1 .. Len(x.todo) : x.todo[k] = "unlock",
           x.todo # <<>> => Head(x.todo) \notin Obliging,
           x.token \in {None, flow[f].token}, ~At(f, "write user"),
           UNCHANGED <<config, sidecar, minted>>, races \subseteq races'
    PROVE  flow' \in [Flows -> Flow] /\ Invs'
<1>1. /\ flow' \in [Flows -> Flow] /\ flow'[f] = x
      /\ \A g \in Flows \ {f} : flow'[g] = flow[g]
  BY DEF IInv, TypeOK
<1>2. FlowInv'
  BY <1>1 DEF IInv, FlowInv
<1>3. Holds(f)' <=> guard'
  BY <1>1 DEF Holds
<1>4. \A g \in Flows \ {f} : ~Holds(g)'
  BY <1>1 DEF Holds
<1>5. GuardHasOneHolder'
  BY <1>3, <1>4, Zenon DEF GuardHasOneHolder
<1>6. \A g \in Flows : Idles(g)
  BY <1>1 DEF Idles
<1>7. FilesInv'
  BY <1>6, FilesKept DEF IInv
<1>8. TokenInv'
  BY <1>1 DEF IInv, TokenInv, Known
<1>. QED
  BY <1>1, <1>2, <1>5, <1>7, <1>8 DEF Invs

\* TakeGuard keeps the invariant.
LEMMA StepTakeGuard ==
    ASSUME IInv, NEW f \in Flows, TakeGuard(f) PROVE IInv'
<1>. DEFINE op == Head(flow[f].todo)
<1>1. op \in GuardedSteps /\ flow[f].todo # <<>>
  BY DEF TakeGuard, Free
<1>2. ~At(f, "write user")
  BY <1>1 DEF At, GuardedSteps
<1>3. flow[f] \in Flow /\ Sound(flow[f]) /\ Rest
  BY Together DEF IInv, FlowInv
<1>4. CASE guard
  <2>1. flow' = [flow EXCEPT ![f] = Idle] /\ guard' = guard /\ UNCHANGED <<config, sidecar, minted>>
    BY <1>4 DEF TakeGuard, files, server
  <2>2. races' \subseteq Races /\ races \subseteq races'
    BY <1>3, <1>4, Noted DEF TakeGuard, Rest, Races, At
  <2>3. ~Holds(f)
    <3>1. flow[f].todo \in Seq(Steps) /\ InOrder(flow[f].todo) /\ op \in Final /\ op # "unlock"
      BY <1>1, <1>3 DEF Sound, Final, Flow, GuardedSteps
    <3>2. Len(flow[f].todo) = 1 /\ flow[f].todo[1] = op
      BY <1>1, <3>1, First
    <3>. QED
      BY <3>1, <3>2, Indices, Zenon DEF Holds
  <2>4. \A k \in 1 .. Len(Idle.todo) : FALSE
    BY Ends, Indices, Zenon
  <2>5. Becomes(f, Idle)
    BY <2>1, <2>3, <2>4, Ends, Zenon DEF Becomes, Keeps
  <2>6. flow' \in [Flows -> Flow] /\ Invs'
    BY <1>2, <2>1, <2>2, <2>5, Ends, Quietly
  <2>7. Rest'
    BY <1>3, <1>4, <2>2 DEF Rest, TakeGuard, files, server
  <2>. QED
    BY <2>6, <2>7, Together
<1>5. CASE ~guard
  <2>. DEFINE a == Guarded(op)
              x == [Idle EXCEPT !.todo = a, !.onFail = <<"unlock">>]
  <2>1. /\ a \in Seq(Steps) /\ InOrder(a) /\ a # <<>> /\ Head(a) \notin Obliging
        /\ \E k \in 1 .. Len(a) : a[k] = "unlock"
        /\ \A k \in 1 .. Len(a) : a[k] \notin Syncing
    BY <1>1, Bodies
  <2>2. flow' = [flow EXCEPT ![f] = x] /\ guard' = TRUE /\ UNCHANGED <<config, sidecar, minted>>
        /\ races' = races
    BY <1>5 DEF TakeGuard, files, server
  <2>. HIDE DEF a
  <2>3. <<"unlock">> \in Seq(Steps)
    BY DEF Steps
  <2>4. x \in Flow /\ x.todo = a /\ x.onFail = <<"unlock">> /\ x.token = None
    BY <2>1, <2>3, Ends DEF Flow, Idle
  <2>. HIDE DEF x
  <2>5. Sound(x)
    BY <2>1, <2>4, Zenon DEF Sound
  <2>6. \A g \in Flows \ {f} : ~Holds(g)
    BY <1>5 DEF IInv, GuardHasOneHolder
  <2>7. flow' \in [Flows -> Flow] /\ Invs'
    BY <1>2, <2>1, <2>2, <2>4, <2>5, <2>6, GuardMoves
  <2>8. Rest'
    BY <1>3, <1>5 DEF Rest, TakeGuard, files, server
  <2>. QED
    BY <2>7, <2>8, Together
<1>. QED
  BY <1>4, <1>5

\* Unlock keeps the invariant.
LEMMA StepUnlock ==
    ASSUME IInv, NEW f \in Flows, Unlock(f) PROVE IInv'
<1>. DEFINE s == flow[f].todo
<1>1. flow[f] \in Flow /\ Sound(flow[f]) /\ Rest /\ s \in Seq(Steps)
  BY Together DEF IInv, FlowInv, Flow
<1>2. s # <<>> /\ Head(s) = "unlock" /\ ~At(f, "write user")
  BY DEF Unlock, At
<1>3. Len(s) = 1 /\ s[1] = "unlock"
  BY <1>1, <1>2, First DEF Sound, Final
<1>4. <<>> \o Tail(s) = <<>>
  BY <1>1, <1>2, First DEF Sound, Final
<1>5. flow' = [flow EXCEPT ![f] = Idle] /\ guard' = FALSE /\ UNCHANGED <<config, sidecar, minted>>
      /\ races' = races
  BY <1>4 DEF Unlock, Goes, Then, files, server
<1>6. Holds(f)
  BY <1>2, <1>3, Indices, Zenon DEF Holds
<1>7. \A g \in Flows \ {f} : ~Holds(g)
  BY <1>6 DEF IInv, GuardHasOneHolder
<1>8. \A k \in 1 .. Len(Idle.todo) : FALSE
  BY Ends, Indices, Zenon
<1>9. flow' \in [Flows -> Flow] /\ Invs'
  BY <1>2, <1>5, <1>7, <1>8, Ends, GuardMoves
<1>10. Rest'
  BY <1>1 DEF Rest, Unlock, files, server
<1>. QED
  BY <1>9, <1>10, Together

\* A step of the lifecycle, and what comes after it.
Plain == Steps \ (Final \cup Obliging \cup Syncing \cup Clearing)

\* A plain step that is over keeps the invariant of flows, guard and files.
LEMMA GoesPlainly ==
    ASSUME IInv, NEW f \in Flows, NEW step \in Plain, At(f, step),
           guard' = guard, UNCHANGED <<config, sidecar, minted>>, races \subseteq races',
           \/ Goes(f, <<>>) \/ Goes(f, Restart)
           \/ \E b \in Plain : Goes(f, <<b>>)
    PROVE  flow' \in [Flows -> Flow] /\ Invs'
<1>1. step \notin {"unlock", "write user", "clear token"} /\ step \notin Clearing
  BY DEF Plain, Final, Syncing, Clearing
<1>2. Head(flow[f].todo) \notin Clearing
  BY <1>1 DEF At
<1>3. CASE Goes(f, <<>>)
  <2>1. \A k \in 1 .. Len(<<>>) : <<>>[k] \notin Syncing
    BY Ends, Indices, Zenon
  <2>. QED
    BY <1>1, <1>3, <2>1, FollowsNone, GoesQuietly
<1>4. CASE Goes(f, Restart)
  <2>1. "stop" \notin Obliging
    BY DEF Obliging
  <2>2. Follows(flow[f].todo, Restart) /\ Restart[1] \notin Obliging
        /\ \A k \in 1 .. Len(Restart) : Restart[k] \notin Syncing
    BY <1>2, <2>1, FollowsRestart
  <2>. QED
    BY <1>1, <1>4, <2>2, GoesQuietly
<1>5. ASSUME NEW b \in Plain, Goes(f, <<b>>) PROVE flow' \in [Flows -> Flow] /\ Invs'
  <2>1. b \in Steps \ Final /\ b # "sync" /\ b \notin Obliging /\ b \notin Syncing
    BY DEF Plain, Syncing
  <2>2. /\ Follows(flow[f].todo, <<b>>) /\ <<b>>[1] = b
        /\ \A k \in 1 .. Len(<<b>>) : <<b>>[k] = b
    BY <1>2, <2>1, FollowsOne
  <2>3. <<b>>[1] \notin Obliging /\ \A k \in 1 .. Len(<<b>>) : <<b>>[k] \notin Syncing
    BY <2>1, <2>2, Zenon
  <2>. QED
    BY <1>1, <1>5, <2>2, <2>3, GoesQuietly
<1>. QED
  BY <1>3, <1>4, <1>5

\* The steps that neither write a credential nor hand the guard on.
LEMMA PlainSteps ==
    {"poll", "auto start", "verdict", "version", "rotate", "stop", "exec stop", "stop ends",
     "start", "exec start", "start ends"} \subseteq Plain
  BY DEF Plain, Steps, Credentials, GuardedSteps, Final, Obliging, Syncing, Clearing

\* CheckVersion keeps the invariant.
LEMMA StepCheckVersion ==
    ASSUME IInv, NEW f \in Flows, CheckVersion(f) PROVE IInv'
<1>1. Rest
  BY Together
<1>2. races' \subseteq Races /\ races \subseteq races'
  BY <1>1 DEF CheckVersion, Rest
<1>3. flow' \in [Flows -> Flow] /\ Invs'
  BY <1>2, PlainSteps, GoesPlainly DEF CheckVersion, manager, files, server
<1>4. Rest'
  BY <1>1, <1>2 DEF CheckVersion, Rest, manager, files, server
<1>. QED
  BY <1>3, <1>4, Together

\* Stop keeps the invariant.
LEMMA StepStop ==
    ASSUME IInv, NEW f \in Flows, Stop(f) PROVE IInv'
<1>1. Rest
  BY Together
<1>2. races' \subseteq Races /\ races \subseteq races'
  BY <1>1 DEF Stop, Rest
<1>3. flow' \in [Flows -> Flow] /\ Invs'
  BY <1>2, PlainSteps, GoesPlainly DEF Stop, manager, files, server
<1>4. Rest'
  BY <1>1, <1>2 DEF Stop, Rest, manager, files, server, States, Probe
<1>. QED
  BY <1>3, <1>4, Together

\* ExecStop keeps the invariant.
LEMMA StepExecStop ==
    ASSUME IInv, NEW f \in Flows, ExecStop(f) PROVE IInv'
<1>1. Rest
  BY Together
<1>2. races' \subseteq Races /\ races \subseteq races'
  <2>1. ComingUp \in BOOLEAN
    BY DEF ComingUp
  <2>. QED
    BY <1>1, <2>1, Noted DEF ExecStop, Rest, Races
<1>3. flow' \in [Flows -> Flow] /\ Invs'
  BY <1>2, PlainSteps, GoesPlainly DEF ExecStop, manager, files, server
<1>4. Rest'
  BY <1>1, <1>2 DEF ExecStop, Rest, manager, files, server, Process, Serving
<1>. QED
  BY <1>3, <1>4, Together

\* StopEnds keeps the invariant.
LEMMA StepStopEnds ==
    ASSUME IInv, NEW f \in Flows, StopEnds(f) PROVE IInv'
<1>1. Rest
  BY Together
<1>2. races' \subseteq Races /\ races \subseteq races'
  <2>1. Serving \in BOOLEAN
    BY DEF Serving
  <2>. QED
    BY <1>1, <2>1, Noted DEF StopEnds, Rest, Races
<1>3. flow' \in [Flows -> Flow] /\ Invs'
  BY <1>2, PlainSteps, GoesPlainly DEF StopEnds, manager, files, server
<1>4. Rest'
  BY <1>1, <1>2 DEF StopEnds, Rest, manager, files, server, States
<1>. QED
  BY <1>3, <1>4, Together

\* FindsItUp keeps the invariant.
LEMMA StepFindsItUp ==
    ASSUME IInv, NEW f \in Flows, FindsItUp(f) PROVE IInv'
<1>1. Rest
  BY Together
<1>2. races' \subseteq Races /\ races \subseteq races'
  BY <1>1 DEF FindsItUp, Rest
<1>3. flow' \in [Flows -> Flow] /\ Invs'
  BY <1>2, PlainSteps, GoesPlainly DEF FindsItUp, manager, files, server
<1>4. Rest'
  BY <1>1, <1>2 DEF FindsItUp, Rest, manager, files, server
<1>. QED
  BY <1>3, <1>4, Together

\* Start keeps the invariant.
LEMMA StepStart ==
    ASSUME IInv, NEW f \in Flows, Start(f) PROVE IInv'
<1>1. Rest
  BY Together
<1>2. races' \subseteq Races /\ races \subseteq races'
  BY <1>1 DEF Start, Rest
<1>3. flow' \in [Flows -> Flow] /\ Invs'
  BY <1>2, PlainSteps, GoesPlainly DEF Start, manager, files, server
<1>4. Rest'
  BY <1>1, <1>2 DEF Start, Rest, manager, files, server, States, Probe
<1>. QED
  BY <1>3, <1>4, Together

\* ExecStart keeps the invariant.
LEMMA StepExecStart ==
    ASSUME IInv, NEW f \in Flows, ExecStart(f) PROVE IInv'
<1>1. Rest
  BY Together
<1>2. races' \subseteq Races /\ races \subseteq races'
  BY <1>1 DEF ExecStart, Rest
<1>3. flow' \in [Flows -> Flow] /\ Invs'
  BY <1>2, PlainSteps, GoesPlainly DEF ExecStart, manager, files, server
<1>4. Rest'
  BY <1>1, <1>2 DEF ExecStart, Rest, manager, files, server, Process, NoProcess, Serving
<1>. QED
  BY <1>3, <1>4, Together

\* StartEnds keeps the invariant.
LEMMA StepStartEnds ==
    ASSUME IInv, NEW f \in Flows, StartEnds(f) PROVE IInv'
<1>1. Rest
  BY Together
<1>2. races' \subseteq Races /\ races \subseteq races'
  BY <1>1 DEF StartEnds, Rest
<1>3. flow' \in [Flows -> Flow] /\ Invs'
  BY <1>2, PlainSteps, GoesPlainly DEF StartEnds, manager, files, server
<1>4. Rest'
  BY <1>1, <1>2 DEF StartEnds, Rest, manager, files, server
<1>. QED
  BY <1>3, <1>4, Together

\* StopFails keeps the invariant.
LEMMA StepStopFails ==
    ASSUME IInv, NEW f \in Flows, StopFails(f) PROVE IInv'
<1>1. Rest
  BY Together
<1>2. races' \subseteq Races /\ races \subseteq races'
  BY <1>1 DEF StopFails, Rest, Races, Note
<1>3. flow' \in [Flows -> Flow] /\ Invs'
  BY <1>2, FailsQuietly DEF StopFails, files, server
<1>4. Rest'
  BY <1>1, <1>2, Moved DEF StopFails, Rest, manager, files, server, States
<1>. QED
  BY <1>3, <1>4, Together

\* StartFails keeps the invariant.
LEMMA StepStartFails ==
    ASSUME IInv, NEW f \in Flows, StartFails(f) PROVE IInv'
<1>1. Rest
  BY Together
<1>2. races' \subseteq Races /\ races \subseteq races'
  BY <1>1 DEF StartFails, Rest, Races
<1>3. flow' \in [Flows -> Flow] /\ Invs'
  BY <1>2, FailsQuietly DEF StartFails, files, server
<1>4. Rest'
  BY <1>1, <1>2, Moved DEF StartFails, Rest, manager, files, server, States
<1>. QED
  BY <1>3, <1>4, Together

\* MintFails keeps the invariant.
LEMMA StepMintFails ==
    ASSUME IInv, NEW f \in Flows, MintFails(f) PROVE IInv'
<1>1. Rest
  BY Together
<1>2. races' \subseteq Races /\ races \subseteq races'
  BY <1>1 DEF MintFails, Rest, Races, Note
<1>3. flow' \in [Flows -> Flow] /\ Invs'
  BY <1>2, FailsQuietly DEF MintFails, files, server, manager
<1>4. Rest'
  BY <1>1, <1>2, Moved DEF MintFails, Rest, manager, files, server
<1>. QED
  BY <1>3, <1>4, Together

\* WriteFails keeps the invariant.
LEMMA StepWriteFails ==
    ASSUME IInv, NEW f \in Flows, WriteFails(f) PROVE IInv'
<1>1. Rest
  BY Together
<1>2. races' \subseteq Races /\ races \subseteq races'
  BY <1>1 DEF WriteFails, Rest, Races, Note
<1>3. flow' \in [Flows -> Flow] /\ Invs'
  BY <1>2, FailsQuietly DEF WriteFails, files, server, manager, Note, At
<1>4. Rest'
  BY <1>1, <1>2, Moved DEF WriteFails, Rest, manager, files, server
<1>. QED
  BY <1>3, <1>4, Together

\* What a poll reports, and what it does next.
LEMMA ReportsKept ==
    ASSUME IInv, NEW f \in Flows, NEW step \in {"poll", "auto start", "verdict"}, At(f, step),
           NEW status \in States, Reports(f, status),
           guard' = guard, UNCHANGED <<config, sidecar, minted>>, races \subseteq races'
    PROVE  state' \in States /\ flow' \in [Flows -> Flow] /\ Invs'
<1>1. state' \in States
  BY Together DEF Reports, Rest
<1>2. \/ Goes(f, <<>>) \/ Goes(f, <<"version">>) \/ Goes(f, <<"start">>)
  BY DEF Reports
<1>3. step \in Plain /\ "version" \in Plain /\ "start" \in Plain
  BY PlainSteps
<1>4. flow' \in [Flows -> Flow] /\ Invs'
  BY <1>2, <1>3, GoesPlainly
<1>. QED
  BY <1>1, <1>4

\* What is shown of a daemon that is not running.
LEMMA NotRunningIsState ==
    ASSUME NEW health, NEW expired PROVE NotRunning(health, expired) \in States
  BY DEF NotRunning, States

\* SeesItRunning keeps the invariant.
LEMMA StepSeesItRunning ==
    ASSUME IInv, NEW f \in Flows, SeesItRunning(f) PROVE IInv'
<1>1. Rest
  BY Together
<1>2. "running" \in States
  BY DEF States
<1>3. state' \in States /\ flow' \in [Flows -> Flow] /\ Invs'
  <2>1. PICK step \in {"poll", "auto start"} : At(f, step)
    BY DEF SeesItRunning
  <2>. QED
    BY <1>2, <2>1, ReportsKept DEF SeesItRunning, files, server
<1>4. Rest'
  BY <1>1, <1>3 DEF SeesItRunning, Rest, files, server, Probe
<1>. QED
  BY <1>3, <1>4, Together

\* SeesItNotRunning keeps the invariant.
LEMMA StepSeesItNotRunning ==
    ASSUME IInv, NEW f \in Flows, SeesItNotRunning(f) PROVE IInv'
<1>1. Rest
  BY Together
<1>2. state' \in States /\ flow' \in [Flows -> Flow] /\ Invs'
  <2>1. PICK step \in {"poll", "auto start"} : At(f, step)
    BY DEF SeesItNotRunning
  <2>. QED
    BY <2>1, ReportsKept, NotRunningIsState DEF SeesItNotRunning, files, server
<1>3. Rest'
  BY <1>1, <1>2 DEF SeesItNotRunning, Rest, files, server
<1>. QED
  BY <1>2, <1>3, Together

\* TakeVerdict keeps the invariant.
LEMMA StepTakeVerdict ==
    ASSUME IInv, NEW f \in Flows, TakeVerdict(f) PROVE IInv'
<1>1. Rest /\ flow[f] \in Flow
  BY Together
<1>2. races' \subseteq Races /\ races \subseteq races'
  <2>1. (flow[f].expired /\ flow[f].token # config) \in BOOLEAN
    BY <1>1 DEF Flow
  <2>. QED
    BY <1>1, <2>1, Noted DEF TakeVerdict, Rest, Races
<1>3. state' \in States /\ flow' \in [Flows -> Flow] /\ Invs'
  BY <1>2, ReportsKept, NotRunningIsState DEF TakeVerdict, files, server
<1>4. probe' \in Probe
  BY <1>1 DEF TakeVerdict, Rest, Probe, Flow
<1>5. Rest'
  BY <1>1, <1>2, <1>3, <1>4 DEF TakeVerdict, Rest, files, server
<1>. QED
  BY <1>3, <1>5, Together

\* A flow with one step in the place of another.
LEMMA ThenOne ==
    ASSUME IInv, NEW f \in Flows, NEW step, At(f, step), step \notin Clearing, step # "unlock",
           NEW b \in Steps \ Final, b # "sync", b \in Syncing => step \in Syncing,
           NEW x, x = Then(f, <<b>>)
    PROVE  /\ x \in Flow /\ Sound(x) /\ x.todo # <<>> /\ Head(x.todo) = b
           /\ x.token = flow[f].token /\ x.user = flow[f].user
           /\ Keeps(f, x)
<1>. DEFINE s == flow[f].todo
            a == <<b>>
<1>1. flow[f] \in Flow /\ Sound(flow[f]) /\ s \in Seq(Steps) /\ InOrder(s) /\ s # <<>> /\ Head(s) = step
  BY DEF IInv, TypeOK, FlowInv, Flow, Sound, At
<1>2. /\ Follows(s, a) /\ a # <<>> /\ a[1] = b /\ a \in Seq(Steps)
      /\ \A k \in 1 .. Len(a) : a[k] = b
  BY <1>1, FollowsOne DEF Follows
<1>3. 1 \in 1 .. Len(s) /\ s[1] = step
  BY <1>1, First
<1>4. step \in Syncing => flow[f].user \in Users
  BY <1>1, <1>3 DEF Sound
<1>5. (\E k \in 1 .. Len(a) : a[k] \in Syncing) => flow[f].user \in Users
  BY <1>2, <1>4, Zenon
<1>6. a \o Tail(s) # <<>> /\ Head(a \o Tail(s)) = b
  BY <1>1, <1>2, NextStep
<1>. HIDE DEF a
<1>7. /\ x \in Flow /\ Sound(x) /\ x.todo = a \o Tail(s)
      /\ Keeps(f, x)
      /\ x.todo # <<>> => x.token = flow[f].token /\ x.user = flow[f].user
  BY <1>1, <1>2, <1>5, ThenSound DEF a
<1>. QED
  BY <1>6, <1>7

\* A flow without its first step.
LEMMA ThenNone ==
    ASSUME IInv, NEW f \in Flows, NEW step, At(f, step), step # "unlock",
           NEW x, x = Then(f, <<>>)
    PROVE  /\ x \in Flow /\ Sound(x) /\ x.token \in {None, flow[f].token}
           /\ Keeps(f, x)
           /\ x.todo # <<>> =>
                Head(x.todo) \in Later /\ (Head(x.todo) = "clear user" => step = "clear token")
<1>. DEFINE s == flow[f].todo
<1>1. flow[f] \in Flow /\ Sound(flow[f]) /\ s \in Seq(Steps) /\ InOrder(s) /\ s # <<>> /\ Head(s) = step
  BY DEF IInv, TypeOK, FlowInv, Flow, Sound, At
<1>2. Follows(s, <<>>) /\ <<>> \in Seq(Steps)
  BY FollowsNone DEF Follows
<1>3. \A k \in 1 .. Len(<<>>) : FALSE
  BY Ends, Indices, Zenon
<1>4. /\ x \in Flow /\ Sound(x) /\ x.todo = <<>> \o Tail(s)
      /\ Keeps(f, x)
      /\ x.token \in {None, flow[f].token}
  BY <1>1, <1>2, <1>3, ThenSound
<1>5. <<>> \o Tail(s) # <<>> =>
          /\ Head(<<>> \o Tail(s)) \in Later
          /\ Head(<<>> \o Tail(s)) = "clear user" => Head(s) = "clear token"
  BY <1>1, <1>2, NextStep
<1>. QED
  BY <1>1, <1>4, <1>5

\* Being sound is a matter of the steps and the user.
LEMMA Retouched ==
    ASSUME NEW x, Sound(x), NEW y, y.todo = x.todo, y.onFail = x.onFail, y.user = x.user
    PROVE  Sound(y)
  BY DEF Sound

\* ProbeToken keeps the invariant.
LEMMA StepProbeToken ==
    ASSUME IInv, NEW f \in Flows, ProbeToken(f) PROVE IInv'
<1>. DEFINE x == Then(f, <<"verdict">>)
<1>1. Rest /\ flow[f] \in Flow /\ At(f, "poll")
  BY Together DEF ProbeToken
<1>2. "verdict" \in Steps \ Final /\ "verdict" \notin Syncing /\ "poll" \notin Clearing
      /\ "verdict" \notin Obliging
  BY DEF Steps, Final, GuardedSteps, Syncing, Clearing, Obliging
<1>3. /\ x \in Flow /\ Sound(x) /\ x.todo # <<>> /\ Head(x.todo) = "verdict"
      /\ Keeps(f, x)
  BY <1>1, <1>2, ThenOne
<1>4. PICK heard \in BOOLEAN :
        flow' = [flow EXCEPT ![f] = [x EXCEPT !.saw = flow[f].saw, !.token = config,
                    !.expired = config = None \/ (heard /\ config \in dead)]]
  BY DEF ProbeToken
<1>. DEFINE e == config = None \/ (heard /\ config \in dead)
            y == [x EXCEPT !.saw = flow[f].saw, !.token = config, !.expired = e]
<1>5. e \in BOOLEAN
  OBVIOUS
<1>6. flow' = [flow EXCEPT ![f] = y]
  BY <1>4
<1>. HIDE DEF x, e
<1>7. /\ y \in Flow /\ y.todo = x.todo /\ y.onFail = x.onFail /\ y.user = x.user /\ y.token = config
  BY <1>1, <1>3, <1>5 DEF Flow, Rest
<1>. HIDE DEF y
<1>8. Becomes(f, y)
  BY <1>3, <1>6, <1>7, Retouched DEF Becomes, Keeps
<1>9. flow' \in [Flows -> Flow] /\ Invs'
  BY <1>1, <1>2, <1>3, <1>7, <1>8, Quietly DEF ProbeToken, files, server, At
<1>10. Rest'
  BY <1>1 DEF ProbeToken, Rest, Probe, files, server
<1>. QED
  BY <1>9, <1>10, Together

\* PollTimer keeps the invariant.
LEMMA StepPollTimer ==
    ASSUME IInv, NEW f \in Flows, PollTimer(f) PROVE IInv'
<1>1. Rest
  BY Together
<1>2. Opening(<<"poll">>, <<>>, None)
  BY PlainSteps, OpeningOne DEF Plain, Final
<1>3. flow' \in [Flows -> Flow] /\ Invs'
  BY <1>2, BeginsQuietly DEF PollTimer, manager, files, server
<1>4. Rest'
  BY <1>1 DEF PollTimer, Rest, manager, files, server
<1>. QED
  BY <1>3, <1>4, Together

\* Login keeps the invariant.
LEMMA StepLogin ==
    ASSUME IInv, NEW f \in Flows, NEW u \in Users, Login(f, u) PROVE IInv'
<1>1. Rest
  BY Together
<1>2. flow' \in [Flows -> Flow] /\ Invs'
  BY OpeningLogin, BeginsQuietly DEF Login, manager, files, server
<1>3. Rest'
  BY <1>1, Moved DEF Login, Rest, manager, files, server
<1>. QED
  BY <1>2, <1>3, Together

\* Logout keeps the invariant.
LEMMA StepLogout ==
    ASSUME IInv, NEW f \in Flows, Logout(f) PROVE IInv'
<1>1. Rest
  BY Together
<1>2. flow' \in [Flows -> Flow] /\ Invs'
  BY OpeningLogout, BeginsQuietly DEF Logout, manager, files, server
<1>3. Rest'
  BY <1>1, Moved DEF Logout, Rest, manager, files, server
<1>. QED
  BY <1>2, <1>3, Together

\* Reauthenticate keeps the invariant.
LEMMA StepReauthenticate ==
    ASSUME IInv, NEW f \in Flows, Reauthenticate(f) PROVE IInv'
<1>1. Rest
  BY Together
<1>2. flow' \in [Flows -> Flow] /\ Invs'
  BY OpeningReauthenticate, BeginsQuietly DEF Reauthenticate, manager, files, server
<1>3. Rest'
  BY <1>1, Moved DEF Reauthenticate, Rest, manager, files, server
<1>. QED
  BY <1>2, <1>3, Together

\* Click keeps the invariant.
LEMMA StepClick ==
    ASSUME IInv, NEW f \in Flows, NEW op \in GuardedSteps, Click(f, op) PROVE IInv'
<1>1. Rest
  BY Together
<1>2. Opening(<<op>>, <<>>, None)
  BY OpeningOne DEF GuardedSteps, Steps, Obliging, Syncing
<1>3. flow' \in [Flows -> Flow] /\ Invs'
  BY <1>2, BeginsQuietly DEF Click, manager, files, server
<1>4. Rest'
  BY <1>1, Moved DEF Click, Rest, manager, files, server
<1>. QED
  BY <1>3, <1>4, Together

-----------------------------------------------------------------------------
(* Writing the credentials                                                 *)

\* A write that no race is noted for is the only one at work.
LEMMA AloneWriter ==
    ASSUME FilesInv, NEW f \in Flows, Writes(f), races' \cap {"two writers", "half written"} = {}
    PROVE  /\ Files
           /\ \A g \in Flows \ {f}, step \in Obliging : ~At(g, step)
<1>1. races \cap {"two writers", "half written"} = {}
  BY DEF Writes, Note
<1>2. ~\E g \in Flows \ {f} : ~Free(g) /\ Head(flow[g].todo) \in Credentials
  BY DEF Writes, Note, If
<1>3. Obliging \subseteq Credentials
  BY DEF Obliging, Credentials
<1>. QED
  BY <1>1, <1>2, <1>3 DEF FilesInv, At, Free

\* What it notes.
LEMMA WritesNotes ==
    ASSUME Rest, NEW f \in Flows, Writes(f) PROVE races' \subseteq Races /\ races \subseteq races'
<1>1. (\E g \in Flows \ {f} : ~Free(g) /\ Head(flow[g].todo) \in Credentials) \in BOOLEAN
  OBVIOUS
<1>. QED
  BY <1>1, Noted DEF Writes, Rest, Races

\* One who is next to sync is a user.
LEMMA SyncsForUser ==
    ASSUME IInv, NEW f \in Flows, NEW step \in Syncing, At(f, step) PROVE flow[f].user \in Users
<1>1. flow[f].todo \in Seq(Steps) /\ flow[f].todo # <<>> /\ Sound(flow[f])
  BY DEF IInv, TypeOK, FlowInv, Flow, At
<1>2. 1 \in 1 .. Len(flow[f].todo) /\ flow[f].todo[1] = step
  BY <1>1, First DEF At
<1>. QED
  BY <1>1, <1>2 DEF Sound

\* One step of a sync after another.
LEMMA ThenSync ==
    ASSUME IInv, NEW f \in Flows, NEW step \in {"sync", "sync user", "mint", "write token"},
           At(f, step), NEW b \in {"sync user", "mint", "write token", "write user"},
           NEW x, x = Then(f, <<b>>)
    PROVE  /\ x \in Flow /\ Sound(x) /\ x.todo # <<>> /\ Head(x.todo) = b
           /\ x.token = flow[f].token /\ x.user = flow[f].user /\ flow[f].user \in Users
           /\ Keeps(f, x)
<1>1. step \notin Clearing /\ step # "unlock" /\ step \in Syncing
  BY DEF Clearing, Syncing
<1>2. b \in Steps \ Final /\ b # "sync"
  BY DEF Steps, Credentials, Final, GuardedSteps
<1>3. flow[f].user \in Users
  BY <1>1, SyncsForUser
<1>. QED
  BY <1>1, <1>2, <1>3, ThenOne

\* ReadConfig keeps the invariant.
LEMMA StepReadConfig ==
    ASSUME IInv, NEW f \in Flows, ReadConfig(f) PROVE IInv'
<1>. DEFINE x == Then(f, <<"sync user">>)
            y == [x EXCEPT !.token = config]
<1>1. Rest /\ At(f, "sync") /\ flow' = [flow EXCEPT ![f] = y]
      /\ guard' = guard /\ races' = races /\ UNCHANGED <<config, sidecar, minted>>
  BY Together DEF ReadConfig, manager, files, server
<1>3. /\ x \in Flow /\ Sound(x) /\ x.todo # <<>> /\ Head(x.todo) = "sync user"
      /\ Keeps(f, x)
  BY <1>1, ThenSync
<1>. HIDE DEF x
<1>4. /\ y \in Flow /\ y.todo = x.todo /\ y.onFail = x.onFail /\ y.user = x.user /\ y.token = config
  BY <1>1, <1>3 DEF Flow, Rest
<1>. HIDE DEF y
<1>5. Becomes(f, y)
  BY <1>1, <1>3, <1>4, Retouched DEF Becomes, Keeps
<1>6. /\ flow' \in [Flows -> Flow] /\ flow'[f] = y
      /\ \A g \in Flows \ {f} : flow'[g] = flow[g]
      /\ FlowInv' /\ GuardHasOneHolder'
  BY <1>1, <1>5, FlowsKept
<1>7. TokenInv'
  BY <1>1, <1>4, <1>6 DEF IInv, TokenInv, Known
<1>8. FilesInv'
  <2>. SUFFICES ASSUME Files PROVE Files'
    BY <1>1 DEF IInv, FilesInv
  <2>1. /\ \A g \in Flows, step \in Obliging : g # f => (At(g, step)' <=> At(g, step))
        /\ At(f, "sync user")' /\ ~At(f, "write token")' /\ ~At(f, "write user")'
        /\ ~At(f, "clear user")' /\ ~At(f, "write user")
    BY <1>1, <1>3, <1>4, <1>6 DEF At
  <2>. QED
    BY <1>1, <1>4, <1>6, <2>1 DEF Files, Obliging
<1>9. Rest'
  BY <1>1 DEF Rest, ReadConfig, manager, files, server
<1>. QED
  BY <1>6, <1>7, <1>8, <1>9, Together DEF Invs

\* ReadSidecar keeps the invariant.
LEMMA StepReadSidecar ==
    ASSUME IInv, NEW f \in Flows, ReadSidecar(f) PROVE IInv'
<1>. DEFINE reuses == flow[f].token # None /\ sidecar = flow[f].user
            b == IF reuses THEN "write token" ELSE "mint"
            x == Then(f, <<b>>)
            y == [x EXCEPT !.prior = sidecar]
<1>1. Rest /\ At(f, "sync user") /\ flow' = [flow EXCEPT ![f] = y]
      /\ guard' = guard /\ races' = races /\ UNCHANGED <<config, sidecar, minted>>
  BY Together DEF ReadSidecar, manager, files, server
<1>2. "sync user" \in Syncing
  BY DEF Syncing
<1>. HIDE DEF b
<1>3. /\ x \in Flow /\ Sound(x) /\ x.todo # <<>> /\ Head(x.todo) = b
      /\ x.token = flow[f].token /\ x.user = flow[f].user
      /\ Keeps(f, x)
  <2>1. b \in {"mint", "write token"}
    BY DEF b
  <2>. QED
    BY <1>1, <2>1, ThenSync
<1>. HIDE DEF x
<1>4. /\ y \in Flow /\ y.todo = x.todo /\ y.onFail = x.onFail
      /\ y.user = flow[f].user /\ y.token = flow[f].token
  BY <1>1, <1>3 DEF Flow, Rest
<1>. HIDE DEF y
<1>5. Becomes(f, y)
  BY <1>1, <1>3, <1>4, Retouched DEF Becomes, Keeps
<1>6. /\ flow' \in [Flows -> Flow] /\ flow'[f] = y
      /\ \A g \in Flows \ {f} : flow'[g] = flow[g]
      /\ FlowInv' /\ GuardHasOneHolder'
  BY <1>1, <1>5, FlowsKept
<1>7. TokenInv'
  BY <1>1, <1>4, <1>6 DEF IInv, TokenInv, Known
<1>8. FilesInv'
  <2>. SUFFICES ASSUME Files PROVE Files'
    BY <1>1 DEF IInv, FilesInv
  <2>1. /\ \A g \in Flows, step \in Obliging : g # f => (At(g, step)' <=> At(g, step))
        /\ ~At(f, "sync user")' /\ ~At(f, "write user")'
        /\ ~At(f, "clear user")' /\ ~At(f, "write user")
        /\ At(f, "write token")' => reuses
    BY <1>1, <1>3, <1>4, <1>6 DEF At, b
  <2>2. flow[f].user \in Users /\ flow[f].user # None
    BY <1>1, <1>2, SyncsForUser, UsersAssumption
  <2>3. flow[f].token = config
    BY <1>1 DEF Files
  <2>4. At(f, "write token")' =>
            /\ flow[f].token # None
            /\ minted[flow[f].token] = flow[f].user \/ \E g \in Flows \ {f} : At(g, "write user")
    BY <2>1, <2>2, <2>3 DEF Files
  <2>. QED
    BY <1>1, <1>4, <1>6, <2>1, <2>4 DEF Files, Obliging
<1>9. Rest'
  BY <1>1 DEF Rest, ReadSidecar, manager, files, server
<1>. QED
  BY <1>6, <1>7, <1>8, <1>9, Together DEF Invs

\* Mint keeps the invariant.
LEMMA StepMint ==
    ASSUME IInv, NEW f \in Flows, Mint(f) PROVE IInv'
<1>. DEFINE x == Then(f, <<"write token">>)
            y == [x EXCEPT !.token = Len(minted')]
<1>1. Rest /\ At(f, "mint") /\ flow' = [flow EXCEPT ![f] = y]
      /\ guard' = guard /\ races' = races /\ UNCHANGED <<config, sidecar>>
      /\ Len(minted) < MaxMints /\ minted' = Append(minted, flow[f].user)
  BY Together DEF Mint, manager, files
<1>2. "mint" \in Syncing
  BY DEF Syncing
<1>3. flow[f].user \in Users
  BY <1>1, <1>2, SyncsForUser
<1>4. /\ minted' \in Seq(Users) /\ Len(minted) \in Nat /\ Len(minted') = Len(minted) + 1
      /\ minted'[Len(minted')] = flow[f].user
      /\ \A t \in 1 .. Len(minted) : minted'[t] = minted[t]
  <2>1. minted \in Seq(Users) /\ minted' = Append(minted, flow[f].user)
    BY <1>1 DEF Rest
  <2>2. Len(minted) \in Nat
    BY <2>1, LenProperties
  <2>. QED
    BY <1>3, <2>1, <2>2, AppendProperties
<1>5. Len(minted') <= MaxMints /\ Len(minted') \in Tokens /\ Len(minted') # None
  <2>1. Len(minted) \in Nat /\ Len(minted') = Len(minted) + 1 /\ Len(minted) < MaxMints
    BY <1>1, <1>4
  <2>2. Len(minted') <= MaxMints /\ Len(minted') \in Tokens
    BY <2>1, BoundsAssumption DEF Tokens
  <2>. QED
    BY <2>2, TokensAssumption
<1>6. \A t : Known(t) => Known(t)'
  BY <1>4 DEF Known
<1>7. /\ x \in Flow /\ Sound(x) /\ x.todo # <<>> /\ Head(x.todo) = "write token"
      /\ x.user = flow[f].user
      /\ Keeps(f, x)
  BY <1>1, ThenSync
<1>. HIDE DEF x
<1>8. /\ y \in Flow /\ y.todo = x.todo /\ y.onFail = x.onFail
      /\ y.user = flow[f].user /\ y.token = Len(minted')
  BY <1>5, <1>7 DEF Flow
<1>. HIDE DEF y
<1>9. Becomes(f, y)
  BY <1>1, <1>7, <1>8, Retouched DEF Becomes, Keeps
<1>10. /\ flow' \in [Flows -> Flow] /\ flow'[f] = y
       /\ \A g \in Flows \ {f} : flow'[g] = flow[g]
       /\ FlowInv' /\ GuardHasOneHolder'
  BY <1>1, <1>9, FlowsKept
<1>11. TokenInv'
  <2>1. Known(config)'
    BY <1>1, <1>6 DEF IInv, TokenInv, Known
  <2>2. \A g \in Flows \ {f} : Known(flow[g].token)'
    BY <1>4, <1>10 DEF IInv, TokenInv, Known
  <2>3. Known(flow[f].token)'
    BY <1>4, <1>8, <1>10 DEF Known
  <2>. QED
    BY <2>1, <2>2, <2>3 DEF TokenInv
<1>12. FilesInv'
  <2>. SUFFICES ASSUME Files PROVE Files'
    BY <1>1 DEF IInv, FilesInv
  <2>1. /\ \A g \in Flows, step \in Obliging : g # f => (At(g, step)' <=> At(g, step))
        /\ ~At(f, "sync user")' /\ ~At(f, "write user")'
        /\ ~At(f, "clear user")' /\ ~At(f, "write user")
    BY <1>1, <1>7, <1>8, <1>10 DEF At
  <2>2. \A t : Known(t) /\ t # None => minted'[t] = minted[t]
    BY <1>4 DEF Known
  <2>3. Known(config) /\ \A g \in Flows : Known(flow[g].token)
    BY DEF IInv, TokenInv
  <2>4. \A g \in Flows : At(g, "sync user")' => flow'[g].token = config'
    BY <1>1, <1>10, <2>1 DEF Files, Obliging
  <2>5. \A g \in Flows : At(g, "write token")' =>
            /\ flow'[g].token # None
            /\ minted'[flow'[g].token] = flow'[g].user \/ \E h \in Flows \ {g} : At(h, "write user")'
    <3>1. flow'[f].token # None /\ minted'[flow'[f].token] = flow'[f].user
      BY <1>4, <1>5, <1>8, <1>10
    <3>2. ASSUME NEW g \in Flows \ {f}, At(g, "write token")'
          PROVE  /\ flow'[g].token # None
                 /\ \/ minted'[flow'[g].token] = flow'[g].user
                    \/ \E h \in Flows \ {g} : At(h, "write user")'
      <4>1. At(g, "write token") /\ flow'[g] = flow[g]
        BY <1>10, <2>1, <3>2 DEF Obliging
      <4>2. flow[g].token # None /\ minted'[flow[g].token] = minted[flow[g].token]
        BY <2>2, <2>3, <4>1 DEF Files
      <4>3. minted[flow[g].token] = flow[g].user \/ \E h \in Flows \ {g} : At(h, "write user")
        BY <4>1 DEF Files
      <4>4. \A h \in Flows : At(h, "write user") => At(h, "write user")'
        BY <2>1 DEF Obliging
      <4>. QED
        BY <4>1, <4>2, <4>3, <4>4
    <3>. QED
      BY <3>1, <3>2
  <2>6. \A g \in Flows : At(g, "write user")' =>
            config' # None /\ config' = flow'[g].token /\ minted'[config'] = flow'[g].user
    BY <1>1, <1>10, <2>1, <2>2, <2>3 DEF Files, Obliging
  <2>7. \A g \in Flows : At(g, "clear user")' => config' = None
    BY <1>1, <1>10, <2>1 DEF Files, Obliging
  <2>8. (\A g \in Flows : ~At(g, "write user")') =>
            (config' # None /\ sidecar' # None => minted'[config'] = sidecar')
    BY <1>1, <2>1, <2>2, <2>3 DEF Files, Obliging
  <2>. QED
    BY <2>4, <2>5, <2>6, <2>7, <2>8 DEF Files
<1>13. Rest'
  BY <1>1, <1>4, <1>5 DEF Rest, Mint, manager, files
<1>. QED
  BY <1>10, <1>11, <1>12, <1>13, Together DEF Invs

\* WriteToken keeps the invariant.
LEMMA StepWriteToken ==
    ASSUME IInv, NEW f \in Flows, WriteToken(f) PROVE IInv'
<1>. DEFINE x == Then(f, <<"write user">>)
<1>1. Rest /\ At(f, "write token") /\ flow' = [flow EXCEPT ![f] = x] /\ Writes(f)
      /\ guard' = guard /\ UNCHANGED <<sidecar, minted>> /\ config' = flow[f].token
  BY Together DEF WriteToken, Goes, manager, server
<1>2. /\ x \in Flow /\ Sound(x) /\ x.todo # <<>> /\ Head(x.todo) = "write user"
      /\ x.token = flow[f].token /\ x.user = flow[f].user /\ Keeps(f, x)
  BY <1>1, ThenSync
<1>. HIDE DEF x
<1>3. Becomes(f, x)
  BY <1>1, <1>2 DEF Becomes, Keeps
<1>4. /\ flow' \in [Flows -> Flow] /\ flow'[f] = x
      /\ \A g \in Flows \ {f} : flow'[g] = flow[g]
      /\ FlowInv' /\ GuardHasOneHolder'
  BY <1>1, <1>3, FlowsKept
<1>5. races' \subseteq Races /\ races \subseteq races'
  BY <1>1, WritesNotes
<1>6. TokenInv'
  BY <1>1, <1>2, <1>4 DEF IInv, TokenInv, Known
<1>7. FilesInv'
  <2>. SUFFICES ASSUME races' \cap {"two writers", "half written"} = {} PROVE Files'
    BY DEF FilesInv
  <2>1. Files /\ \A g \in Flows \ {f}, step \in Obliging : ~At(g, step)
    BY <1>1, AloneWriter DEF IInv
  <2>2. flow[f].token # None /\ minted[flow[f].token] = flow[f].user
    BY <1>1, <2>1 DEF Files, Obliging
  <2>3. /\ \A g \in Flows \ {f}, step \in Obliging : ~At(g, step)'
        /\ At(f, "write user")' /\ ~At(f, "sync user")' /\ ~At(f, "write token")'
        /\ ~At(f, "clear user")'
    BY <1>2, <1>4, <2>1 DEF At
  <2>4. \A g \in Flows : At(g, "write user")' =>
            config' # None /\ config' = flow'[g].token /\ minted'[config'] = flow'[g].user
    BY <1>1, <1>2, <1>4, <2>2, <2>3 DEF Obliging
  <2>. QED
    BY <2>3, <2>4 DEF Files, Obliging
<1>8. Rest'
  <2>1. config' \in Tokens \cup {None}
    BY <1>1 DEF IInv, TypeOK, Flow
  <2>. QED
    BY <1>1, <1>5, <2>1 DEF Rest, WriteToken, manager, server
<1>. QED
  BY <1>4, <1>6, <1>7, <1>8, Together DEF Invs

\* Nothing is left to sync once the user is written.
LEMMA NoSyncLeft ==
    ASSUME NEW s \in Seq(Steps), s # <<>>, InOrder(s), Head(s) = "write user"
    PROVE  \A k \in 2 .. Len(s) : s[k] \notin Syncing
<1>1. s[1] = "write user" /\ Len(s) \in Nat
  BY First
<1>1a. \A k \in 2 .. Len(s) : 1 \in 1 .. (k - 1)
  BY <1>1, Indices, Zenon
<1>2. ASSUME NEW k \in 2 .. Len(s), s[k] = "sync" PROVE FALSE
  <2>1. 1 \in 1 .. (k - 1)
    BY <1>1a
  <2>2. s[1] \in Clearing
    BY <1>2, <2>1, Zenon DEF InOrder
  <2>. QED
    BY <1>1, <2>2 DEF Clearing
<1>3. \A k \in 2 .. Len(s) : s[k] \in Later
  BY DEF InOrder
<1>. QED
  BY <1>2, <1>3 DEF Later, Syncing

\* WriteUser keeps the invariant.
LEMMA StepWriteUser ==
    ASSUME IInv, NEW f \in Flows, WriteUser(f) PROVE IInv'
<1>. DEFINE a == IF UserChanged(f) THEN <<"rotate">> ELSE <<>>
            s == flow[f].todo
            x == Then(f, a)
            y == [x EXCEPT !.user = None, !.token = None, !.prior = None]
<1>1. Rest /\ At(f, "write user") /\ flow' = [flow EXCEPT ![f] = y] /\ Writes(f)
      /\ guard' = guard /\ UNCHANGED <<config, minted>> /\ sidecar' = flow[f].user
  BY Together DEF WriteUser, Forgets, manager, server
<1>2. flow[f] \in Flow /\ Sound(flow[f]) /\ s \in Seq(Steps) /\ InOrder(s) /\ s # <<>>
      /\ Head(s) = "write user" /\ flow[f].user \in Users
  <2>1. "write user" \in Syncing
    BY DEF Syncing
  <2>. QED
    BY <1>1, <2>1, SyncsForUser DEF IInv, TypeOK, FlowInv, Flow, Sound, At
<1>3. /\ Follows(s, a) /\ (\A k \in 1 .. Len(a) : a[k] \notin Syncing)
      /\ a \in Seq(Steps) /\ Len(a) \in Nat /\ (a # <<>> => a[1] \notin Obliging)
  <2>1. CASE a = <<>>
    <3>1. \A k \in 1 .. Len(<<>>) : FALSE
      BY Ends, Indices, Zenon
    <3>2. Follows(s, <<>>) /\ Len(<<>>) \in Nat /\ <<>> \in Seq(Steps)
      BY FollowsNone, Ends DEF Follows
    <3>. HIDE DEF a
    <3>. QED
      BY <2>1, <3>1, <3>2
  <2>2. CASE a = <<"rotate">>
    <3>1. "rotate" \in Steps \ Final /\ "rotate" # "sync" /\ "rotate" \notin Syncing
          /\ "rotate" \notin Obliging /\ Head(s) \notin Clearing
      BY <1>2, PlainSteps DEF Plain, Syncing, Clearing
    <3>2. /\ Follows(s, <<"rotate">>) /\ <<"rotate">>[1] = "rotate"
          /\ \A k \in 1 .. Len(<<"rotate">>) : <<"rotate">>[k] = "rotate"
      BY <3>1, FollowsOne
    <3>3. Len(<<"rotate">>) \in Nat /\ <<"rotate">> \in Seq(Steps)
      BY <3>2, Single DEF Follows
    <3>. HIDE DEF a
    <3>. QED
      BY <2>2, <3>1, <3>2, <3>3
  <2>. QED
    BY <2>1, <2>2
<1>. HIDE DEF a
<1>4. /\ x \in Flow /\ Sound(x) /\ x.todo = a \o Tail(s) /\ Keeps(f, x)
  BY <1>2, <1>3, ThenSound
<1>5. x.todo # <<>> => Head(x.todo) \notin Obliging
  <2>1. a # <<>> => Head(a \o Tail(s)) = a[1]
    BY <1>2, <1>3, NextStep
  <2>2. a = <<>> /\ a \o Tail(s) # <<>> =>
            Head(a \o Tail(s)) \in Later /\ Head(a \o Tail(s)) # "clear user"
    BY <1>2, <1>3, NextStep
  <2>3. \A b \in Later : b # "clear user" => b \notin Obliging
    BY DEF Later, Obliging
  <2>. HIDE DEF x, s
  <2>. QED
    BY <1>3, <1>4, <2>1, <2>2, <2>3
<1>6. \A k \in 1 .. Len(x.todo) : x.todo[k] \notin Syncing
  <2>1. \A k \in 2 .. Len(s) : s[k] \notin Syncing
    BY <1>2, NoSyncLeft
  <2>2. /\ Len(a \o Tail(s)) = Len(a) + Len(s) - 1
        /\ \A k \in 1 .. Len(a \o Tail(s)) :
             (a \o Tail(s))[k] = IF k <= Len(a) THEN a[k] ELSE s[k - Len(a) + 1]
    BY <1>2, <1>3, Splice
  <2>3. Len(s) \in Nat
    BY <1>2, LenProperties
  <2>4. ASSUME NEW k \in 1 .. Len(a \o Tail(s)) PROVE (a \o Tail(s))[k] \notin Syncing
    <3>1. CASE k <= Len(a)
      BY <1>3, <2>2, <3>1
    <3>2. CASE k > Len(a)
      <4>1. k - Len(a) + 1 \in 2 .. Len(s)
        BY <1>3, <2>2, <2>3, <3>2
      <4>2. (a \o Tail(s))[k] = s[k - Len(a) + 1]
        BY <1>3, <2>2, <3>2
      <4>. QED
        BY <2>1, <4>1, <4>2
    <3>. QED
      BY <1>3, <2>2, <2>3, <3>1, <3>2
  <2>. QED
    BY <1>4, <2>4
<1>. HIDE DEF x
<1>7. y \in Flow /\ y.todo = x.todo /\ y.onFail = x.onFail /\ y.token = None
  BY <1>4 DEF Flow
<1>. HIDE DEF y, s
<1>8. Sound(y)
  BY <1>4, <1>6, <1>7 DEF Sound
<1>9. Becomes(f, y)
  BY <1>1, <1>4, <1>7, <1>8 DEF Becomes, Keeps
<1>10. /\ flow' \in [Flows -> Flow] /\ flow'[f] = y
       /\ \A g \in Flows \ {f} : flow'[g] = flow[g]
       /\ FlowInv' /\ GuardHasOneHolder'
  BY <1>1, <1>9, FlowsKept
<1>11. races' \subseteq Races /\ races \subseteq races'
  BY <1>1, WritesNotes
<1>12. TokenInv'
  BY <1>1, <1>7, <1>10 DEF IInv, TokenInv, Known
<1>13. FilesInv'
  <2>. SUFFICES ASSUME races' \cap {"two writers", "half written"} = {} PROVE Files'
    BY DEF FilesInv
  <2>1. Files /\ \A g \in Flows \ {f}, step \in Obliging : ~At(g, step)
    BY <1>1, AloneWriter DEF IInv
  <2>2. minted[config] = flow[f].user
    BY <1>1, <2>1 DEF Files
  <2>3. \A g \in Flows, step \in Obliging : ~At(g, step)'
    BY <1>5, <1>7, <1>10, <2>1 DEF At
  <2>. QED
    BY <1>1, <2>2, <2>3 DEF Files, Obliging
<1>14. Rest'
  BY <1>1, <1>2, <1>11 DEF Rest, WriteUser, manager, server
<1>. QED
  BY <1>10, <1>12, <1>13, <1>14, Together DEF Invs

\* Clear keeps the invariant.
LEMMA StepClear ==
    ASSUME IInv, NEW f \in Flows, Clear(f) PROVE IInv'
<1>. DEFINE a == IF config = None THEN <<"clear user">> ELSE <<"clear token", "clear user">>
            s == flow[f].todo
            x == Then(f, a)
<1>1. Rest /\ At(f, "clear") /\ flow' = [flow EXCEPT ![f] = x]
      /\ guard' = guard /\ races' = races /\ UNCHANGED <<config, sidecar, minted>>
  BY Together DEF Clear, Goes, manager, files, server
<1>2. flow[f] \in Flow /\ Sound(flow[f]) /\ s \in Seq(Steps) /\ InOrder(s) /\ s # <<>>
      /\ Head(s) = "clear"
  BY <1>1 DEF IInv, TypeOK, FlowInv, Flow, Sound, At
<1>3. /\ Follows(s, a) /\ a \in Seq(Steps) /\ a # <<>>
      /\ a[1] = (IF config = None THEN "clear user" ELSE "clear token")
      /\ \A k \in 1 .. Len(a) : a[k] \notin Syncing
  <2>1. {"clear token", "clear user"} \subseteq Steps \ (Final \cup Syncing)
        /\ "clear user" \in Later /\ {"clear token", "clear user"} \subseteq Clearing
        /\ "sync" \in Syncing
    BY DEF Steps, Credentials, Final, GuardedSteps, Syncing, Later, Clearing
  <2>2. CASE config = None
    <3>1. a = <<"clear user">>
      BY <2>2
    <3>2. a \in Seq(Steps)
      <4>1. <<"clear user">> \in Seq(Steps)
        BY DEF Steps, Credentials
      <4>. QED
        BY <3>1, <4>1, Zenon
    <3>3. Len(a) = 1 /\ a[1] = "clear user" /\ a # <<>> /\ \A k \in 1 .. Len(a) : a[k] = "clear user"
      BY <3>1, Single
    <3>. HIDE DEF a
    <3>4. Len(a) <= 2 /\ Len(a) # 2
      BY <3>3, Indices, Zenon
    <3>. QED
      BY <1>2, <2>1, <2>2, <3>2, <3>3, <3>4 DEF Follows
  <2>3. CASE config # None
    <3>1. a = <<"clear token", "clear user">>
      BY <2>3
    <3>2. a \in Seq(Steps)
      <4>1. <<"clear token", "clear user">> \in Seq(Steps)
        BY DEF Steps, Credentials
      <4>. QED
        BY <3>1, <4>1, Zenon
    <3>3. Len(a) = 2 /\ a[1] = "clear token" /\ a[2] = "clear user" /\ a # <<>>
          /\ \A k \in 1 .. Len(a) : k = 1 \/ k = 2
      <4>1. Len(<<"clear token", "clear user">>) = 2
            /\ <<"clear token", "clear user">>[1] = "clear token"
            /\ <<"clear token", "clear user">>[2] = "clear user"
            /\ <<"clear token", "clear user">> # <<>> /\ \A k \in 1 .. 2 : k = 1 \/ k = 2
        BY Pairs
      <4>. HIDE DEF a
      <4>. QED
        BY <3>1, <4>1
    <3>. HIDE DEF a
    <3>4. \A k \in 1 .. Len(a) : a[k] \in {"clear token", "clear user"}
      BY <3>3
    <3>5. Len(a) <= 2
      BY <3>3, Indices, Zenon
    <3>. QED
      BY <1>2, <2>1, <2>3, <3>2, <3>3, <3>4, <3>5 DEF Follows
  <2>. QED
    BY <2>2, <2>3
<1>. HIDE DEF a
<1>4. /\ x \in Flow /\ Sound(x) /\ x.todo = a \o Tail(s) /\ Keeps(f, x)
      /\ x.token \in {None, flow[f].token}
  BY <1>2, <1>3, ThenSound
<1>5. x.todo # <<>> /\ Head(x.todo) = a[1]
  BY <1>2, <1>3, <1>4, NextStep
<1>. HIDE DEF x, s
<1>6. Becomes(f, x)
  BY <1>1, <1>4 DEF Becomes, Keeps
<1>7. /\ flow' \in [Flows -> Flow] /\ flow'[f] = x
      /\ \A g \in Flows \ {f} : flow'[g] = flow[g]
      /\ FlowInv' /\ GuardHasOneHolder'
  BY <1>1, <1>6, FlowsKept
<1>8. TokenInv'
  BY <1>1, <1>4, <1>7 DEF IInv, TokenInv, Known
<1>9. FilesInv'
  <2>. SUFFICES ASSUME Files PROVE Files'
    BY <1>1 DEF IInv, FilesInv
  <2>1. /\ \A g \in Flows, step \in Obliging : g # f => (At(g, step)' <=> At(g, step))
        /\ ~At(f, "sync user")' /\ ~At(f, "write token")' /\ ~At(f, "write user")'
        /\ At(f, "clear user")' => config = None
        /\ ~At(f, "write user")
    BY <1>1, <1>3, <1>5, <1>7 DEF At
  <2>. QED
    BY <1>1, <1>7, <2>1 DEF Files, Obliging
<1>10. Rest'
  BY <1>1 DEF Rest, Clear, manager, files, server
<1>. QED
  BY <1>7, <1>8, <1>9, <1>10, Together DEF Invs

\* ClearToken keeps the invariant.
LEMMA StepClearToken ==
    ASSUME IInv, NEW f \in Flows, ClearToken(f) PROVE IInv'
<1>. DEFINE x == Then(f, <<>>)
<1>1. Rest /\ At(f, "clear token") /\ flow' = [flow EXCEPT ![f] = x] /\ Writes(f)
      /\ guard' = guard /\ UNCHANGED <<sidecar, minted>> /\ config' = None
  BY Together DEF ClearToken, Goes, manager, server
<1>2. /\ x \in Flow /\ Sound(x) /\ x.token \in {None, flow[f].token} /\ Keeps(f, x)
      /\ x.todo # <<>> => Head(x.todo) \in Later
  BY <1>1, ThenNone
<1>. HIDE DEF x
<1>3. Becomes(f, x)
  BY <1>1, <1>2 DEF Becomes, Keeps
<1>4. /\ flow' \in [Flows -> Flow] /\ flow'[f] = x
      /\ \A g \in Flows \ {f} : flow'[g] = flow[g]
      /\ FlowInv' /\ GuardHasOneHolder'
  BY <1>1, <1>3, FlowsKept
<1>5. races' \subseteq Races /\ races \subseteq races'
  BY <1>1, WritesNotes
<1>6. TokenInv'
  BY <1>1, <1>2, <1>4 DEF IInv, TokenInv, Known
<1>7. FilesInv'
  <2>. SUFFICES ASSUME races' \cap {"two writers", "half written"} = {} PROVE Files'
    BY DEF FilesInv
  <2>1. \A g \in Flows \ {f}, step \in Obliging : ~At(g, step)
    BY <1>1, AloneWriter DEF IInv
  <2>2. \A g \in Flows, step \in Obliging \ {"clear user"} : ~At(g, step)'
    BY <1>2, <1>4, <2>1 DEF At, Later, Obliging
  <2>. QED
    BY <1>1, <2>2 DEF Files, Obliging
<1>8. Rest'
  BY <1>1, <1>5 DEF Rest, ClearToken, manager, server
<1>. QED
  BY <1>4, <1>6, <1>7, <1>8, Together DEF Invs

\* ClearUser keeps the invariant.
LEMMA StepClearUser ==
    ASSUME IInv, NEW f \in Flows, ClearUser(f) PROVE IInv'
<1>. DEFINE x == Then(f, <<>>)
<1>1. Rest /\ At(f, "clear user") /\ flow' = [flow EXCEPT ![f] = x] /\ Writes(f)
      /\ guard' = guard /\ UNCHANGED <<config, minted>> /\ sidecar' = None
  BY Together DEF ClearUser, Goes, manager, server
<1>2. /\ x \in Flow /\ Sound(x) /\ x.token \in {None, flow[f].token} /\ Keeps(f, x)
      /\ x.todo # <<>> => Head(x.todo) \in Later /\ Head(x.todo) # "clear user"
  <2>1. PICK step \in {"clear user"} : At(f, step)
    BY <1>1
  <2>2. step # "unlock" /\ step # "clear token"
    OBVIOUS
  <2>. HIDE DEF x
  <2>3. x = Then(f, <<>>)
    BY DEF x
  <2>. QED
    BY <2>1, <2>2, <2>3, ThenNone
<1>. HIDE DEF x
<1>3. Becomes(f, x)
  BY <1>1, <1>2 DEF Becomes, Keeps
<1>4. /\ flow' \in [Flows -> Flow] /\ flow'[f] = x
      /\ \A g \in Flows \ {f} : flow'[g] = flow[g]
      /\ FlowInv' /\ GuardHasOneHolder'
  BY <1>1, <1>3, FlowsKept
<1>5. races' \subseteq Races /\ races \subseteq races'
  BY <1>1, WritesNotes
<1>6. TokenInv'
  BY <1>1, <1>2, <1>4 DEF IInv, TokenInv, Known
<1>7. FilesInv'
  <2>. SUFFICES ASSUME races' \cap {"two writers", "half written"} = {} PROVE Files'
    BY DEF FilesInv
  <2>1. \A g \in Flows \ {f}, step \in Obliging : ~At(g, step)
    BY <1>1, AloneWriter DEF IInv
  <2>2. \A g \in Flows, step \in Obliging : ~At(g, step)'
    BY <1>2, <1>4, <2>1 DEF At, Later, Obliging
  <2>. QED
    BY <1>1, <2>2 DEF Files, Obliging
<1>8. Rest'
  BY <1>1, <1>5 DEF Rest, ClearUser, manager, server
<1>. QED
  BY <1>4, <1>6, <1>7, <1>8, Together DEF Invs

-----------------------------------------------------------------------------
(* Restarts, crashes and the daemon                                        *)

\* Rotate keeps the invariant.
LEMMA StepRotate ==
    ASSUME IInv, NEW f \in Flows, Rotate(f) PROVE IInv'
<1>1. Rest /\ At(f, "rotate") /\ guard' = guard /\ races' = races
      /\ UNCHANGED <<config, sidecar, minted>> /\ flow \in [Flows -> Flow]
  BY Together DEF Rotate, manager, files, server
<1>2. Rest'
  BY <1>1 DEF Rest, Rotate, manager, files, server
<1>3. CASE Goes(f, <<>>)
  <2>1. flow' \in [Flows -> Flow] /\ Invs'
    BY <1>1, <1>3, PlainSteps, GoesPlainly
  <2>. QED
    BY <1>2, <2>1, Together
<1>4. ASSUME NEW g \in Flows \ {f}, Free(g),
             flow' = [flow EXCEPT ![f] = Then(f, <<>>), ![g] = [Idle EXCEPT !.todo = Restart]]
      PROVE  IInv'
  <2>. DEFINE x == Then(f, <<>>)
              y == [Idle EXCEPT !.todo = Restart]
  <2>1. /\ x \in Flow /\ Sound(x) /\ x.token \in {None, flow[f].token} /\ Keeps(f, x)
        /\ x.todo # <<>> => Head(x.todo) \in Later /\ (Head(x.todo) = "clear user" => FALSE)
    <3>1. PICK step \in {"rotate"} : At(f, step)
      BY <1>1
    <3>2. step # "unlock" /\ step # "clear token"
      OBVIOUS
    <3>. HIDE DEF x
    <3>3. x = Then(f, <<>>)
      BY DEF x
    <3>. QED
      BY <3>1, <3>2, <3>3, ThenNone
  <2>2. /\ Restart \in Seq(Steps) /\ Len(Restart) = 2 /\ Restart[1] = "stop" /\ Restart[2] = "start"
        /\ Head(Restart) = "stop" /\ Restart # <<"unlock">>
    <3>1. Restart \in Seq(Steps)
      BY DEF Restart, Steps
    <3>. QED
      BY <3>1, Pairs DEF Restart
  <2>3. /\ \A k \in 1 .. Len(Restart) : k = 1 \/ k = 2
        /\ \A k \in 2 .. Len(Restart) : k = 2
    BY <2>2, Pairs, Zenon
  <2>4. /\ {"stop", "start"} \cap (Final \cup Syncing) = {} /\ "start" \in Later /\ "stop" \notin Obliging
        /\ "start" # "sync" /\ "start" # "clear user" /\ "start" # "unlock" /\ "stop" # "unlock"
    BY DEF Final, GuardedSteps, Syncing, Later, Obliging
  <2>5. InOrder(Restart)
    BY <2>2, <2>3, <2>4 DEF InOrder
  <2>6. \A k \in 1 .. Len(Restart) : Restart[k] # "unlock" /\ Restart[k] \notin Syncing
    BY <2>2, <2>3, <2>4
  <2>7. y \in Flow /\ y.todo = Restart /\ y.onFail = <<>> /\ y.token = None
    BY <2>2, Ends DEF Flow, Idle
  <2>8. <<>> # <<"unlock">>
    OBVIOUS
  <2>. HIDE DEF y
  <2>9. Sound(y)
    BY <2>2, <2>5, <2>6, <2>7, <2>8 DEF Sound
  <2>10. ~Holds(g)
    BY <1>4, Ends, Indices, Zenon DEF Free, Holds
  <2>. HIDE DEF x
  <2>11. flow' = [flow EXCEPT ![f] = x, ![g] = y]
    BY <1>4 DEF x, y
  <2>12. /\ flow' \in [Flows -> Flow] /\ flow'[f] = x /\ flow'[g] = y
         /\ \A h \in Flows \ {f, g} : flow'[h] = flow[h]
    BY <1>1, <2>1, <2>7, <2>11
  <2>13. FlowInv'
    BY <2>1, <2>9, <2>12 DEF IInv, FlowInv
  <2>14. \A h \in Flows : Holds(h)' <=> Holds(h)
    <3>1. Holds(f)' <=> Holds(f)
      BY <2>1, <2>12 DEF Keeps, Holds
    <3>2. Holds(g)' <=> Holds(g)
      BY <2>6, <2>7, <2>10, <2>12 DEF Holds
    <3>3. \A h \in Flows \ {f, g} : Holds(h)' <=> Holds(h)
      BY <2>12 DEF Holds
    <3>. QED
      BY <3>1, <3>2, <3>3
  <2>15. GuardHasOneHolder'
    BY <1>1, <2>14 DEF IInv, GuardHasOneHolder
  <2>16. \A h \in Flows : Idles(h)
    <3>1. Idles(f)
      BY <1>1, <2>1, <2>12 DEF Idles, At, Later, Obliging
    <3>2. Idles(g)
      BY <1>4, <2>2, <2>4, <2>7, <2>12 DEF Idles, At, Free
    <3>3. \A h \in Flows \ {f, g} : Idles(h)
      BY <2>12 DEF Idles
    <3>. QED
      BY <3>1, <3>2, <3>3
  <2>17. FilesInv'
    BY <1>1, <2>16, FilesKept DEF IInv
  <2>18. TokenInv'
    BY <1>1, <2>1, <2>7, <2>12 DEF IInv, TokenInv, Known
  <2>. QED
    BY <1>2, <2>12, <2>13, <2>15, <2>17, <2>18, Together DEF Invs
<1>. QED
  BY <1>3, <1>4 DEF Rotate

\* AppDies keeps the invariant.
LEMMA StepAppDies == ASSUME IInv, AppDies PROVE IInv'
<1>1. Rest
  BY Together
<1>2. races' \subseteq Races /\ races \subseteq races'
  BY <1>1 DEF AppDies, Note, If, Rest, Races
<1>3. /\ flow' \in [Flows -> Flow] /\ \A f \in Flows : flow'[f] = Idle
      /\ UNCHANGED <<config, sidecar, minted>> /\ guard' = FALSE
  BY Ends DEF AppDies, files, server
<1>4. FlowInv'
  BY <1>3, Ends DEF FlowInv
<1>5. \A f \in Flows : ~Holds(f)'
  <2>1. \A k \in 1 .. Len(Idle.todo) : FALSE
    BY Ends, Indices, Zenon
  <2>. QED
    BY <1>3, <2>1 DEF Holds
<1>6. GuardHasOneHolder'
  BY <1>3, <1>5 DEF GuardHasOneHolder
<1>7. TokenInv'
  BY <1>3, Ends DEF IInv, TokenInv, Known
<1>8. FilesInv'
  <2>1. ASSUME NEW f \in Flows, At(f, "write user") PROVE "half written" \in races'
    BY <2>1 DEF AppDies, Note, If
  <2>2. \A f \in Flows : \A step : ~At(f, step)'
    BY <1>3, Ends DEF At
  <2>. QED
    BY <1>2, <1>3, <2>1, <2>2 DEF IInv, FilesInv, Files
<1>9. Rest'
  BY <1>1, <1>2, Moved DEF AppDies, Rest, files, server, States, Probe, NoProbe
<1>. QED
  BY <1>3, <1>4, <1>6, <1>7, <1>8, <1>9, Together DEF Invs

\* What the daemon and the server do leaves the flows, the guard and the files alone.
LEMMA OutsideKept ==
    ASSUME IInv, UNCHANGED <<flow, guard, config, sidecar, minted, races>>
    PROVE  flow' \in [Flows -> Flow] /\ Invs'
<1>1. flow' \in [Flows -> Flow]
  BY Together
<1>2. FlowInv'
  BY DEF IInv, FlowInv
<1>3. \A f \in Flows : Holds(f)' <=> Holds(f)
  BY DEF Holds
<1>4. GuardHasOneHolder'
  BY <1>3 DEF IInv, GuardHasOneHolder
<1>5. TokenInv'
  BY DEF IInv, TokenInv, Known
<1>6. \A f \in Flows : Idles(f)
  BY DEF Idles
<1>7. FilesInv'
  BY <1>6, FilesKept DEF IInv
<1>. QED
  BY <1>1, <1>2, <1>4, <1>5, <1>7 DEF Invs

\* What the daemon and the server do keeps the invariant.
LEMMA StepOutside == ASSUME IInv, Outside PROVE IInv'
<1>1. Rest
  BY Together
<1>2. UNCHANGED <<flow, guard, config, sidecar, minted, races, state, pending, probe, session>>
  BY DEF Outside, Others, DaemonLoads, DaemonServes, DaemonIsReady, DaemonLeaves, DaemonDies,
         TaskStarts, TaskEnds, Revoke, manager, files, server
<1>3. flow' \in [Flows -> Flow] /\ Invs'
  BY <1>2, OutsideKept
<1>4. NoProcess \in Process
  BY DEF NoProcess, Process
<1>5. daemon' \in Process /\ moves' \in 0 .. MaxMoves /\ dead' \subseteq Tokens
  <2>1. CASE DaemonLoads
    BY <1>1, <1>4, <2>1 DEF DaemonLoads, Others, server, Rest, Process
  <2>2. CASE DaemonServes
    BY <1>1, <2>2 DEF DaemonServes, Others, server, Rest, Process
  <2>3. CASE DaemonIsReady
    BY <1>1, <1>4, <2>3 DEF DaemonIsReady, Others, server, Rest, Process
  <2>4. CASE DaemonLeaves
    BY <1>1, <1>4, <2>4 DEF DaemonLeaves, Others, server, Rest, Process
  <2>5. CASE DaemonDies
    BY <1>1, <1>4, <2>5, Moved DEF DaemonDies, Others, server, Rest, Process
  <2>6. CASE TaskStarts
    BY <1>1, <2>6, Moved DEF TaskStarts, Others, server, Rest, Process
  <2>7. CASE TaskEnds
    BY <1>1, <2>7 DEF TaskEnds, Others, server, Rest, Process
  <2>8. ASSUME NEW t \in Tokens, Revoke(t)
        PROVE  daemon' \in Process /\ moves' \in 0 .. MaxMoves /\ dead' \subseteq Tokens
    BY <1>1, <2>8, Moved DEF Revoke, Others, server, Rest
  <2>. QED
    BY <2>1, <2>2, <2>3, <2>4, <2>5, <2>6, <2>7, <2>8 DEF Outside
<1>6. Rest'
  BY <1>1, <1>2, <1>5 DEF Rest
<1>. QED
  BY <1>3, <1>6, Together

-----------------------------------------------------------------------------
(* The invariant                                                           *)

\* The app begins with no flow, and with no token or with that of its user.
LEMMA InitIInv == ASSUME Init PROVE IInv
<1>1. /\ flow \in [Flows -> Flow] /\ \A f \in Flows : flow[f] = Idle
      /\ guard = FALSE /\ races = {} /\ moves = 0 /\ dead = {}
      /\ state = "stopped" /\ pending = FALSE /\ probe = NoProbe
  BY Ends DEF Init
<1>2. 1 \in Tokens /\ MaxMints \in Nat /\ 1 <= MaxMints /\ 0 \in 0 .. MaxMoves
  BY BoundsAssumption DEF Tokens
<1>3. NoProcess \in Process /\ \A t \in Tokens :
        [NoProcess EXCEPT !.phase = "running", !.token = t, !.old = TRUE] \in Process
  BY DEF NoProcess, Process
<1>4. /\ config \in Tokens \cup {None} /\ sidecar \in Users \cup {None} /\ daemon \in Process
      /\ session \in Users \cup {None, LoggedOut}
      /\ minted \in Seq(Users) /\ Len(minted) <= MaxMints
      /\ Known(config)
      /\ config # None /\ sidecar # None => minted[config] = sidecar
  <2>1. CASE config = None /\ sidecar = None /\ minted = <<>> /\ daemon = NoProcess /\ session = None
    <3>1. minted \in Seq(Users) /\ Len(minted) = 0
      BY <2>1, EmptySeq
    <3>2. Len(minted) <= MaxMints
      BY <1>2, <3>1
    <3>. QED
      BY <1>3, <2>1, <3>1, <3>2 DEF Known
  <2>2. ASSUME NEW u \in Users,
               session \in {None, u}, config = 1, sidecar = u, minted = <<u>>,
               daemon \in {NoProcess, [NoProcess EXCEPT !.phase = "running", !.token = 1,
                                                       !.old = TRUE]}
        PROVE  <1>4!:
    <3>1. minted \in Seq(Users) /\ Len(minted) = 1 /\ minted[1] = u /\ 1 \in 1 .. Len(minted)
      BY <2>2
    <3>2. daemon \in Process
      BY <1>2, <1>3, <2>2
    <3>. QED
      BY <1>2, <2>2, <3>1, <3>2 DEF Known
  <2>. QED
    BY <2>1, <2>2 DEF Init
<1>5. Rest
  BY <1>1, <1>2, <1>4 DEF Rest, States, Probe, NoProbe
<1>6. TokenInv
  BY <1>1, <1>4, Ends DEF TokenInv, Known
<1>7. FlowInv
  BY <1>1, Ends DEF FlowInv
<1>8. \A f \in Flows : ~Holds(f)
  BY <1>1, Ends, Indices, Zenon DEF Holds
<1>9. GuardHasOneHolder
  BY <1>1, <1>8 DEF GuardHasOneHolder
<1>10. \A f \in Flows : \A step : ~At(f, step)
  BY <1>1, Ends DEF At
<1>11. FilesInv
  BY <1>4, <1>10 DEF FilesInv, Files
<1>12. TypeOK
  BY <1>1, <1>5 DEF TypeOK, Rest
<1>. QED
  BY <1>6, <1>7, <1>9, <1>11, <1>12 DEF IInv

\* Nothing changes, nothing is lost.
LEMMA StutterIInv == ASSUME IInv, UNCHANGED vars PROVE IInv'
<1>1. Rest
  BY Together
<1>2. Rest'
  BY <1>1 DEF Rest, vars, manager, files, server
<1>3. flow' \in [Flows -> Flow] /\ Invs'
  BY OutsideKept DEF vars, manager, files, server
<1>. QED
  BY <1>2, <1>3, Together

\* Every step of the system keeps the invariant.
LEMMA NextIInv == ASSUME IInv, [Next]_vars PROVE IInv'
<1>1. CASE Polls
  <2>1. PICK f \in Flows : \/ PollTimer(f) \/ SeesItRunning(f) \/ SeesItNotRunning(f)
                           \/ ProbeToken(f) \/ TakeVerdict(f)
    BY <1>1 DEF Polls
  <2>. QED
    BY <2>1, StepPollTimer, StepSeesItRunning, StepSeesItNotRunning, StepProbeToken,
       StepTakeVerdict, Zenon
<1>2. CASE Lifecycle
  <2>1. PICK f \in Flows :
            \/ AskHealth(f) \/ TakeGuard(f) \/ Unlock(f) \/ CheckVersion(f)
            \/ Stop(f) \/ ExecStop(f) \/ StopEnds(f) \/ StopFails(f)
            \/ FindsItUp(f) \/ Start(f) \/ ExecStart(f) \/ StartFails(f) \/ StartEnds(f)
    BY <1>2 DEF Lifecycle
  <2>2. CASE AskHealth(f) \/ TakeGuard(f) \/ Unlock(f) \/ CheckVersion(f)
    BY <2>2, StepAskHealth, StepTakeGuard, StepUnlock, StepCheckVersion, Zenon
  <2>3. CASE Stop(f) \/ ExecStop(f) \/ StopEnds(f) \/ StopFails(f)
    BY <2>3, StepStop, StepExecStop, StepStopEnds, StepStopFails, Zenon
  <2>4. CASE FindsItUp(f) \/ Start(f) \/ ExecStart(f) \/ StartFails(f) \/ StartEnds(f)
    BY <2>4, StepFindsItUp, StepStart, StepExecStart, StepStartFails, StepStartEnds, Zenon
  <2>. QED
    BY <2>1, <2>2, <2>3, <2>4
<1>3. CASE Syncs
  <2>1. PICK f \in Flows :
            \/ ReadConfig(f) \/ ReadSidecar(f) \/ Mint(f) \/ MintFails(f)
            \/ WriteToken(f) \/ WriteUser(f) \/ WriteFails(f) \/ Rotate(f)
            \/ Clear(f) \/ ClearToken(f) \/ ClearUser(f)
    BY <1>3 DEF Syncs
  <2>2. CASE ReadConfig(f) \/ ReadSidecar(f) \/ Mint(f) \/ MintFails(f)
    BY <2>2, StepReadConfig, StepReadSidecar, StepMint, StepMintFails, Zenon
  <2>3. CASE WriteToken(f) \/ WriteUser(f) \/ WriteFails(f) \/ Rotate(f)
    BY <2>3, StepWriteToken, StepWriteUser, StepWriteFails, StepRotate, Zenon
  <2>4. CASE Clear(f) \/ ClearToken(f) \/ ClearUser(f)
    BY <2>4, StepClear, StepClearToken, StepClearUser, Zenon
  <2>. QED
    BY <2>1, <2>2, <2>3, <2>4
<1>4. CASE Renderer
  <2>1. CASE AppDies
    BY <2>1, StepAppDies
  <2>2. ASSUME NEW f \in Flows, \/ \E u \in Users : Login(f, u)
                                \/ \E op \in GuardedSteps : Click(f, op)
                                \/ Logout(f) \/ Reauthenticate(f)
        PROVE  IInv'
    BY <2>2, StepLogin, StepClick, StepLogout, StepReauthenticate, Zenon
  <2>. QED
    BY <1>4, <2>1, <2>2 DEF Renderer
<1>5. CASE Outside
  BY <1>5, StepOutside
<1>6. CASE UNCHANGED vars
  BY <1>6, StutterIInv
<1>. QED
  BY <1>1, <1>2, <1>3, <1>4, <1>5, <1>6 DEF Next

\* Whatever polls, starts, stops, syncs, logouts and crashes are interleaved, the inductive
\* invariant holds: flows keep their order, and the files are changed only as the flows say.
THEOREM Invariant == Spec => []IInv
<1>1. Init => IInv
  BY InitIInv
<1>2. IInv /\ [Next]_vars => IInv'
  BY NextIInv
<1>. QED
  BY <1>1, <1>2, PTL DEF Spec

\* The state of the daemon manager has its type: a shown status is one of the five, and no
\* handler is left with a token that was never made or a step that does not exist.
THEOREM TypeCorrect == Spec => []TypeOK
<1>1. IInv => TypeOK
  BY DEF IInv
<1>. QED
  BY <1>1, Invariant, PTL

\* withGuard: operationInProgress is set exactly while one handler runs under it, and every
\* way that handler can end, a failed start or stop included, gives it back.
THEOREM GuardIsExclusive == Spec => []GuardHasOneHolder
<1>1. IInv => GuardHasOneHolder
  BY DEF IInv
<1>. QED
  BY <1>1, Invariant, PTL

\* syncToken and clearToken: unless two of them wrote at once or a write was cut off between
\* the two files, the user in the sidecar owns the token in config.json when all is at rest.
THEOREM CachedTokenIsOwned == Spec => []CachedTokenIsTheUsers
<1>1. IInv => CachedTokenIsTheUsers
  <2>1. ASSUME AtRest PROVE \A f \in Flows : ~At(f, "write user")
    BY <2>1 DEF AtRest, Free, At
  <2>. QED
    BY <2>1 DEF IInv, FilesInv, Files, CachedTokenIsTheUsers
<1>. QED
  BY <1>1, Invariant, PTL

-----------------------------------------------------------------------------
(* Whose daemon it is                                                      *)

HeldBack == {"guarded stop", "stop"}
Ending == {"guarded stop", "stop", "exec stop"}
GuardedStop == {"guarded stop"}
Resync == {"sync"}
Rotating == Credentials \cup {"rotate"}

Hd(s) == IF s = <<>> THEN "none" ELSE Head(s)
Has(s, B) == \E k \in 1 .. Len(s) : s[k] \in B

\* Before a step of B there are only steps of C.
Prefixed(s, B, C) == \A k \in 2 .. Len(s) : s[k] \in B => \A j \in 1 .. (k - 1) : s[j] \in C

\* A stop waits for nothing but credentials, a logout's for nothing but the clear, and a clear
\* always comes with a stop.
Shape(s) ==
    /\ Prefixed(s, HeldBack, Rotating)
    /\ Prefixed(s, GuardedStop, Clearing)
    /\ Hd(s) \in Clearing => Has(s, HeldBack)
ShapeInv == \A f \in Flows : Shape(flow[f].todo)

Up == daemon.phase \in {"loaded", "starting", "running"}
Gone == daemon.phase \in {"off", "spawned"} \/ daemon.leaving
DaemonKnown == Up => daemon.token \in 1 .. Len(minted)

\* The flow will stop the daemon; a rotation that has seen none will not.
Kills(x) == Has(x.todo, Ending) \/ (Hd(x.todo) = "rotate" /\ (x.saw = None \/ Alive(x.saw)))
WillSync(x) == Hd(x.todo) \in Syncing \/ (Hd(x.todo) \in Clearing /\ Has(x.todo, Resync))
LogsOut(x) == Hd(x.todo) \in Clearing /\ Has(x.todo, GuardedStop)

\* No flow is at the credentials.
Unwritten == \A f \in Flows : Hd(flow[f].todo) \notin Credentials

\* What a sync remembers as the previous user is what the sidecar says.
Remembered == \A f \in Flows :
    Hd(flow[f].todo) \in {"mint", "write token", "write user"} => flow[f].prior = sidecar

\* A token in the file has its user beside it, or is about to have.
Owned ==
    (\A f \in Flows : Hd(flow[f].todo) # "write user") => (config # None => sidecar # None)

\* A daemon works for the user in the files, or will be stopped.
Served ==
    Gone \/ (\E f \in Flows : Kills(flow[f])) \/ minted[daemon.token] = sidecar
         \/ (config # None /\ minted[daemon.token] = minted[config])

\* The files are the present user's, or will be.
InSession == session \in Users =>
    \/ \E f \in Flows : WillSync(flow[f]) /\ flow[f].user = session
    \/ sidecar = session /\ Unwritten

\* After a logout the files are empty and the daemon is gone, or will be.
OutOfSession == session = LoggedOut =>
    \/ \E f \in Flows : LogsOut(flow[f])
    \/ /\ config = None /\ Unwritten
       /\ Gone \/ \E f \in Flows : Hd(flow[f].todo) \in Ending

Covered == Remembered /\ Owned /\ Served /\ InSession /\ OutOfSession
Cov == ShapeInv /\ DaemonKnown /\ (races = {} => Covered)

\* Indices after the first.
LEMMA Within == (\A n \in Nat : \A k \in 2 .. n : k \in 1 .. n) /\ \A k \in 2 .. 0 : FALSE
<1>1. \A n \in Nat : \A k \in 2 .. n : k \in 1 .. n
  OBVIOUS
<1>2. \A k \in 2 .. 0 : FALSE
  OBVIOUS
<1>. QED
  BY <1>1, <1>2

\* The head of what is left, and of a flow at a step.
LEMMA Heads ==
    /\ Hd(<<>>) = "none" /\ Hd(Idle.todo) = "none"
    /\ \A f \in Flows : \A step : At(f, step) => Hd(flow[f].todo) = step
    /\ \A f \in Flows : Free(f) => Hd(flow[f].todo) = "none"
    /\ \A B : ~Has(<<>>, B)
<1>1. \A B : ~Has(<<>>, B)
  BY Ends, Indices, Zenon DEF Has
<1>2. Idle.todo = <<>>
  BY Ends
<1>. QED
  BY <1>1, <1>2 DEF Hd, At, Free

\* The step that is next, and what is in a sequence after its first step was replaced.
LEMMA Spliced ==
    ASSUME NEW s \in Seq(Steps), s # <<>>, NEW a \in Seq(Steps), NEW t, t = a \o Tail(s)
    PROVE  /\ Len(s) \in Nat /\ Len(s) >= 1 /\ Len(a) \in Nat /\ Hd(s) = s[1]
           /\ t \in Seq(Steps) /\ Len(t) = Len(a) + Len(s) - 1
           /\ \A k \in 1 .. Len(a) : k \in 1 .. Len(t) /\ t[k] = a[k]
           /\ \A k \in 2 .. Len(s) : k + Len(a) - 1 \in 1 .. Len(t) /\ t[k + Len(a) - 1] = s[k]
           /\ \A k \in 1 .. Len(t) : \/ k \in 1 .. Len(a) /\ t[k] = a[k]
                                     \/ k - Len(a) + 1 \in 2 .. Len(s) /\ t[k] = s[k - Len(a) + 1]
           /\ t # <<>> => Len(t) >= 1 /\ Hd(t) = t[1]
<1>1. /\ t \in Seq(Steps) /\ Len(t) = Len(a) + Len(s) - 1
      /\ \A k \in 1 .. Len(t) : t[k] = IF k <= Len(a) THEN a[k] ELSE s[k - Len(a) + 1]
  BY Splice
<1>2. /\ Len(s) \in Nat /\ Len(s) >= 1 /\ Len(a) \in Nat
      /\ Hd(s) = s[1] /\ (t # <<>> => Len(t) >= 1 /\ Hd(t) = t[1])
  BY <1>1, First DEF Hd
<1>3. \A k \in 1 .. Len(a) : k \in 1 .. Len(t) /\ t[k] = a[k]
  BY <1>1, <1>2
<1>4. ASSUME NEW k \in 2 .. Len(s)
      PROVE  k + Len(a) - 1 \in 1 .. Len(t) /\ t[k + Len(a) - 1] = s[k]
  <2>. DEFINE m == k + Len(a) - 1
  <2>1. m \in 1 .. Len(t) /\ ~(m <= Len(a)) /\ m - Len(a) + 1 = k
    BY <1>1, <1>2
  <2>2. t[m] = s[m - Len(a) + 1]
    BY <1>1, <2>1
  <2>. QED
    BY <2>1, <2>2
<1>5. ASSUME NEW k \in 1 .. Len(t)
      PROVE  \/ k \in 1 .. Len(a) /\ t[k] = a[k]
             \/ k - Len(a) + 1 \in 2 .. Len(s) /\ t[k] = s[k - Len(a) + 1]
  <2>1. CASE k <= Len(a)
    BY <1>1, <1>2, <2>1
  <2>2. CASE ~(k <= Len(a))
    BY <1>1, <1>2, <2>2
  <2>. QED
    BY <2>1, <2>2
<1>. QED
  BY <1>1, <1>2, <1>3, <1>4, <1>5

\* The next step after one that is replaced by nothing is a later one of the flow.
LEMMA NextHead ==
    ASSUME NEW s \in Seq(Steps), s # <<>>, InOrder(s), Shape(s), NEW a \in Seq(Steps),
           NEW t, t = a \o Tail(s)
    PROVE  /\ a # <<>> => Hd(t) = a[1]
           /\ a = <<>> /\ Hd(t) # "none" =>
                /\ Hd(t) \in Later
                /\ Hd(t) = "clear user" => Hd(s) = "clear token"
                /\ Hd(t) = "sync" => Hd(s) \in Clearing
                /\ Hd(t) \in HeldBack => Hd(s) \in Rotating
<1>1. a # <<>> => Hd(t) = a[1]
  BY NextStep DEF Hd
<1>2. ASSUME a = <<>>, Hd(t) # "none"
      PROVE  /\ Hd(t) \in Later
             /\ Hd(t) = "clear user" => Hd(s) = "clear token"
             /\ Hd(t) = "sync" => Hd(s) \in Clearing
             /\ Hd(t) \in HeldBack => Hd(s) \in Rotating
  <2>1. Len(a) = 0 /\ t # <<>>
    BY <1>2, EmptySeq DEF Hd
  <2>2. Len(s) \in Nat /\ Len(t) = Len(s) - 1 /\ Len(t) >= 1 /\ Hd(t) = t[1] /\ Hd(s) = s[1]
    <3>1. /\ Len(s) \in Nat /\ Len(t) = Len(a) + Len(s) - 1 /\ Hd(s) = s[1]
          /\ t # <<>> => Len(t) >= 1 /\ Hd(t) = t[1]
      BY Spliced
    <3>. QED
      BY <2>1, <3>1
  <2>3. 1 \in 1 .. Len(t) /\ ~(1 \in 1 .. 0)
    BY <2>2
  <2>4. 1 - 0 + 1 = 2
    OBVIOUS
  <2>5. 2 \in 2 .. Len(s) /\ Hd(t) = s[2]
    BY <2>1, <2>2, <2>3, <2>4, Spliced
  <2>6. 1 \in 1 .. (2 - 1)
    OBVIOUS
  <2>. QED
    BY <2>2, <2>5, <2>6 DEF InOrder, Shape, Prefixed
<1>. QED
  BY <1>1, <1>2

\* What is left, but for the step that is replaced, stays; nothing else is added.
LEMMA StillHas ==
    ASSUME NEW s \in Seq(Steps), s # <<>>, NEW a \in Seq(Steps), NEW t, t = a \o Tail(s), NEW B
    PROVE  /\ Has(s, B) /\ Hd(s) \notin B => Has(t, B)
           /\ Has(a, B) => Has(t, B)
           /\ Has(t, B) => Has(a, B) \/ Has(s, B)
<1>1. ASSUME NEW k \in 1 .. Len(s), s[k] \in B, Hd(s) \notin B PROVE Has(t, B)
  <2>1. k \in 2 .. Len(s)
    BY <1>1, Spliced
  <2>2. k + Len(a) - 1 \in 1 .. Len(t) /\ t[k + Len(a) - 1] = s[k]
    BY <2>1, Spliced
  <2>. QED
    BY <1>1, <2>2 DEF Has
<1>2. ASSUME NEW k \in 1 .. Len(a), a[k] \in B PROVE Has(t, B)
  BY <1>2, Spliced DEF Has
<1>3. ASSUME NEW k \in 1 .. Len(t), t[k] \in B PROVE Has(a, B) \/ Has(s, B)
  <2>1. \/ k \in 1 .. Len(a) /\ t[k] = a[k]
        \/ k - Len(a) + 1 \in 2 .. Len(s) /\ t[k] = s[k - Len(a) + 1]
    BY Spliced
  <2>2. \A m \in 2 .. Len(s) : m \in 1 .. Len(s)
    BY Spliced
  <2>. QED
    BY <1>3, <2>1, <2>2 DEF Has
<1>. QED
  BY <1>1, <1>2, <1>3 DEF Has

\* Steps of C stay before those of B.
LEMMA PrefixKept ==
    ASSUME NEW s \in Seq(Steps), s # <<>>, NEW a \in Seq(Steps), NEW t, t = a \o Tail(s),
           NEW B, NEW C, Prefixed(s, B, C),
           \A k \in 2 .. Len(a) : a[k] \notin B,
           Hd(s) \in C => \A k \in 1 .. Len(a) : a[k] \in C
    PROVE  Prefixed(t, B, C)
<1>. SUFFICES ASSUME NEW k \in 2 .. Len(t), t[k] \in B, NEW j \in 1 .. (k - 1)
              PROVE  t[j] \in C
  BY DEF Prefixed
<1>0. /\ Len(s) \in Nat /\ Len(s) >= 1 /\ Len(a) \in Nat /\ Hd(s) = s[1]
      /\ Len(t) = Len(a) + Len(s) - 1
  BY Spliced
<1>1. k \in 1 .. Len(t) /\ j \in 1 .. Len(t)
  BY <1>0
<1>2. k - Len(a) + 1 \in 2 .. Len(s) /\ t[k] = s[k - Len(a) + 1]
  <2>1. ~(k \in 1 .. Len(a) /\ t[k] = a[k])
    <3>1. k \in 1 .. Len(a) => k \in 2 .. Len(a)
      OBVIOUS
    <3>. QED
      BY <3>1
  <2>. QED
    BY <1>1, <2>1, Spliced
<1>3. \A i \in 1 .. (k - Len(a)) : s[i] \in C
  <2>. DEFINE m == k - Len(a) + 1
  <2>1. m \in 2 .. Len(s) /\ s[m] \in B /\ m - 1 = k - Len(a)
    BY <1>0, <1>2
  <2>. HIDE DEF m
  <2>2. \A i \in 1 .. (m - 1) : s[i] \in C
    BY <2>1 DEF Prefixed
  <2>. QED
    BY <2>1, <2>2
<1>4. s[1] \in C
  BY <1>0, <1>2, <1>3
<1>5. CASE j \in 1 .. Len(a) /\ t[j] = a[j]
  BY <1>0, <1>4, <1>5
<1>6. CASE j - Len(a) + 1 \in 2 .. Len(s) /\ t[j] = s[j - Len(a) + 1]
  <2>1. j - Len(a) + 1 \in 1 .. (k - Len(a))
    BY <1>0, <1>6
  <2>. QED
    BY <1>3, <1>6, <2>1
<1>. QED
  BY <1>1, <1>5, <1>6, Spliced

\* The shape of a flow is kept when its first step is replaced.
LEMMA ShapeKept ==
    ASSUME NEW s \in Seq(Steps), s # <<>>, InOrder(s), Shape(s), NEW a \in Seq(Steps),
           NEW t, t = a \o Tail(s),
           \A k \in 2 .. Len(a) : a[k] \notin HeldBack,
           Hd(s) \in Rotating => \A k \in 1 .. Len(a) : a[k] \in Rotating,
           Hd(s) \in Clearing => \A k \in 1 .. Len(a) : a[k] \in Clearing,
           a # <<>> /\ a[1] \in Clearing => Hd(s) \in Clearing
    PROVE  Shape(t)
<1>1. Prefixed(t, HeldBack, Rotating)
  BY PrefixKept DEF Shape
<1>2. Prefixed(t, GuardedStop, Clearing)
  <2>1. \A k \in 2 .. Len(a) : a[k] \notin GuardedStop
    BY DEF GuardedStop, HeldBack
  <2>. QED
    BY <2>1, PrefixKept DEF Shape
<1>3. ASSUME Hd(t) \in Clearing PROVE Has(t, HeldBack)
  <2>1. Hd(s) \in Clearing
    <3>1. Hd(t) # "none"
      BY <1>3 DEF Clearing
    <3>2. Later \cap Clearing = {"clear user"} /\ "clear token" \in Clearing
      BY DEF Later, Clearing
    <3>3. a # <<>> => Hd(t) = a[1]
      BY NextHead
    <3>4. a = <<>> => Hd(t) \in Later /\ (Hd(t) = "clear user" => Hd(s) = "clear token")
      BY <3>1, NextHead
    <3>. QED
      BY <1>3, <3>2, <3>3, <3>4
  <2>2. Has(s, HeldBack) /\ Hd(s) \notin HeldBack
    BY <2>1 DEF Shape, Clearing, HeldBack
  <2>. QED
    BY <2>2, StillHas
<1>. QED
  BY <1>1, <1>2, <1>3 DEF Shape

\* What a flow that goes on still knows.
LEMMA ThenKnows ==
    ASSUME NEW f \in Flows, flow[f] \in Flow, NEW a \in Seq(Steps), NEW x, x = Then(f, a)
    PROVE  /\ x.todo = a \o Tail(flow[f].todo)
           /\ x.todo # <<>> =>
                /\ x.user = flow[f].user /\ x.token = flow[f].token
                /\ x.prior = flow[f].prior /\ x.saw = None
<1>. DEFINE t == a \o Tail(flow[f].todo)
            y == [flow[f] EXCEPT !.todo = t, !.saw = None]
<1>1. /\ y.todo = t /\ y.user = flow[f].user /\ y.token = flow[f].token
      /\ y.prior = flow[f].prior /\ y.saw = None
  BY DEF Flow
<1>. HIDE DEF y
<1>2. CASE t = <<>>
  <2>1. x = Idle
    BY <1>2 DEF Then
  <2>2. Idle.todo = <<>>
    BY Ends
  <2>. HIDE DEF t
  <2>3. x.todo = <<>>
    BY <2>1, <2>2
  <2>. QED
    BY <1>2, <2>3 DEF t
<1>3. CASE t # <<>>
  <2>1. x = y
    BY <1>3 DEF Then, y
  <2>. HIDE DEF t
  <2>. QED
    BY <1>1, <2>1 DEF t
<1>. QED
  BY <1>2, <1>3

\* The flow f becomes y.
LEMMA OneFlow ==
    ASSUME IInv, ShapeInv, NEW f \in Flows, NEW y, Shape(y.todo), flow' = [flow EXCEPT ![f] = y]
    PROVE  /\ ShapeInv' /\ flow'[f] = y
           /\ \A g \in Flows \ {f} : flow'[g] = flow[g]
<1>1. flow \in [Flows -> Flow]
  BY DEF IInv, TypeOK
<1>2. flow'[f] = y /\ \A g \in Flows \ {f} : flow'[g] = flow[g]
  BY <1>1
<1>. QED
  BY <1>2 DEF ShapeInv

\* The daemon is not a new one, or is gone.
Calm == (Gone => Gone') /\ (~Gone' => daemon'.token = daemon.token)

\* A step away from the credentials, that goes on to stop the daemon if that was to come.
LEMMA Away ==
    ASSUME IInv, Cov, ShapeInv', DaemonKnown',
           \A g \in Flows : \/ flow'[g] = flow[g]
                            \/ /\ Hd(flow[g].todo) \notin Credentials
                               /\ Hd(flow'[g].todo) \notin Credentials,
           UNCHANGED <<config, sidecar, minted, session>>, races \subseteq races',
           races' = {} => \/ Gone'
                          \/ /\ Calm
                             /\ (\E g \in Flows : Kills(flow[g])) => \E g \in Flows : Kills(flow'[g])
                             /\ (\E g \in Flows : Hd(flow[g].todo) \in Ending) =>
                                    \E g \in Flows : Hd(flow'[g].todo) \in Ending
    PROVE  Cov'
<1>. SUFFICES ASSUME races' = {} PROVE Covered'
  BY DEF Cov
<1>2. Covered /\ races = {}
  BY DEF Cov
<1>3. /\ \A g \in Flows : Hd(flow'[g].todo) \in Credentials =>
            flow'[g] = flow[g] /\ Hd(flow[g].todo) \in Credentials
      /\ \A g \in Flows : Hd(flow[g].todo) \in Credentials => flow'[g] = flow[g]
  OBVIOUS
<1>4. {"mint", "write token", "write user"} \subseteq Credentials /\ Syncing \subseteq Credentials
      /\ Clearing \subseteq Credentials
  BY DEF Credentials, Syncing, Clearing
<1>5. Remembered'
  BY <1>2, <1>3, <1>4 DEF Covered, Remembered
<1>6. Owned'
  BY <1>2, <1>3, <1>4 DEF Covered, Owned
<1>8. Served'
  BY <1>2 DEF Covered, Served, Calm
<1>9. Unwritten => Unwritten'
  BY <1>3 DEF Unwritten
<1>10. InSession'
  <2>1. \A g \in Flows : WillSync(flow[g]) => flow'[g] = flow[g]
    BY <1>3, <1>4 DEF WillSync
  <2>. QED
    BY <1>2, <1>9, <2>1 DEF Covered, InSession
<1>11. OutOfSession'
  <2>1. \A g \in Flows : LogsOut(flow[g]) => flow'[g] = flow[g]
    BY <1>3, <1>4 DEF LogsOut
  <2>2. Gone \/ (\E g \in Flows : Hd(flow[g].todo) \in Ending)
            => Gone' \/ \E g \in Flows : Hd(flow'[g].todo) \in Ending
    BY DEF Calm
  <2>. QED
    BY <1>2, <1>9, <2>1, <2>2 DEF Covered, OutOfSession
<1>. QED
  BY <1>5, <1>6, <1>8, <1>10, <1>11 DEF Covered

\* Such a step of one flow.
LEMMA Onward ==
    ASSUME IInv, Cov, NEW f \in Flows, NEW y, Shape(y.todo), flow' = [flow EXCEPT ![f] = y],
           Hd(flow[f].todo) \notin Credentials, Hd(y.todo) \notin Credentials,
           UNCHANGED <<config, sidecar, minted, session>>, races \subseteq races', DaemonKnown',
           races' = {} => \/ Gone'
                          \/ /\ Calm
                             /\ Kills(flow[f]) => Kills(y)
                             /\ Hd(flow[f].todo) \in Ending => Hd(y.todo) \in Ending
    PROVE  Cov'
<1>1. /\ ShapeInv' /\ flow'[f] = y /\ \A g \in Flows \ {f} : flow'[g] = flow[g]
  BY OneFlow DEF Cov
<1>2. \A g \in Flows : \/ flow'[g] = flow[g]
                       \/ Hd(flow[g].todo) \notin Credentials /\ Hd(flow'[g].todo) \notin Credentials
  BY <1>1
<1>3. ASSUME Kills(flow[f]) => Kills(y), Hd(flow[f].todo) \in Ending => Hd(y.todo) \in Ending
      PROVE  /\ \A g \in Flows : Kills(flow[g]) => Kills(flow'[g])
             /\ \A g \in Flows : Hd(flow[g].todo) \in Ending => Hd(flow'[g].todo) \in Ending
  BY <1>1, <1>3
<1>. QED
  BY <1>1, <1>2, <1>3, Away

\* With a race noted, only the shape matters.
LEMMA Raced ==
    ASSUME IInv, Cov, NEW f \in Flows, NEW y, Shape(y.todo), flow' = [flow EXCEPT ![f] = y],
           DaemonKnown', races' # {}
    PROVE  Cov'
  BY OneFlow DEF Cov

\* A step that waits for nothing.
LEMMA ShapeOne ==
    ASSUME NEW b, b \notin Clearing
    PROVE  Shape(<<b>>) /\ Hd(<<b>>) = b /\ Shape(<<>>) /\ \A B : Has(<<b>>, B) <=> b \in B
<1>1. Len(<<b>>) = 1 /\ Len(<<>>) = 0 /\ Hd(<<b>>) = b /\ Hd(<<>>) = "none" /\ "none" \notin Clearing
  BY Single, Heads, Ends DEF Hd, Clearing
<1>2. \A k \in 2 .. 1 : FALSE
  BY Indices
<1>3. \A k \in 2 .. 0 : FALSE
  OBVIOUS
<1>4. \A B : Has(<<b>>, B) <=> b \in B
  BY Single, Indices DEF Has
<1>5. Shape(<<b>>)
  BY <1>1, <1>2 DEF Shape, Prefixed
<1>6. Shape(<<>>)
  BY <1>1, <1>3 DEF Shape, Prefixed
<1>. QED
  BY <1>1, <1>4, <1>5, <1>6

\* What a flow at a step is made of.
LEMMA FlowAt ==
    ASSUME IInv, Cov, NEW f \in Flows, NEW step, At(f, step)
    PROVE  /\ flow[f] \in Flow /\ flow[f].todo \in Seq(Steps) /\ flow[f].todo # <<>>
           /\ InOrder(flow[f].todo) /\ Shape(flow[f].todo) /\ Hd(flow[f].todo) = step
           /\ step \in Steps
<1>1. /\ flow[f] \in Flow /\ flow[f].todo \in Seq(Steps) /\ flow[f].todo # <<>>
      /\ InOrder(flow[f].todo) /\ Shape(flow[f].todo) /\ Head(flow[f].todo) = step
  BY DEF IInv, TypeOK, FlowInv, Flow, Sound, At, Cov, ShapeInv
<1>2. Head(flow[f].todo) \in Steps
  BY <1>1, HeadTailProperties
<1>. QED
  BY <1>1, <1>2 DEF Hd

\* A plain step gives way to nothing, to another one or to a restart.
LEMMA PlainShape ==
    ASSUME IInv, Cov, NEW f \in Flows, NEW step \in Plain, At(f, step), step # "rotate",
           NEW a, a = <<>> \/ a = Restart \/ \E b \in Plain : a = <<b>>,
           NEW y, y = Then(f, a)
    PROVE  /\ Shape(y.todo) /\ Hd(y.todo) \notin Credentials
           /\ step \notin Ending /\ Kills(flow[f]) => Kills(y)
           /\ a = <<"exec stop">> => Kills(y) /\ Hd(y.todo) = "exec stop"
<1>. DEFINE s == flow[f].todo
            t == y.todo
<1>1. /\ flow[f] \in Flow /\ s \in Seq(Steps) /\ s # <<>> /\ InOrder(s) /\ Shape(s) /\ Hd(s) = step
  BY FlowAt
<1>2. step \notin Rotating /\ step \notin Clearing /\ step \notin Credentials
  BY DEF Plain, Obliging, Syncing, Clearing, Credentials, Rotating
<1>3. /\ a \in Seq(Steps) /\ \A k \in 2 .. Len(a) : a[k] \notin HeldBack
      /\ a # <<>> => a[1] \notin Credentials /\ a[1] \notin Clearing
  <2>1. CASE a = <<>>
    <3>1. \A k \in 2 .. 0 : FALSE
      OBVIOUS
    <3>. QED
      BY <2>1, <3>1, Ends DEF Idle, Flow
  <2>2. CASE a = Restart
    <3>1. /\ Restart[2] \notin HeldBack /\ Restart[1] \notin Credentials /\ Restart[1] \notin Clearing
          /\ Restart \in Seq(Steps) /\ Len(Restart) = 2
      BY Pairs DEF Restart, HeldBack, Credentials, Clearing, Steps
    <3>2. \A k \in 2 .. 2 : k = 2
      OBVIOUS
    <3>. QED
      BY <2>2, <3>1, <3>2, Zenon
  <2>3. ASSUME NEW b \in Plain, a = <<b>>
        PROVE  <1>3!:
    <3>1. b \in Steps /\ b \notin Credentials /\ b \notin Clearing
      BY DEF Plain, Obliging, Syncing, Clearing, Credentials
    <3>2. a \in Seq(Steps) /\ Len(a) = 1 /\ a[1] = b
      BY <2>3, <3>1
    <3>3. \A k \in 2 .. 1 : FALSE
      BY Indices
    <3>. QED
      BY <3>1, <3>2, <3>3
  <2>. QED
    BY <2>1, <2>2, <2>3
<1>4. t = a \o Tail(s)
  BY <1>1, <1>3, ThenKnows
<1>5. Shape(t)
  BY <1>1, <1>2, <1>3, <1>4, ShapeKept
<1>6. Hd(t) \notin Credentials
  <2>1. CASE a # <<>>
    BY <1>1, <1>3, <1>4, <2>1, NextHead
  <2>2. CASE a = <<>> /\ Hd(t) # "none"
    <3>0. /\ Hd(t) \in Later /\ (Hd(t) = "clear user" => Hd(s) = "clear token")
          /\ (Hd(t) = "sync" => Hd(s) \in Clearing)
      <4>. HIDE DEF s, t
      <4>. QED
        BY <1>1, <1>3, <1>4, <2>2, NextHead
    <3>1. /\ Hd(t) \in Later /\ (Hd(t) = "clear user" => step = "clear token")
          /\ (Hd(t) = "sync" => step \in Clearing)
      BY <1>1, <3>0
    <3>2. Hd(t) # "clear user" /\ Hd(t) # "sync"
      BY <1>2, <3>1 DEF Clearing
    <3>3. \A b \in Later : b # "clear user" /\ b # "sync" => b \notin Credentials
      BY DEF Later, Credentials
    <3>. QED
      BY <3>1, <3>2, <3>3
  <2>3. CASE Hd(t) = "none"
    BY <2>3 DEF Credentials
  <2>. QED
    BY <2>1, <2>2, <2>3
<1>7. ASSUME step \notin Ending, Kills(flow[f]) PROVE Kills(y)
  <2>1. Has(s, Ending)
    BY <1>1, <1>7 DEF Kills
  <2>. HIDE DEF s, t
  <2>2. Has(t, Ending)
    BY <1>1, <1>3, <1>4, <1>7, <2>1, StillHas
  <2>. USE DEF t
  <2>. QED
    BY <2>2 DEF Kills
<1>8. ASSUME a = <<"exec stop">> PROVE Kills(y) /\ Hd(t) = "exec stop"
  <2>1. Has(a, Ending)
    <3>1. "exec stop" \notin Clearing /\ "exec stop" \in Ending
      BY DEF Clearing, Ending
    <3>2. Has(<<"exec stop">>, Ending)
      BY <3>1, ShapeOne
    <3>. QED
      BY <1>8, <3>2
  <2>2. Has(t, Ending)
    BY <1>1, <1>3, <1>4, <2>1, StillHas
  <2>3. a # <<>> /\ a[1] = "exec stop"
    BY <1>8
  <2>4. Hd(t) = a[1]
    BY <1>1, <1>3, <1>4, <2>3, NextHead
  <2>. QED
    BY <2>2, <2>3, <2>4 DEF Kills
<1>. QED
  BY <1>5, <1>6, <1>7, <1>8

\* A plain step, other than of a rotation, of a flow that goes on.
LEMMA PlainCov ==
    ASSUME IInv, Cov, NEW f \in Flows, NEW step \in Plain, At(f, step), step # "rotate",
           NEW a, a = <<>> \/ a = Restart \/ \E b \in Plain : a = <<b>>,
           Goes(f, a), UNCHANGED <<config, sidecar, minted, session>>, races \subseteq races',
           DaemonKnown',
           races' = {} => Gone' \/ (Calm /\ (step \in Ending => a = <<"exec stop">>))
    PROVE  Cov'
<1>1. PICK y : y = Then(f, a)
  OBVIOUS
<1>2. /\ Shape(y.todo) /\ Hd(y.todo) \notin Credentials
      /\ step \notin Ending /\ Kills(flow[f]) => Kills(y)
      /\ a = <<"exec stop">> => Kills(y) /\ Hd(y.todo) = "exec stop"
  BY <1>1, PlainShape
<1>3. Hd(flow[f].todo) = step /\ step \notin Credentials /\ "exec stop" \in Ending
  BY FlowAt DEF Plain, Obliging, Syncing, Clearing, Credentials, Ending
<1>4. flow' = [flow EXCEPT ![f] = y]
  BY <1>1 DEF Goes
<1>. QED
  BY <1>2, <1>3, <1>4, Onward

\* The daemon stays as it is.
LEMMA DaemonStays ==
    ASSUME Cov, daemon' = daemon, minted' = minted PROVE Calm /\ DaemonKnown'
  BY DEF Cov, Calm, Gone, DaemonKnown, Up

\* A plain step that leaves the daemon alone.
LEMMA PlainStays ==
    ASSUME IInv, Cov, NEW f \in Flows, NEW step \in Plain, At(f, step), step # "rotate",
           NEW a, a = <<>> \/ a = Restart \/ \E b \in Plain : a = <<b>>,
           Goes(f, a), UNCHANGED <<config, sidecar, minted, session, daemon>>,
           races \subseteq races', step \in Ending => a = <<"exec stop">>
    PROVE  Cov'
  BY DaemonStays, PlainCov

\* The steps that end the daemon, and those that are plain.
LEMMA EndingSteps ==
    /\ "exec stop" \in Ending /\ "stop" \in Ending /\ "guarded stop" \in Ending
    /\ {"poll", "auto start", "verdict", "version", "start", "exec start", "start ends",
        "stop ends", "unlock", "guarded start", "guarded restart"} \cap Ending = {}
    /\ {"poll", "auto start", "verdict", "version", "stop", "exec stop", "stop ends",
        "start", "exec start", "start ends"} \subseteq Plain
  BY DEF Ending, Plain, Steps, Final, GuardedSteps, Obliging, Syncing, Clearing

\* What fetchHealth returns.
LEMMA ReportsCov ==
    ASSUME IInv, Cov, NEW f \in Flows, NEW step \in {"poll", "auto start", "verdict"}, At(f, step),
           NEW status, Reports(f, status),
           UNCHANGED <<config, sidecar, minted, session, daemon>>, races \subseteq races'
    PROVE  Cov'
<1>1. step \in Plain /\ step # "rotate" /\ step \notin Ending /\ "version" \in Plain /\ "start" \in Plain
  BY EndingSteps
<1>2. Goes(f, <<>>) \/ Goes(f, <<"version">>) \/ Goes(f, <<"start">>)
  BY DEF Reports
<1>3. PICK a : Goes(f, a) /\ (a = <<>> \/ a = <<"version">> \/ a = <<"start">>)
  BY <1>2, Zenon
<1>. QED
  BY <1>1, <1>3, PlainStays

\* SeesItRunning keeps it covered.
LEMMA CovSeesItRunning ==
    ASSUME IInv, Cov, NEW f \in Flows, SeesItRunning(f) PROVE Cov'
  BY ReportsCov DEF SeesItRunning, files, server

\* SeesItNotRunning keeps it covered.
LEMMA CovSeesItNotRunning ==
    ASSUME IInv, Cov, NEW f \in Flows, SeesItNotRunning(f) PROVE Cov'
  BY ReportsCov DEF SeesItNotRunning, files, server

\* TakeVerdict keeps it covered.
LEMMA CovTakeVerdict ==
    ASSUME IInv, Cov, NEW f \in Flows, TakeVerdict(f) PROVE Cov'
<1>1. races \subseteq races'
  BY DEF TakeVerdict, Note
<1>. QED
  BY <1>1, ReportsCov DEF TakeVerdict, files, server

\* CheckVersion keeps it covered.
LEMMA CovCheckVersion ==
    ASSUME IInv, Cov, NEW f \in Flows, CheckVersion(f) PROVE Cov'
<1>1. PICK a : Goes(f, a) /\ (a = <<>> \/ a = Restart)
  BY DEF CheckVersion
<1>2. /\ At(f, "version") /\ UNCHANGED <<config, sidecar, minted, session, daemon>> /\ races' = races
      /\ "version" \in Plain /\ "version" \notin Ending
  BY EndingSteps DEF CheckVersion, files, server
<1>. QED
  BY <1>1, <1>2, PlainStays

\* Stop keeps it covered.
LEMMA CovStop ==
    ASSUME IInv, Cov, NEW f \in Flows, Stop(f) PROVE Cov'
<1>1. /\ At(f, "stop") /\ UNCHANGED <<config, sidecar, minted, session, daemon>> /\ races' = races
      /\ "stop" \in Plain /\ "exec stop" \in Plain /\ Goes(f, <<"exec stop">>)
  BY EndingSteps DEF Stop, files, server
<1>. QED
  BY <1>1, PlainStays

\* ExecStop keeps it covered.
LEMMA CovExecStop ==
    ASSUME IInv, Cov, NEW f \in Flows, ExecStop(f) PROVE Cov'
<1>1. /\ At(f, "exec stop") /\ UNCHANGED <<config, sidecar, minted, session>>
      /\ races \subseteq races' /\ (races' = {} => ~ComingUp)
      /\ daemon' = IF Serving THEN [daemon EXCEPT !.leaving = TRUE] ELSE daemon
      /\ daemon \in Process /\ Goes(f, <<"stop ends">>)
  BY DEF ExecStop, files, server, Note, If, IInv, TypeOK
<1>2. "exec stop" \in Plain /\ "stop ends" \in Plain
  BY EndingSteps
<1>3. DaemonKnown'
  BY <1>1 DEF Cov, DaemonKnown, Up, Process
<1>4. races' = {} => Gone'
  BY <1>1 DEF Gone, ComingUp, Serving, Process
<1>. QED
  BY <1>1, <1>2, <1>3, <1>4, PlainCov

\* StopEnds keeps it covered.
LEMMA CovStopEnds ==
    ASSUME IInv, Cov, NEW f \in Flows, StopEnds(f) PROVE Cov'
<1>1. /\ At(f, "stop ends") /\ UNCHANGED <<config, sidecar, minted, session, daemon>>
      /\ races \subseteq races' /\ Goes(f, <<>>)
  BY DEF StopEnds, files, server, Note
<1>2. "stop ends" \in Plain /\ "stop ends" \notin Ending
  BY EndingSteps
<1>. QED
  BY <1>1, <1>2, PlainStays

\* FindsItUp keeps it covered.
LEMMA CovFindsItUp ==
    ASSUME IInv, Cov, NEW f \in Flows, FindsItUp(f) PROVE Cov'
<1>1. /\ At(f, "start") /\ UNCHANGED <<config, sidecar, minted, session, daemon>>
      /\ races' = races /\ Goes(f, <<>>)
  BY DEF FindsItUp, files, server
<1>2. "start" \in Plain /\ "start" \notin Ending
  BY EndingSteps
<1>. QED
  BY <1>1, <1>2, PlainStays

\* Start keeps it covered.
LEMMA CovStart ==
    ASSUME IInv, Cov, NEW f \in Flows, Start(f) PROVE Cov'
<1>1. /\ At(f, "start") /\ UNCHANGED <<config, sidecar, minted, session, daemon>>
      /\ races' = races /\ Goes(f, <<"exec start">>)
  BY DEF Start, files, server
<1>2. "start" \in Plain /\ "start" \notin Ending /\ "exec start" \in Plain
  BY EndingSteps
<1>. QED
  BY <1>1, <1>2, PlainStays

\* StartEnds keeps it covered.
LEMMA CovStartEnds ==
    ASSUME IInv, Cov, NEW f \in Flows, StartEnds(f) PROVE Cov'
<1>1. /\ At(f, "start ends") /\ UNCHANGED <<config, sidecar, minted, session, daemon>>
      /\ races' = races /\ Goes(f, <<>>)
  BY DEF StartEnds, files, server
<1>2. "start ends" \in Plain /\ "start ends" \notin Ending
  BY EndingSteps
<1>. QED
  BY <1>1, <1>2, PlainStays

\* ExecStart keeps it covered.
LEMMA CovExecStart ==
    ASSUME IInv, Cov, NEW f \in Flows, ExecStart(f) PROVE Cov'
<1>1. /\ At(f, "exec start") /\ UNCHANGED <<config, sidecar, minted, session>>
      /\ races' = races /\ Goes(f, <<"start ends">>) /\ daemon \in Process
      /\ daemon' = IF daemon.phase = "off" THEN [NoProcess EXCEPT !.phase = "spawned"] ELSE daemon
  BY DEF ExecStart, files, server, IInv, TypeOK
<1>2. "exec start" \in Plain /\ "exec start" \notin Ending /\ "start ends" \in Plain
  BY EndingSteps
<1>3. Calm /\ DaemonKnown'
  <2>1. CASE daemon.phase = "off"
    <3>1. daemon'.phase = "spawned"
      BY <1>1, <2>1 DEF NoProcess
    <3>. QED
      BY <3>1 DEF Calm, Gone, DaemonKnown, Up
  <2>2. CASE daemon.phase # "off"
    BY <1>1, <2>2, DaemonStays
  <2>. QED
    BY <2>1, <2>2
<1>. QED
  BY <1>1, <1>2, <1>3, PlainCov

\* The answer of a daemon that is there.
LEMMA CovAskHealth ==
    ASSUME IInv, Cov, NEW f \in Flows, AskHealth(f) PROVE Cov'
<1>1. PICK y : y = [flow[f] EXCEPT !.saw = Answer(f)]
  OBVIOUS
<1>2. /\ flow[f] \in Flow /\ daemon \in Process /\ flow' = [flow EXCEPT ![f] = y]
      /\ UNCHANGED <<config, sidecar, minted, session, daemon>> /\ races \subseteq races'
      /\ races' = {} => ~(At(f, "rotate") /\ ComingUp)
  BY <1>1 DEF AskHealth, files, server, Note, If, IInv, TypeOK
<1>3. y.todo = flow[f].todo /\ y.saw = Answer(f)
  BY <1>1, <1>2 DEF Flow
<1>4. PICK step : step = Head(flow[f].todo)
  OBVIOUS
<1>5. At(f, step) /\ step \in {"poll", "auto start", "version", "rotate", "start"}
  BY <1>4 DEF AskHealth, At, Free
<1>6. Hd(flow[f].todo) = step /\ step \notin Credentials /\ Shape(y.todo)
  BY <1>3, <1>5, FlowAt DEF Credentials
<1>7. Calm /\ DaemonKnown'
  BY <1>2, DaemonStays
<1>8. ASSUME races' = {}, Kills(flow[f]), ~Gone' PROVE Kills(y)
  <2>1. CASE Has(flow[f].todo, Ending)
    BY <1>3, <2>1 DEF Kills
  <2>2. CASE step = "rotate"
    <3>1. ~ComingUp
      BY <1>2, <1>5, <1>8, <2>2
    <3>2. Serving
      BY <1>2, <1>8, <3>1 DEF Gone, ComingUp, Serving, Process
    <3>3. Alive(Answer(f))
      BY <3>2 DEF Alive, Answer, Serving
    <3>. QED
      BY <1>3, <1>6, <2>2, <3>3 DEF Kills
  <2>. QED
    BY <1>6, <1>8, <2>1, <2>2 DEF Kills
<1>. QED
  BY <1>2, <1>3, <1>6, <1>7, <1>8, Onward

\* A step that takes or gives back the guard is all that is left of its flow.
LEMMA FinalAlone ==
    ASSUME IInv, Cov, NEW f \in Flows, NEW step \in Final, At(f, step)
    PROVE  /\ \A B : Has(flow[f].todo, B) <=> step \in B
           /\ Hd(flow[f].todo) = step /\ step \notin Credentials
           /\ Kills(flow[f]) <=> step = "guarded stop"
<1>1. /\ flow[f].todo \in Seq(Steps) /\ flow[f].todo # <<>> /\ InOrder(flow[f].todo)
      /\ Hd(flow[f].todo) = step /\ Head(flow[f].todo) = step
  BY FlowAt DEF At
<1>2. Len(flow[f].todo) = 1 /\ flow[f].todo[1] = step
  BY <1>1, First
<1>3. \A B : Has(flow[f].todo, B) <=> step \in B
  BY <1>2, Indices DEF Has
<1>4. step # "rotate" /\ step \notin Credentials /\ (step \in Ending <=> step = "guarded stop")
  BY DEF Final, GuardedSteps, Ending, Credentials
<1>5. Kills(flow[f]) <=> step = "guarded stop"
  BY <1>1, <1>3, <1>4 DEF Kills
<1>. QED
  BY <1>1, <1>3, <1>4, <1>5

\* What runs under the guard stops the daemon first, if it does.
LEMMA GuardedShape ==
    ASSUME NEW op \in GuardedSteps, NEW a, a = Guarded(op)
    PROVE  /\ Shape(a) /\ Hd(a) \notin Credentials
           /\ op = "guarded stop" => Hd(a) \in Ending /\ Has(a, Ending)
<1>1. a \in {<<"start", "unlock">>, <<"stop", "unlock">>, <<"stop", "start", "unlock">>}
      /\ (op = "guarded stop" => a = <<"stop", "unlock">>)
  BY DEF Guarded, GuardedSteps
<1>2. /\ a # <<>> /\ Len(a) \in {2, 3} /\ a[1] \in {"start", "stop"} /\ Head(a) = a[1]
      /\ \A k \in 2 .. Len(a) : a[k] \in {"start", "unlock"}
  <2>1. ASSUME NEW b \in {"start", "stop"}, a = <<b, "unlock">> PROVE <1>2!:
    <3>1. Len(a) = 2 /\ a[1] = b /\ a[2] = "unlock" /\ Head(a) = b /\ a # <<>>
      BY <2>1, Pairs
    <3>2. \A k \in 2 .. Len(a) : k = 2
      BY <3>1, Pairs
    <3>. QED
      BY <3>1, <3>2
  <2>2. ASSUME a = <<"stop", "start", "unlock">> PROVE <1>2!:
    <3>1. Len(a) = 3 /\ a[1] = "stop" /\ a[2] = "start" /\ a[3] = "unlock" /\ Head(a) = "stop"
      BY <2>2
    <3>2. \A k \in 2 .. 3 : k = 2 \/ k = 3
      OBVIOUS
    <3>3. a # <<>>
      BY <3>1, EmptySeq
    <3>. QED
      BY <3>1, <3>2, <3>3
  <2>. QED
    BY <1>1, <2>1, <2>2, Zenon
<1>3. Hd(a) = a[1] /\ Hd(a) \notin Credentials /\ Hd(a) \notin Clearing
  BY <1>2 DEF Hd, Credentials, Clearing
<1>4. \A k \in 2 .. Len(a) : a[k] \notin HeldBack /\ a[k] \notin GuardedStop
  BY <1>2 DEF HeldBack, GuardedStop
<1>5. Shape(a)
  BY <1>3, <1>4 DEF Shape, Prefixed
<1>6. ASSUME op = "guarded stop" PROVE Hd(a) \in Ending /\ Has(a, Ending)
  <2>1. a[1] = "stop"
    <3>1. <<"stop", "unlock">>[1] = "stop"
      BY Pairs
    <3>. QED
      BY <1>1, <1>6, <3>1
  <2>2. 1 \in 1 .. Len(a)
    BY <1>2
  <2>. QED
    BY <1>3, <2>1, <2>2, EndingSteps DEF Has
<1>. QED
  BY <1>3, <1>5, <1>6

\* TakeGuard keeps it covered.
LEMMA CovTakeGuard ==
    ASSUME IInv, Cov, NEW f \in Flows, TakeGuard(f) PROVE Cov'
<1>1. PICK op : op = Head(flow[f].todo)
  OBVIOUS
<1>2. op \in GuardedSteps /\ op \in Final /\ At(f, op)
  BY <1>1 DEF TakeGuard, At, Free, Final
<1>3. Hd(flow[f].todo) = op /\ op \notin Credentials /\ (Kills(flow[f]) <=> op = "guarded stop")
      /\ (op \in Ending <=> op = "guarded stop")
  BY <1>2, FinalAlone DEF Ending, GuardedSteps
<1>4. UNCHANGED <<config, sidecar, minted, session, daemon>> /\ races \subseteq races'
  BY DEF TakeGuard, files, server, Note
<1>5. Calm /\ DaemonKnown'
  BY <1>4, DaemonStays
<1>6. CASE guard
  <2>1. flow' = [flow EXCEPT ![f] = Idle] /\ (op = "guarded stop" => races' # {})
    BY <1>2, <1>6 DEF TakeGuard, Note, If
  <2>2. Shape(Idle.todo) /\ Hd(Idle.todo) \notin Credentials
    BY ShapeOne, Heads, Ends DEF Credentials, Clearing
  <2>. QED
    BY <1>3, <1>4, <1>5, <2>1, <2>2, Onward
<1>7. CASE ~guard
  <2>1. PICK a : a = Guarded(op)
    OBVIOUS
  <2>2. PICK y : y = [Idle EXCEPT !.todo = a, !.onFail = <<"unlock">>]
    OBVIOUS
  <2>3. flow' = [flow EXCEPT ![f] = y]
    BY <1>1, <1>7, <2>1, <2>2 DEF TakeGuard
  <2>4. y.todo = a
    BY <2>2 DEF Idle
  <2>5. /\ Shape(y.todo) /\ Hd(y.todo) \notin Credentials
        /\ op = "guarded stop" => Hd(y.todo) \in Ending /\ Kills(y)
    BY <1>2, <2>1, <2>4, GuardedShape DEF Kills
  <2>. QED
    BY <1>3, <1>4, <1>5, <2>3, <2>5, Onward
<1>. QED
  BY <1>6, <1>7

\* Unlock keeps it covered.
LEMMA CovUnlock ==
    ASSUME IInv, Cov, NEW f \in Flows, Unlock(f) PROVE Cov'
<1>1. At(f, "unlock") /\ UNCHANGED <<config, sidecar, minted, session, daemon>> /\ races' = races
      /\ "unlock" \in Final
  BY DEF Unlock, files, server, Final
<1>2. Hd(flow[f].todo) = "unlock" /\ "unlock" \notin Credentials /\ ~Kills(flow[f])
  BY <1>1, FinalAlone
<1>3. /\ flow[f].todo \in Seq(Steps) /\ flow[f].todo # <<>> /\ InOrder(flow[f].todo)
      /\ Head(flow[f].todo) = "unlock"
  BY <1>1, FlowAt DEF At
<1>4. <<>> \o Tail(flow[f].todo) = <<>>
  BY <1>1, <1>3, First
<1>5. flow' = [flow EXCEPT ![f] = Idle]
  BY <1>4 DEF Unlock, Goes, Then
<1>6. Shape(Idle.todo) /\ Hd(Idle.todo) \notin Credentials
  BY ShapeOne, Heads, Ends DEF Credentials, Clearing
<1>7. Calm /\ DaemonKnown'
  BY <1>1, DaemonStays
<1>. QED
  BY <1>1, <1>2, <1>5, <1>6, <1>7, EndingSteps, Onward

\* What a failure leaves.
LEMMA FailedShape ==
    ASSUME IInv, NEW f \in Flows, NEW y, y = Failed(f)
    PROVE  Shape(y.todo) /\ Hd(y.todo) \in {"none", "unlock", "guarded stop"}
<1>1. flow[f].onFail \in {<<>>, <<"unlock">>, <<"guarded stop">>}
  BY DEF IInv, FlowInv, Sound
<1>2. "unlock" \notin Clearing /\ "guarded stop" \notin Clearing
  BY DEF Clearing
<1>3. y.todo = flow[f].onFail
  <2>1. flow[f].onFail = <<>> => y = Idle
    BY DEF Failed
  <2>2. flow[f].onFail # <<>> => y = [Idle EXCEPT !.todo = flow[f].onFail]
    BY DEF Failed
  <2>. QED
    BY <2>1, <2>2, Ends DEF Idle
<1>4. /\ Shape(<<"unlock">>) /\ Hd(<<"unlock">>) = "unlock"
      /\ Shape(<<"guarded stop">>) /\ Hd(<<"guarded stop">>) = "guarded stop"
      /\ Shape(<<>>) /\ Hd(<<>>) = "none"
  BY <1>2, ShapeOne, Heads
<1>. QED
  BY <1>1, <1>3, <1>4

\* A failure that is noted.
LEMMA FailsNoted ==
    ASSUME IInv, Cov, NEW f \in Flows, Fails(f), daemon' = daemon, minted' = minted, races' # {}
    PROVE  Cov'
<1>1. PICK y : y = Failed(f)
  OBVIOUS
<1>. QED
  BY <1>1, FailedShape, DaemonStays, Raced DEF Fails

\* StopFails keeps it covered.
LEMMA CovStopFails ==
    ASSUME IInv, Cov, NEW f \in Flows, StopFails(f) PROVE Cov'
  BY FailsNoted DEF StopFails, Note, server

\* MintFails keeps it covered.
LEMMA CovMintFails ==
    ASSUME IInv, Cov, NEW f \in Flows, MintFails(f) PROVE Cov'
  BY FailsNoted DEF MintFails, Note, server

\* WriteFails keeps it covered.
LEMMA CovWriteFails ==
    ASSUME IInv, Cov, NEW f \in Flows, WriteFails(f) PROVE Cov'
  BY FailsNoted DEF WriteFails, Note, server

\* No stop is left once a start is at work.
LEMMA CovStartFails ==
    ASSUME IInv, Cov, NEW f \in Flows, StartFails(f) PROVE Cov'
<1>1. At(f, "exec start") /\ UNCHANGED <<config, sidecar, minted, session, daemon>> /\ races' = races
  BY DEF StartFails, files, server
<1>2. PICK y : y = Failed(f)
  OBVIOUS
<1>3. /\ flow[f].todo \in Seq(Steps) /\ flow[f].todo # <<>> /\ InOrder(flow[f].todo)
      /\ Shape(flow[f].todo) /\ Hd(flow[f].todo) = "exec start"
  BY <1>1, FlowAt
<1>4. /\ flow[f].todo[1] = "exec start"
      /\ \A k \in 1 .. Len(flow[f].todo) : k # 1 => k \in 2 .. Len(flow[f].todo)
      /\ \A k \in 2 .. Len(flow[f].todo) : 1 \in 1 .. (k - 1)
  <2>1. Len(flow[f].todo) \in Nat /\ flow[f].todo[1] = "exec start"
    BY <1>1, <1>3, First DEF At
  <2>2. PICK n \in Nat : n = Len(flow[f].todo)
    BY <2>1
  <2>3. (\A k \in 1 .. n : k # 1 => k \in 2 .. n) /\ \A k \in 2 .. n : 1 \in 1 .. (k - 1)
    OBVIOUS
  <2>. QED
    BY <2>1, <2>2, <2>3
<1>5. ~Has(flow[f].todo, Ending)
  <2>1. ASSUME NEW k \in 2 .. Len(flow[f].todo), flow[f].todo[k] \in Ending PROVE FALSE
    <3>1. flow[f].todo[k] \in HeldBack
      BY <1>3, <2>1 DEF InOrder, Later, Ending, HeldBack
    <3>2. flow[f].todo[1] \in Rotating
      <4>1. Prefixed(flow[f].todo, HeldBack, Rotating)
        BY <1>3 DEF Shape
      <4>. QED
        BY <1>4, <2>1, <3>1, <4>1 DEF Prefixed
    <3>. QED
      BY <1>4, <3>2 DEF Rotating, Credentials
  <2>. QED
    BY <1>4, <2>1, EndingSteps DEF Has
<1>6. ~Kills(flow[f]) /\ "exec start" \notin Credentials /\ "exec start" \notin Ending
  BY <1>3, <1>5, EndingSteps DEF Kills, Credentials
<1>7. Shape(y.todo) /\ Hd(y.todo) \notin Credentials
  BY <1>2, FailedShape DEF Credentials
<1>8. flow' = [flow EXCEPT ![f] = y]
  BY <1>2 DEF StartFails, Fails
<1>9. Calm /\ DaemonKnown'
  BY <1>1, DaemonStays
<1>. QED
  BY <1>1, <1>3, <1>6, <1>7, <1>8, <1>9, Onward

\* ProbeToken keeps it covered.
LEMMA CovProbeToken ==
    ASSUME IInv, Cov, NEW f \in Flows, ProbeToken(f) PROVE Cov'
<1>1. PICK x, a : a = <<"verdict">> /\ x = Then(f, a)
  OBVIOUS
<1>2. /\ At(f, "poll") /\ UNCHANGED <<config, sidecar, minted, session, daemon>> /\ races' = races
      /\ \E y : y.todo = x.todo /\ flow' = [flow EXCEPT ![f] = y]
  <2>1. /\ At(f, "poll") /\ UNCHANGED <<config, sidecar, minted, session, daemon>> /\ races' = races
    BY DEF ProbeToken, files, server
  <2>2. PICK heard \in BOOLEAN :
            flow' = [flow EXCEPT ![f] = [x EXCEPT
                    !.saw = flow[f].saw, !.token = config,
                    !.expired = config = None \/ (heard /\ config \in dead)]]
    BY <1>1 DEF ProbeToken
  <2>3. x \in Flow
    <3>1. "verdict" \in Steps \ Final /\ "verdict" \notin Syncing /\ "poll" \notin Clearing
      BY DEF Steps, Final, GuardedSteps, Syncing, Clearing
    <3>. QED
      BY <1>1, <2>1, <3>1, ThenOne
  <2>4. PICK y : y = [x EXCEPT !.saw = flow[f].saw, !.token = config,
                               !.expired = config = None \/ (heard /\ config \in dead)]
    OBVIOUS
  <2>5. y.todo = x.todo
    BY <2>3, <2>4 DEF Flow
  <2>. QED
    BY <2>1, <2>2, <2>4, <2>5
<1>3. PICK y : y.todo = x.todo /\ flow' = [flow EXCEPT ![f] = y]
  BY <1>2
<1>4. "poll" \in Plain /\ "verdict" \in Plain /\ "poll" \notin Ending
  BY EndingSteps DEF Plain, Steps, Final, GuardedSteps, Obliging, Syncing, Clearing
<1>5. Shape(x.todo) /\ Hd(x.todo) \notin Credentials /\ (Kills(flow[f]) => Kills(x))
  BY <1>1, <1>2, <1>4, PlainShape
<1>6. Hd(x.todo) = "verdict" /\ Hd(flow[f].todo) = "poll"
  <2>1. "verdict" \in Steps \ Final /\ "verdict" \notin Syncing /\ "poll" \notin Clearing
    BY DEF Steps, Final, GuardedSteps, Syncing, Clearing
  <2>2. x.todo # <<>> /\ Head(x.todo) = "verdict"
    BY <1>1, <1>2, <2>1, ThenOne
  <2>. QED
    BY <1>2, <2>2, FlowAt DEF Hd
<1>7. Kills(flow[f]) => Kills(y)
  BY <1>3, <1>5, <1>6 DEF Kills
<1>8. Calm /\ DaemonKnown'
  BY <1>2, DaemonStays
<1>9. "poll" \notin Credentials
  BY DEF Credentials
<1>. QED
  BY <1>2, <1>3, <1>4, <1>5, <1>6, <1>7, <1>8, <1>9, Onward

\* A flow that begins with one step.
LEMMA BeginsOne ==
    ASSUME IInv, Cov, NEW f \in Flows, NEW b, b \notin Credentials, Begins(f, <<b>>, <<>>, None),
           UNCHANGED <<config, sidecar, minted, session, daemon>>, races' = races
    PROVE  Cov'
<1>1. PICK y, a : a = <<b>> /\ y = [Idle EXCEPT !.todo = a, !.onFail = <<>>, !.user = None]
  OBVIOUS
<1>2. flow' = [flow EXCEPT ![f] = y] /\ flow[f].todo = <<>>
  BY <1>1 DEF Begins, Free
<1>3. y.todo = <<b>>
  BY <1>1 DEF Idle
<1>4. Clearing \subseteq Credentials /\ "none" \notin Credentials /\ "none" \notin Ending
  BY DEF Clearing, Credentials, Ending
<1>5. Shape(y.todo) /\ Hd(y.todo) \notin Credentials
  BY <1>3, <1>4, ShapeOne
<1>6. Hd(flow[f].todo) = "none" /\ ~Kills(flow[f])
  BY <1>2, Heads DEF Kills
<1>7. Calm /\ DaemonKnown'
  BY DaemonStays
<1>. QED
  BY <1>2, <1>4, <1>5, <1>6, <1>7, Onward

\* PollTimer keeps it covered.
LEMMA CovPollTimer ==
    ASSUME IInv, Cov, NEW f \in Flows, PollTimer(f) PROVE Cov'
<1>1. "poll" \notin Credentials
  BY DEF Credentials
<1>. QED
  BY <1>1, BeginsOne DEF PollTimer, files, server

\* Click keeps it covered.
LEMMA CovClick ==
    ASSUME IInv, Cov, NEW f \in Flows, NEW op \in GuardedSteps, Click(f, op) PROVE Cov'
<1>1. op \notin Credentials
  BY DEF Credentials, GuardedSteps
<1>. QED
  BY <1>1, BeginsOne DEF Click, files, server

\* What a handler of the renderer leaves to do.
LEMMA Openings ==
    /\ \A s : s = <<"sync", "auto start">> => Shape(s) /\ Hd(s) = "sync"
    /\ \A s : s = <<"clear", "guarded stop">> =>
            Shape(s) /\ Hd(s) = "clear" /\ Has(s, GuardedStop)
    /\ \A s : s = <<"clear", "sync", "stop", "start">> =>
            Shape(s) /\ Hd(s) = "clear" /\ Has(s, Resync)
<1>1. "sync" \notin Clearing /\ "clear" \in Clearing /\ "clear" \in Rotating /\ "sync" \in Rotating
  BY DEF Clearing, Rotating, Credentials
<1>2. ASSUME NEW s, s = <<"sync", "auto start">> PROVE Shape(s) /\ Hd(s) = "sync"
  <2>1. Len(s) = 2 /\ s[2] = "auto start" /\ s # <<>> /\ Head(s) = "sync"
    BY <1>2, Pairs
  <2>2. \A k \in 2 .. Len(s) : s[k] = "auto start"
    BY <2>1, Pairs
  <2>3. Hd(s) = "sync"
    BY <2>1 DEF Hd
  <2>. QED
    BY <1>1, <2>2, <2>3 DEF Shape, Prefixed, HeldBack, GuardedStop
<1>3. ASSUME NEW s, s = <<"clear", "guarded stop">>
      PROVE  Shape(s) /\ Hd(s) = "clear" /\ Has(s, GuardedStop)
  <2>1. Len(s) = 2 /\ s[1] = "clear" /\ s[2] = "guarded stop" /\ s # <<>> /\ Head(s) = "clear"
    BY <1>3, Pairs
  <2>2. (\A k \in 2 .. Len(s) : k = 2) /\ (\A k \in 1 .. (2 - 1) : k = 1) /\ 2 \in 1 .. Len(s)
    <3>1. (\A k \in 2 .. 2 : k = 2) /\ (\A k \in 1 .. (2 - 1) : k = 1) /\ 2 \in 1 .. 2
      OBVIOUS
    <3>. QED
      BY <2>1, <3>1
  <2>3. Hd(s) = "clear" /\ Has(s, GuardedStop) /\ Has(s, HeldBack)
    BY <2>1, <2>2 DEF Hd, Has, GuardedStop, HeldBack
  <2>. QED
    BY <1>1, <2>1, <2>2, <2>3 DEF Shape, Prefixed
<1>4. ASSUME NEW s, s = <<"clear", "sync", "stop", "start">>
      PROVE  Shape(s) /\ Hd(s) = "clear" /\ Has(s, Resync)
  <2>1. Len(s) = 4 /\ s[1] = "clear" /\ s[2] = "sync" /\ s[3] = "stop" /\ s[4] = "start"
        /\ Head(s) = "clear"
    BY <1>4
  <2>2. s # <<>>
    BY <2>1, EmptySeq
  <2>3. /\ \A k \in 2 .. 4 : k = 2 \/ k = 3 \/ k = 4
        /\ \A k \in 1 .. (3 - 1) : k = 1 \/ k = 2
        /\ 2 \in 1 .. 4 /\ 3 \in 1 .. 4
    OBVIOUS
  <2>4. Hd(s) = "clear" /\ Has(s, Resync) /\ Has(s, HeldBack)
    BY <2>1, <2>2, <2>3 DEF Hd, Has, Resync, HeldBack
  <2>5. \A k \in 2 .. Len(s) : s[k] \notin GuardedStop /\ (s[k] \in HeldBack => k = 3)
    BY <2>1, <2>3 DEF HeldBack, GuardedStop
  <2>6. \A j \in 1 .. (3 - 1) : s[j] \in Rotating
    BY <1>1, <2>1, <2>3
  <2>. QED
    BY <2>4, <2>5, <2>6 DEF Shape, Prefixed
<1>. QED
  BY <1>2, <1>3, <1>4

\* A flow that begins at the credentials.
LEMMA BeginsCov ==
    ASSUME IInv, Cov, NEW f \in Flows, NEW a, NEW onFail, NEW u, Begins(f, a, onFail, u),
           Shape(a), Hd(a) \in {"sync", "clear"},
           UNCHANGED <<config, sidecar, minted, daemon, races>>,
           session' \in Users => Hd(a) = "sync" \/ Has(a, Resync),
           session' \in Users => u = session',
           session' = LoggedOut => Hd(a) = "clear" /\ Has(a, GuardedStop)
    PROVE  Cov'
<1>1. PICK y : y = [Idle EXCEPT !.todo = a, !.onFail = onFail, !.user = u]
  OBVIOUS
<1>2. flow' = [flow EXCEPT ![f] = y] /\ flow[f].todo = <<>>
  BY <1>1 DEF Begins, Free
<1>3. y.todo = a /\ y.user = u
  BY <1>1 DEF Idle
<1>4. /\ ShapeInv' /\ flow'[f] = y /\ \A g \in Flows \ {f} : flow'[g] = flow[g]
  BY <1>2, <1>3, OneFlow DEF Cov
<1>5. Calm /\ DaemonKnown'
  BY DaemonStays
<1>. SUFFICES ASSUME races = {} PROVE Covered'
  BY <1>4, <1>5 DEF Cov
<1>6. Covered
  BY DEF Cov
<1>7. Hd(flow[f].todo) = "none" /\ ~Kills(flow[f])
  BY <1>2, Heads DEF Kills
<1>8. Remembered'
  BY <1>3, <1>4, <1>6 DEF Covered, Remembered
<1>9. Owned'
  BY <1>3, <1>4, <1>6, <1>7 DEF Covered, Owned
<1>10. Served'
  <2>1. \A g \in Flows : Kills(flow[g]) => Kills(flow'[g])
    BY <1>4, <1>7
  <2>. QED
    BY <1>5, <1>6, <2>1 DEF Covered, Served, Calm
<1>11. session' \in Users => WillSync(flow'[f]) /\ flow'[f].user = session'
  BY <1>3, <1>4 DEF WillSync, Syncing, Clearing
<1>12. session' = LoggedOut => LogsOut(flow'[f])
  BY <1>3, <1>4 DEF LogsOut, Clearing
<1>. QED
  BY <1>8, <1>9, <1>10, <1>11, <1>12 DEF Covered, InSession, OutOfSession

\* Login keeps it covered.
LEMMA CovLogin ==
    ASSUME IInv, Cov, NEW f \in Flows, NEW u \in Users, Login(f, u) PROVE Cov'
<1>1. PICK a : a = <<"sync", "auto start">>
  OBVIOUS
<1>2. Begins(f, a, <<>>, u) /\ session' = u /\ UNCHANGED <<config, sidecar, minted, daemon, races>>
  BY <1>1 DEF Login, files, server
<1>3. Shape(a) /\ Hd(a) = "sync"
  BY <1>1, Openings
<1>4. u # LoggedOut
  BY UsersAssumption
<1>. QED
  BY <1>2, <1>3, <1>4, BeginsCov

\* Logout keeps it covered.
LEMMA CovLogout ==
    ASSUME IInv, Cov, NEW f \in Flows, Logout(f) PROVE Cov'
<1>1. PICK a : a = <<"clear", "guarded stop">>
  OBVIOUS
<1>2. Begins(f, a, <<"guarded stop">>, None) /\ session' = LoggedOut
      /\ UNCHANGED <<config, sidecar, minted, daemon, races>>
  BY <1>1 DEF Logout, files, server
<1>3. Shape(a) /\ Hd(a) = "clear" /\ Has(a, GuardedStop)
  BY <1>1, Openings
<1>4. LoggedOut \notin Users
  BY UsersAssumption
<1>. QED
  BY <1>2, <1>3, <1>4, BeginsCov

\* Reauthenticate keeps it covered.
LEMMA CovReauthenticate ==
    ASSUME IInv, Cov, NEW f \in Flows, Reauthenticate(f) PROVE Cov'
<1>1. PICK a : a = <<"clear", "sync", "stop", "start">>
  OBVIOUS
<1>2. Begins(f, a, <<>>, session) /\ session \in Users /\ session' = session
      /\ UNCHANGED <<config, sidecar, minted, daemon, races>>
  BY <1>1 DEF Reauthenticate, files, server
<1>3. Shape(a) /\ Hd(a) = "clear" /\ Has(a, Resync)
  BY <1>1, Openings
<1>4. session # LoggedOut
  BY <1>2, UsersAssumption
<1>. QED
  BY <1>2, <1>3, <1>4, BeginsCov

\* AppDies keeps it covered.
LEMMA CovAppDies ==
    ASSUME IInv, Cov, AppDies PROVE Cov'
<1>1. /\ \A f \in Flows : flow'[f] = Idle
      /\ UNCHANGED <<config, sidecar, minted, daemon>> /\ races \subseteq races' /\ session' = None
      /\ races' = {} => \A f \in Flows : ~At(f, "write user") /\ ~Unfinished(f)
  <2>1. /\ flow' = [f \in Flows |-> Idle] /\ UNCHANGED <<config, sidecar, minted, daemon>>
        /\ session' = None
        /\ Note(If(\E f \in Flows : At(f, "write user"), "half written") \cup
                If(\E f \in Flows : Unfinished(f), "cut short"))
    BY DEF AppDies, files, server
  <2>2. races \subseteq races'
    BY <2>1 DEF Note
  <2>3. ASSUME races' = {} PROVE \A f \in Flows : ~At(f, "write user") /\ ~Unfinished(f)
    BY <2>1, <2>3 DEF Note, If
  <2>. QED
    BY <2>1, <2>2, <2>3
<1>2. Shape(Idle.todo) /\ Hd(Idle.todo) = "none"
  BY ShapeOne, Heads, Ends DEF Clearing
<1>3. ShapeInv'
  BY <1>1, <1>2 DEF ShapeInv
<1>4. Calm /\ DaemonKnown'
  BY <1>1, DaemonStays
<1>. SUFFICES ASSUME races' = {} PROVE Covered'
  BY <1>3, <1>4 DEF Cov
<1>5. Covered
  BY <1>1 DEF Cov
<1>6. \A f \in Flows : Hd(flow[f].todo) # "write user" /\ ~Kills(flow[f])
  <2>1. SUFFICES ASSUME NEW f \in Flows
                 PROVE  Hd(flow[f].todo) # "write user" /\ ~Kills(flow[f])
    OBVIOUS
  <2>2. ~At(f, "write user") /\ ~Unfinished(f)
    BY <1>1
  <2>3. Hd(flow[f].todo) # "write user"
    BY <2>2 DEF At, Hd
  <2>4. ~Has(flow[f].todo, Ending)
    BY <2>2 DEF Unfinished, Has, Ending
  <2>5. Hd(flow[f].todo) # "rotate"
    <3>1. SUFFICES ASSUME flow[f].todo # <<>>, Head(flow[f].todo) = "rotate" PROVE FALSE
      BY DEF Hd
    <3>2. flow[f].todo \in Seq(Steps)
      BY DEF IInv, TypeOK, Flow
    <3>3. 1 \in 1 .. Len(flow[f].todo) /\ flow[f].todo[1] = "rotate"
      BY <3>1, <3>2, First
    <3>. QED
      BY <2>2, <3>3 DEF Unfinished
  <2>. QED
    BY <2>3, <2>4, <2>5 DEF Kills
<1>7. Remembered' /\ Owned'
  BY <1>1, <1>2, <1>5, <1>6 DEF Covered, Remembered, Owned
<1>8. Served'
  BY <1>1, <1>4, <1>5, <1>6 DEF Covered, Served, Calm
<1>9. session' \notin Users /\ session' # LoggedOut
  BY <1>1, UsersAssumption
<1>. QED
  BY <1>7, <1>8, <1>9 DEF Covered, InSession, OutOfSession

-----------------------------------------------------------------------------
(* The credentials and whose daemon it is                                  *)

\* The tokens made so far keep their owners.
OwnersStay == \A t \in 1 .. Len(minted) : t \in 1 .. Len(minted') /\ minted'[t] = minted[t]

\* What is remembered of the previous user, if it matters yet, is as before or read just now.
Remembers(step, b, x, y) == y.prior = sidecar \/ (step = "mint" /\ y.prior = x.prior) \/ b = "sync user"

\* A step from credentials to credentials that writes nothing.
LEMMA Reading ==
    ASSUME IInv, Cov, NEW f \in Flows, NEW y, Shape(y.todo), flow' = [flow EXCEPT ![f] = y],
           y.user = flow[f].user,
           Hd(flow[f].todo) \in Credentials \ {"write user"}, Hd(y.todo) \in Credentials \ {"write user"},
           WillSync(flow[f]) => WillSync(y), LogsOut(flow[f]) => LogsOut(y),
           Kills(flow[f]) => Kills(y),
           Hd(y.todo) \in {"mint", "write token"} => y.prior = sidecar,
           OwnersStay,
           UNCHANGED <<config, sidecar, session, daemon, races>>
    PROVE  Cov'
<1>1. /\ ShapeInv' /\ flow'[f] = y /\ \A g \in Flows \ {f} : flow'[g] = flow[g]
  BY OneFlow DEF Cov
<1>2. DaemonKnown'
  BY DEF Cov, DaemonKnown, Up, OwnersStay
<1>. SUFFICES ASSUME races = {} PROVE Covered'
  BY <1>1, <1>2 DEF Cov
<1>3. Covered
  BY DEF Cov
<1>4. Remembered'
  BY <1>1, <1>3 DEF Covered, Remembered
<1>5. Owned'
  BY <1>1, <1>3 DEF Covered, Owned
<1>6. Served'
  <2>1. \A g \in Flows : Kills(flow[g]) => Kills(flow'[g])
    BY <1>1
  <2>2. ~Gone => daemon.token \in 1 .. Len(minted)
    BY DEF IInv, TypeOK, Process, Cov, DaemonKnown, Up, Gone
  <2>3. config # None => config \in 1 .. Len(minted)
    BY DEF IInv, TokenInv, Known
  <2>4. Gone <=> Gone'
    BY DEF Gone
  <2>5. CASE Gone \/ \E g \in Flows : Kills(flow[g])
    BY <2>1, <2>4, <2>5 DEF Served
  <2>6. CASE ~Gone /\ (minted[daemon.token] = sidecar
                       \/ (config # None /\ minted[daemon.token] = minted[config]))
    BY <2>2, <2>3, <2>6 DEF Served, OwnersStay, Gone
  <2>. QED
    BY <1>3, <2>5, <2>6 DEF Covered, Served
<1>7. ~Unwritten
  BY DEF Unwritten
<1>8. InSession'
  BY <1>1, <1>3, <1>7 DEF Covered, InSession
<1>9. OutOfSession'
  BY <1>1, <1>3, <1>7 DEF Covered, OutOfSession
<1>. QED
  BY <1>4, <1>5, <1>6, <1>8, <1>9 DEF Covered

\* A sequence of one step is one of steps.
LEMMA OneStep == ASSUME NEW b \in Steps PROVE <<b>> \in Seq(Steps)
  OBVIOUS

\* The steps of a sync that lead to another, and those that they lead to.
Earlier == {"sync", "sync user", "mint", "write token"}
Following == {"sync user", "mint", "write token", "write user"}

\* The flow f is at a step of a sync, and b comes next in x.
GoesOn(f, step, b, x) ==
    /\ step \in Earlier /\ b \in Following /\ x \in Flow /\ Shape(x.todo) /\ Hd(x.todo) = b
    /\ x.user = flow[f].user /\ x.prior = flow[f].prior
    /\ Hd(flow[f].todo) = step /\ WillSync(flow[f]) /\ ~LogsOut(flow[f])
    /\ Kills(flow[f]) => Has(x.todo, Ending)

\* One step of a sync after another.
LEMMA SyncShape ==
    ASSUME IInv, Cov, NEW f \in Flows, NEW step \in Earlier,
           At(f, step), NEW b \in Following,
           NEW x, x = Then(f, <<b>>)
    PROVE  GoesOn(f, step, b, x)
<1>. DEFINE s == flow[f].todo
            t == x.todo
<1>0. PICK a : a = <<b>>
  OBVIOUS
<1>1. /\ flow[f] \in Flow /\ s \in Seq(Steps) /\ s # <<>> /\ InOrder(s) /\ Shape(s) /\ Hd(s) = step
  BY FlowAt
<1>2. /\ x \in Flow /\ t # <<>> /\ Head(t) = b /\ x.user = flow[f].user
  BY ThenSync DEF Earlier, Following
<1>3. b \in Steps /\ b \in Rotating /\ b \notin Clearing /\ step \notin Clearing
      /\ step \in Syncing /\ step # "rotate" /\ step \notin Ending
  BY DEF Earlier, Following, Steps, Credentials, Rotating, Clearing, Syncing, Ending
<1>4. /\ a \in Seq(Steps) /\ Len(a) = 1 /\ a[1] = b /\ a # <<>>
      /\ (\A k \in 2 .. Len(a) : FALSE) /\ \A k \in 1 .. Len(a) : a[k] = b
  <2>1. <<b>> \in Seq(Steps)
    BY <1>3, OneStep
  <2>2. Len(<<b>>) = 1 /\ <<b>>[1] = b /\ <<b>> # <<>> /\ \A k \in 1 .. Len(<<b>>) : <<b>>[k] = b
    BY Single
  <2>3. \A k \in 2 .. Len(<<b>>) : FALSE
    BY <2>2, Indices
  <2>. QED
    BY <1>0, <2>1, <2>2, <2>3
<1>5. t = a \o Tail(s) /\ x.prior = flow[f].prior
  <2>1. /\ x.todo = a \o Tail(flow[f].todo)
        /\ x.todo # <<>> => x.prior = flow[f].prior
    <3>1. flow[f] \in Flow /\ a \in Seq(Steps) /\ x = Then(f, a)
      BY <1>0, <1>1, <1>4
    <3>. HIDE DEF s, t
    <3>. QED
      BY <3>1, ThenKnows
  <2>. QED
    BY <1>2, <2>1
<1>6. Hd(t) = b
  BY <1>2 DEF Hd
<1>. HIDE DEF s, t
<1>7. Shape(t)
  BY <1>1, <1>3, <1>4, <1>5, ShapeKept
<1>8. Has(s, Ending) => Has(t, Ending)
  BY <1>1, <1>3, <1>4, <1>5, StillHas
<1>. USE DEF s, t
<1>9. WillSync(flow[f]) /\ ~LogsOut(flow[f]) /\ (Kills(flow[f]) => Has(s, Ending))
  BY <1>1, <1>3 DEF WillSync, LogsOut, Kills
<1>. QED
  BY <1>1, <1>2, <1>5, <1>6, <1>7, <1>8, <1>9 DEF GoesOn

\* Such a step, that leaves the files alone.
LEMMA SyncCov ==
    ASSUME IInv, Cov, NEW f \in Flows, NEW step, NEW b, NEW x, GoesOn(f, step, b, x),
           b # "write user", NEW y, y.todo = x.todo, y.user = x.user,
           Remembers(step, b, x, y),
           flow' = [flow EXCEPT ![f] = y],
           OwnersStay,
           UNCHANGED <<config, sidecar, session, daemon, races>>
    PROVE  Cov'
<1>1. /\ step \in Earlier /\ b \in Following /\ Shape(x.todo) /\ Hd(x.todo) = b
      /\ x.user = flow[f].user /\ x.prior = flow[f].prior
      /\ Hd(flow[f].todo) = step /\ ~LogsOut(flow[f])
      /\ Kills(flow[f]) => Has(x.todo, Ending)
  BY DEF GoesOn
<1>2. step \in Credentials \ {"write user"} /\ b \in Credentials \ {"write user"} /\ b \in Syncing
  BY <1>1 DEF Credentials, Earlier, Following, Syncing
<1>3. WillSync(y) /\ (Kills(flow[f]) => Kills(y))
  BY <1>1, <1>2 DEF WillSync, Kills
<1>4. CASE races = {}
  <2>1. step = "mint" => flow[f].prior = sidecar
    BY <1>1, <1>4 DEF Cov, Covered, Remembered
  <2>2. b \in {"mint", "write token"} => y.prior = sidecar
    BY <1>1, <2>1 DEF Remembers
  <2>. QED
    BY <1>1, <1>2, <1>3, <2>2, Reading
<1>5. CASE races # {}
  <2>1. DaemonKnown'
    BY DEF Cov, DaemonKnown, Up, OwnersStay
  <2>. QED
    BY <1>1, <1>5, <2>1, Raced
<1>. QED
  BY <1>4, <1>5

\* ReadConfig keeps it covered.
LEMMA CovReadConfig ==
    ASSUME IInv, Cov, NEW f \in Flows, ReadConfig(f) PROVE Cov'
<1>1. PICK step \in Earlier, b \in Following : step = "sync" /\ b = "sync user"
  BY DEF Earlier, Following
<1>2. PICK x, y : x = Then(f, <<b>>) /\ y = [x EXCEPT !.token = config]
  OBVIOUS
<1>3. At(f, step) /\ flow' = [flow EXCEPT ![f] = y] /\ b # "write user"
      /\ UNCHANGED <<config, sidecar, minted, session, daemon, races>>
  BY <1>1, <1>2 DEF ReadConfig, files, server
<1>4. GoesOn(f, step, b, x) /\ x \in Flow
  <2>1. GoesOn(f, step, b, x)
    BY <1>1, <1>2, <1>3, SyncShape
  <2>. QED
    BY <2>1 DEF GoesOn
<1>5. y.todo = x.todo /\ y.user = x.user
      /\ Remembers(step, b, x, y)
  BY <1>1, <1>2, <1>4 DEF Flow, Remembers
<1>6. OwnersStay
  BY <1>3 DEF OwnersStay
<1>. QED
  BY <1>3, <1>4, <1>5, <1>6, SyncCov

\* ReadSidecar keeps it covered.
LEMMA CovReadSidecar ==
    ASSUME IInv, Cov, NEW f \in Flows, ReadSidecar(f) PROVE Cov'
<1>1. PICK step \in Earlier, b \in Following :
          /\ step = "sync user" /\ b # "write user"
          /\ flow' = [flow EXCEPT ![f] = [Then(f, <<b>>) EXCEPT !.prior = sidecar]]
  <2>1. \/ flow' = [flow EXCEPT ![f] = [Then(f, <<"write token">>) EXCEPT !.prior = sidecar]]
        \/ flow' = [flow EXCEPT ![f] = [Then(f, <<"mint">>) EXCEPT !.prior = sidecar]]
    BY DEF ReadSidecar
  <2>2. "sync user" \in Earlier /\ "write token" \in Following /\ "mint" \in Following
    BY DEF Earlier, Following
  <2>. QED
    BY <2>1, <2>2
<1>2. PICK x, y : x = Then(f, <<b>>) /\ y = [x EXCEPT !.prior = sidecar]
  OBVIOUS
<1>3. At(f, step) /\ flow' = [flow EXCEPT ![f] = y]
      /\ UNCHANGED <<config, sidecar, minted, session, daemon, races>>
  BY <1>1, <1>2 DEF ReadSidecar, files, server
<1>4. GoesOn(f, step, b, x) /\ x \in Flow
  <2>1. GoesOn(f, step, b, x)
    BY <1>1, <1>2, <1>3, SyncShape
  <2>. QED
    BY <2>1 DEF GoesOn
<1>5. y.todo = x.todo /\ y.user = x.user
      /\ Remembers(step, b, x, y)
  BY <1>2, <1>4 DEF Flow, Remembers
<1>6. OwnersStay
  BY <1>3 DEF OwnersStay
<1>. QED
  BY <1>1, <1>3, <1>4, <1>5, <1>6, SyncCov

\* Mint keeps it covered.
LEMMA CovMint ==
    ASSUME IInv, Cov, NEW f \in Flows, Mint(f) PROVE Cov'
<1>1. PICK step \in Earlier, b \in Following : step = "mint" /\ b = "write token"
  BY DEF Earlier, Following
<1>2. PICK x, y : x = Then(f, <<b>>) /\ y = [x EXCEPT !.token = Len(minted')]
  OBVIOUS
<1>3. At(f, step) /\ flow' = [flow EXCEPT ![f] = y] /\ b # "write user"
      /\ UNCHANGED <<config, sidecar, session, daemon, races>>
  BY <1>1, <1>2 DEF Mint, files
<1>4. GoesOn(f, step, b, x) /\ x \in Flow
  <2>1. GoesOn(f, step, b, x)
    BY <1>1, <1>2, <1>3, SyncShape
  <2>. QED
    BY <2>1 DEF GoesOn
<1>5. y.todo = x.todo /\ y.user = x.user
      /\ Remembers(step, b, x, y)
  BY <1>1, <1>2, <1>4 DEF Flow, Remembers
<1>6. OwnersStay
  <2>1. minted \in Seq(Users) /\ flow[f].user \in Users /\ minted' = Append(minted, flow[f].user)
    <3>1. step \in Syncing
      BY <1>1 DEF Syncing
    <3>. QED
      BY <1>3, <3>1, SyncsForUser DEF IInv, TypeOK, Mint
  <2>2. Len(minted) \in Nat /\ Len(minted') = Len(minted) + 1
        /\ \A t \in 1 .. Len(minted) : minted'[t] = minted[t]
    BY <2>1, AppendProperties, LenProperties
  <2>. QED
    BY <2>2 DEF OwnersStay
<1>. QED
  BY <1>3, <1>4, <1>5, <1>6, SyncCov

\* A sequence of two steps is one of steps.
LEMMA TwoSteps == ASSUME NEW b \in Steps, NEW c \in Steps PROVE <<b, c>> \in Seq(Steps)
  OBVIOUS

\* What a clear goes on to.
LEMMA ClearShape ==
    ASSUME IInv, Cov, NEW f \in Flows, At(f, "clear"),
           NEW b \in {"clear token", "clear user"}, NEW a,
           a = <<"clear user">> \/ a = <<"clear token", "clear user">>, a[1] = b,
           NEW x, x = Then(f, a)
    PROVE  /\ Shape(x.todo) /\ Hd(x.todo) = b /\ x.user = flow[f].user
           /\ Hd(flow[f].todo) = "clear"
           /\ \A B : B \cap Clearing = {} => (Has(flow[f].todo, B) => Has(x.todo, B))
<1>1. PICK s, t : s = flow[f].todo /\ t = x.todo
  OBVIOUS
<1>2. /\ flow[f] \in Flow /\ s \in Seq(Steps) /\ s # <<>> /\ InOrder(s) /\ Shape(s) /\ Hd(s) = "clear"
  BY <1>1, FlowAt
<1>3. {"clear", "clear token", "clear user"} \subseteq Clearing /\ Clearing \subseteq Rotating
      /\ Clearing \subseteq Steps /\ Clearing \cap HeldBack = {}
  BY DEF Clearing, Rotating, Credentials, Steps, HeldBack
<1>4. a \in Seq(Steps) /\ a # <<>> /\ \A k \in 1 .. Len(a) : a[k] \in {"clear token", "clear user"}
  <2>1. CASE a = <<"clear user">>
    <3>1. <<"clear user">> \in Seq(Steps)
      BY <1>3, OneStep
    <3>2. <<"clear user">> # <<>> /\ \A k \in 1 .. Len(<<"clear user">>) : <<"clear user">>[k] = "clear user"
      BY Single
    <3>. QED
      BY <2>1, <3>1, <3>2, Zenon
  <2>2. CASE a = <<"clear token", "clear user">>
    <3>1. <<"clear token", "clear user">> \in Seq(Steps)
      BY <1>3, TwoSteps
    <3>2. Len(a) = 2 /\ a[1] = "clear token" /\ a[2] = "clear user" /\ a # <<>>
      BY <2>2, Pairs
    <3>3. \A k \in 1 .. Len(a) : k = 1 \/ k = 2
      BY <3>2, Pairs
    <3>. QED
      BY <2>2, <3>1, <3>2, <3>3, Zenon
  <2>. QED
    BY <2>1, <2>2
<1>5. t = a \o Tail(s) /\ (t # <<>> => x.user = flow[f].user)
  BY <1>1, <1>2, <1>4, ThenKnows
<1>6. Hd(t) = b /\ t # <<>>
  <2>1. a \o Tail(s) # <<>> /\ Head(a \o Tail(s)) = a[1]
    BY <1>2, <1>4, NextStep
  <2>. QED
    BY <1>5, <2>1 DEF Hd
<1>7. Shape(t)
  <2>0. Len(a) \in Nat
    BY <1>4, LenProperties
  <2>1. \A k \in 2 .. Len(a) : k \in 1 .. Len(a)
    <3>1. \A n \in Nat : \A k \in 2 .. n : k \in 1 .. n
      BY Within
    <3>. QED
      BY <2>0, <3>1, Zenon
  <2>2. /\ \A k \in 2 .. Len(a) : a[k] \notin HeldBack
        /\ \A k \in 1 .. Len(a) : a[k] \in Rotating
        /\ \A k \in 1 .. Len(a) : a[k] \in Clearing
        /\ Hd(s) \in Clearing
    BY <1>2, <1>3, <1>4, <2>1
  <2>. QED
    BY <1>2, <1>4, <1>5, <2>2, ShapeKept
<1>8. ASSUME NEW B, B \cap Clearing = {}, Has(s, B) PROVE Has(t, B)
  <2>1. Hd(s) \notin B
    BY <1>2, <1>3, <1>8
  <2>. QED
    BY <1>2, <1>4, <1>5, <1>8, <2>1, StillHas
<1>. QED
  BY <1>1, <1>2, <1>5, <1>6, <1>7, <1>8

\* Clear keeps it covered.
LEMMA CovClear ==
    ASSUME IInv, Cov, NEW f \in Flows, Clear(f) PROVE Cov'
<1>1. PICK a : /\ a = <<"clear user">> \/ a = <<"clear token", "clear user">>
               /\ Goes(f, a)
  BY DEF Clear
<1>2. PICK b \in {"clear token", "clear user"} : a[1] = b
  <2>1. <<"clear user">>[1] = "clear user" /\ <<"clear token", "clear user">>[1] = "clear token"
    BY Single, Pairs
  <2>. QED
    BY <1>1, <2>1
<1>3. PICK x : x = Then(f, a)
  OBVIOUS
<1>4. At(f, "clear") /\ UNCHANGED <<config, sidecar, minted, session, daemon, races>>
      /\ flow' = [flow EXCEPT ![f] = x]
  BY <1>1, <1>3 DEF Clear, files, server, Goes
<1>5. /\ Shape(x.todo) /\ Hd(x.todo) = b /\ x.user = flow[f].user
      /\ Hd(flow[f].todo) = "clear"
      /\ \A B : B \cap Clearing = {} => (Has(flow[f].todo, B) => Has(x.todo, B))
  BY <1>1, <1>2, <1>3, <1>4, ClearShape
<1>6. Ending \cap Clearing = {} /\ Resync \cap Clearing = {} /\ GuardedStop \cap Clearing = {}
      /\ b \in Clearing /\ "clear" \notin Syncing
  BY <1>2 DEF Ending, Resync, GuardedStop, Clearing, Syncing
<1>7. Kills(flow[f]) => Kills(x)
  BY <1>5, <1>6 DEF Kills
<1>8. (WillSync(flow[f]) => WillSync(x)) /\ (LogsOut(flow[f]) => LogsOut(x))
  BY <1>5, <1>6 DEF WillSync, LogsOut
<1>9. "clear" \in Credentials \ {"write user"} /\ b \in Credentials \ {"write user"}
      /\ b \notin {"mint", "write token"}
  BY <1>2 DEF Credentials
<1>10. OwnersStay
  BY <1>4 DEF OwnersStay
<1>. QED
  BY <1>4, <1>5, <1>7, <1>8, <1>9, <1>10, Reading

\* A write that no race is noted for is the only one at work.
LEMMA OnlyWriter ==
    ASSUME IInv, Cov, NEW f \in Flows, Writes(f), races' = {}
    PROVE  /\ Covered /\ Files
           /\ \A g \in Flows \ {f} : Hd(flow[g].todo) \notin Credentials
<1>1. races = {} /\ ~\E g \in Flows \ {f} : ~Free(g) /\ Head(flow[g].todo) \in Credentials
  BY DEF Writes, Note, If
<1>2. "none" \notin Credentials
  BY DEF Credentials
<1>. QED
  BY <1>1, <1>2 DEF Cov, IInv, FilesInv, Hd, Free

\* The owners of tokens are users, and a daemon that is there has one.
LEMMA OwnersAreUsers ==
    ASSUME IInv, Cov
    PROVE  /\ ~Gone => minted[daemon.token] \in Users /\ minted[daemon.token] # None
           /\ config # None => minted[config] \in Users
<1>1. minted \in Seq(Users) /\ daemon \in Process /\ Known(config)
  BY DEF IInv, TypeOK, TokenInv
<1>2. ~Gone => daemon.token \in 1 .. Len(minted)
  BY <1>1 DEF Cov, DaemonKnown, Up, Gone, Process
<1>3. \A t \in 1 .. Len(minted) : minted[t] \in Users
  BY <1>1
<1>. QED
  BY <1>1, <1>2, <1>3, UsersAssumption DEF Known

\* WriteToken keeps it covered.
LEMMA CovWriteToken ==
    ASSUME IInv, Cov, NEW f \in Flows, WriteToken(f) PROVE Cov'
<1>1. PICK step \in Earlier, b \in Following : step = "write token" /\ b = "write user"
  BY DEF Earlier, Following
<1>2. PICK x : x = Then(f, <<b>>)
  OBVIOUS
<1>3. At(f, step) /\ flow' = [flow EXCEPT ![f] = x] /\ Writes(f) /\ config' = flow[f].token
      /\ UNCHANGED <<sidecar, minted, session, daemon>>
  BY <1>1, <1>2 DEF WriteToken, Goes, server
<1>4. GoesOn(f, step, b, x)
  BY <1>1, <1>2, <1>3, SyncShape
<1>5. /\ Shape(x.todo) /\ Hd(x.todo) = "write user"
      /\ x.user = flow[f].user /\ x.prior = flow[f].prior
      /\ Hd(flow[f].todo) = "write token" /\ ~LogsOut(flow[f])
      /\ Kills(flow[f]) => Has(x.todo, Ending)
  BY <1>1, <1>4 DEF GoesOn
<1>6. /\ ShapeInv' /\ flow'[f] = x /\ \A g \in Flows \ {f} : flow'[g] = flow[g]
  BY <1>3, <1>5, OneFlow DEF Cov
<1>7. Calm /\ DaemonKnown'
  BY <1>3, DaemonStays
<1>. SUFFICES ASSUME races' = {} PROVE Covered'
  BY <1>6, <1>7 DEF Cov
<1>8. Covered /\ Files /\ \A g \in Flows \ {f} : Hd(flow[g].todo) \notin Credentials
  BY <1>3, OnlyWriter
<1>9. {"mint", "write token", "write user"} \subseteq Credentials /\ Syncing \subseteq Credentials
      /\ Clearing \subseteq Credentials /\ "write token" \in Credentials /\ "write user" \in Syncing
  BY DEF Credentials, Syncing, Clearing
<1>10. Remembered'
  BY <1>3, <1>5, <1>6, <1>8, <1>9 DEF Covered, Remembered
<1>11. Owned'
  BY <1>5, <1>6 DEF Owned
<1>12. Served'
  <2>1. \A g \in Flows : Kills(flow[g]) => Kills(flow'[g])
    BY <1>5, <1>6 DEF Kills
  <2>2. ASSUME config # None PROVE minted[config] = sidecar
    <3>1. \A g \in Flows : Hd(flow[g].todo) # "write user"
      BY <1>5, <1>8, <1>9
    <3>2. sidecar # None
      BY <1>8, <2>2, <3>1 DEF Covered, Owned
    <3>3. \A g \in Flows : ~At(g, "write user")
      BY <3>1, Heads
    <3>. QED
      BY <1>8, <2>2, <3>2, <3>3 DEF Files
  <2>3. Gone \/ (\E g \in Flows : Kills(flow[g])) \/ minted[daemon.token] = sidecar
    BY <1>8, <2>2 DEF Covered, Served
  <2>. QED
    BY <1>3, <1>7, <2>1, <2>3 DEF Served, Calm
<1>13. ~Unwritten
  BY <1>5, <1>9 DEF Unwritten
<1>14. InSession'
  <2>1. \A g \in Flows : WillSync(flow[g]) => g = f
    BY <1>8, <1>9 DEF WillSync
  <2>2. WillSync(x)
    BY <1>5, <1>9 DEF WillSync
  <2>. QED
    BY <1>3, <1>5, <1>6, <1>8, <1>13, <2>1, <2>2 DEF Covered, InSession
<1>15. OutOfSession'
  <2>1. \A g \in Flows : LogsOut(flow[g]) => g = f
    BY <1>8, <1>9 DEF LogsOut
  <2>. QED
    BY <1>3, <1>5, <1>8, <1>13, <2>1 DEF Covered, OutOfSession
<1>. QED
  BY <1>10, <1>11, <1>12, <1>14, <1>15 DEF Covered

\* What a flow is left with after it has written its user.
LEMMA WriteUserShape ==
    ASSUME IInv, Cov, NEW f \in Flows, At(f, "write user"),
           NEW a, a = <<>> \/ a = <<"rotate">>, NEW y, y = Forgets(Then(f, a))
    PROVE  /\ Shape(y.todo) /\ Hd(y.todo) \notin Credentials
           /\ Kills(flow[f]) => Kills(y)
           /\ a = <<"rotate">> => Kills(y)
<1>1. PICK s, x, t : s = flow[f].todo /\ x = Then(f, a) /\ t = x.todo
  OBVIOUS
<1>2. /\ flow[f] \in Flow /\ s \in Seq(Steps) /\ s # <<>> /\ InOrder(s) /\ Shape(s)
      /\ Hd(s) = "write user"
  BY <1>1, FlowAt
<1>3. "rotate" \in Steps /\ "rotate" \in Rotating /\ "rotate" \notin Clearing /\ "rotate" \notin Credentials
      /\ "write user" \notin Clearing /\ "write user" \notin Ending /\ "none" \notin Credentials
  BY DEF Steps, Rotating, Clearing, Credentials, Ending
<1>4. /\ a \in Seq(Steps) /\ (\A k \in 2 .. Len(a) : a[k] \notin HeldBack)
      /\ \A k \in 1 .. Len(a) : a[k] = "rotate"
      /\ a # <<>> => a[1] = "rotate" /\ a = <<"rotate">>
  <2>1. CASE a = <<>>
    <3>1. \A k \in 2 .. 0 : FALSE
      BY Within, Zenon
    <3>2. \A k \in 1 .. 0 : FALSE
      BY Indices, Zenon
    <3>3. Len(a) = 0 /\ a \in Seq(Steps)
      BY <2>1, Ends DEF Idle, Flow
    <3>. QED
      BY <2>1, <3>1, <3>2, <3>3
  <2>2. CASE a = <<"rotate">>
    <3>1. <<"rotate">> \in Seq(Steps)
      BY <1>3, OneStep
    <3>2. Len(a) = 1 /\ a[1] = "rotate" /\ \A k \in 1 .. Len(a) : a[k] = "rotate"
      BY <2>2, Single
    <3>3. \A k \in 2 .. Len(a) : FALSE
      BY <3>2, Indices
    <3>. QED
      BY <2>2, <3>1, <3>2, <3>3
  <2>. QED
    BY <2>1, <2>2
<1>5. t = a \o Tail(s) /\ (t # <<>> => x.saw = None)
  BY <1>1, <1>2, <1>4, ThenKnows
<1>6. x \in Flow
  <2>1. IInv /\ Sound(flow[f]) /\ Head(s) = "write user"
    BY <1>1 DEF IInv, FlowInv, At
  <2>2. x = Idle \/ x = [flow[f] EXCEPT !.todo = a \o Tail(s), !.saw = None]
    BY <1>1 DEF Then
  <2>3. a \o Tail(s) \in Seq(Steps)
    BY <1>2, <1>4, Splice
  <2>. QED
    BY <1>2, <2>2, <2>3, Ends DEF Flow
<1>7. y.todo = t /\ y.saw = x.saw
  BY <1>1, <1>6 DEF Forgets, Flow
<1>8. Shape(t)
  <2>1. Hd(s) \in Rotating => \A k \in 1 .. Len(a) : a[k] \in Rotating
    BY <1>3, <1>4
  <2>2. Hd(s) \notin Clearing /\ (a # <<>> => a[1] \notin Clearing)
    BY <1>2, <1>3, <1>4
  <2>. QED
    BY <1>2, <1>4, <1>5, <2>1, <2>2, ShapeKept
<1>9. a # <<>> => Hd(t) = "rotate"
  BY <1>2, <1>4, <1>5, NextHead
<1>10. Hd(t) \notin Credentials
  <2>1. CASE a # <<>>
    BY <1>3, <1>9, <2>1
  <2>2. CASE a = <<>> /\ Hd(t) # "none"
    <3>1. /\ Hd(t) \in Later /\ (Hd(t) = "clear user" => Hd(s) = "clear token")
          /\ (Hd(t) = "sync" => Hd(s) \in Clearing)
      BY <1>2, <1>4, <1>5, <2>2, NextHead
    <3>2. Hd(t) # "clear user" /\ Hd(t) # "sync"
      BY <1>2, <1>3, <3>1
    <3>3. \A b \in Later : b # "clear user" /\ b # "sync" => b \notin Credentials
      BY DEF Later, Credentials
    <3>. QED
      BY <3>1, <3>2, <3>3
  <2>3. CASE Hd(t) = "none"
    BY <1>3, <2>3
  <2>. QED
    BY <2>1, <2>2, <2>3
<1>11. ASSUME Kills(flow[f]) PROVE Kills(y)
  <2>1. Has(s, Ending)
    BY <1>1, <1>2, <1>11 DEF Kills
  <2>2. Has(t, Ending)
    BY <1>2, <1>3, <1>4, <1>5, <2>1, StillHas
  <2>. QED
    BY <1>7, <2>2 DEF Kills
<1>12. ASSUME a = <<"rotate">> PROVE Kills(y)
  <2>1. a # <<>>
    BY <1>12, Single
  <2>2. Hd(t) = "rotate"
    BY <1>9, <2>1
  <2>3. t # <<>>
    BY <2>2 DEF Hd
  <2>. QED
    BY <1>5, <1>7, <2>2, <2>3 DEF Kills
<1>. QED
  BY <1>7, <1>8, <1>10, <1>11, <1>12

\* WriteUser keeps it covered.
LEMMA CovWriteUser ==
    ASSUME IInv, Cov, NEW f \in Flows, WriteUser(f) PROVE Cov'
<1>1. PICK a : a = IF UserChanged(f) THEN <<"rotate">> ELSE <<>>
  OBVIOUS
<1>2. PICK y : y = Forgets(Then(f, a))
  OBVIOUS
<1>3. At(f, "write user") /\ flow' = [flow EXCEPT ![f] = y] /\ Writes(f) /\ sidecar' = flow[f].user
      /\ UNCHANGED <<config, minted, session, daemon>>
  BY <1>1, <1>2 DEF WriteUser, server
<1>4. /\ Shape(y.todo) /\ Hd(y.todo) \notin Credentials
      /\ Kills(flow[f]) => Kills(y)
      /\ a = <<"rotate">> => Kills(y)
  <2>1. a = <<>> \/ a = <<"rotate">>
    BY <1>1
  <2>. QED
    BY <1>2, <1>3, <2>1, WriteUserShape
<1>5. /\ ShapeInv' /\ flow'[f] = y /\ \A g \in Flows \ {f} : flow'[g] = flow[g]
  BY <1>3, <1>4, OneFlow DEF Cov
<1>6. Calm /\ DaemonKnown'
  BY <1>3, DaemonStays
<1>7. flow[f].user \in Users /\ flow[f].user # None /\ Hd(flow[f].todo) = "write user"
  <2>1. "write user" \in Syncing
    BY DEF Syncing
  <2>. QED
    BY <1>3, <2>1, SyncsForUser, FlowAt, UsersAssumption
<1>. SUFFICES ASSUME races' = {} PROVE Covered'
  BY <1>5, <1>6 DEF Cov
<1>8. Covered /\ Files /\ \A g \in Flows \ {f} : Hd(flow[g].todo) \notin Credentials
  BY <1>3, OnlyWriter
<1>9. {"mint", "write token", "write user"} \subseteq Credentials /\ Syncing \subseteq Credentials
      /\ Clearing \subseteq Credentials /\ "write user" \in Credentials /\ "write user" \in Syncing
      /\ "write user" \notin Clearing
  BY DEF Credentials, Syncing, Clearing
<1>10. Unwritten'
  BY <1>4, <1>5, <1>8 DEF Unwritten
<1>11. Remembered'
  BY <1>9, <1>10 DEF Remembered, Unwritten
<1>12. Owned'
  BY <1>3, <1>7 DEF Owned
<1>13. Served'
  <2>1. \A g \in Flows : Kills(flow[g]) => Kills(flow'[g])
    BY <1>4, <1>5
  <2>2. ASSUME ~Gone, minted[daemon.token] = sidecar PROVE sidecar' = sidecar \/ Kills(flow'[f])
    <3>1. flow[f].prior = sidecar
      BY <1>7, <1>8 DEF Covered, Remembered
    <3>2. sidecar # None
      BY <2>2, OwnersAreUsers
    <3>3. UserChanged(f) => Kills(flow'[f])
      BY <1>1, <1>4, <1>5
    <3>. QED
      BY <1>3, <3>1, <3>2, <3>3 DEF UserChanged
  <2>3. CASE Gone \/ \E g \in Flows : Kills(flow[g])
    BY <1>6, <2>1, <2>3 DEF Served, Calm
  <2>4. CASE ~Gone /\ minted[daemon.token] = sidecar
    BY <1>3, <2>2, <2>4 DEF Served
  <2>5. CASE config # None /\ minted[daemon.token] = minted[config]
    BY <1>3, <2>5 DEF Served
  <2>. QED
    BY <1>8, <2>3, <2>4, <2>5 DEF Covered, Served
<1>14. ~Unwritten
  BY <1>7, <1>9 DEF Unwritten
<1>15. InSession'
  <2>1. \A g \in Flows : WillSync(flow[g]) => g = f
    BY <1>8, <1>9 DEF WillSync
  <2>. QED
    BY <1>3, <1>8, <1>10, <1>14, <2>1 DEF Covered, InSession
<1>16. OutOfSession'
  <2>1. \A g \in Flows : ~LogsOut(flow[g])
    BY <1>7, <1>8, <1>9 DEF LogsOut
  <2>. QED
    BY <1>3, <1>8, <1>14, <2>1 DEF Covered, OutOfSession
<1>. QED
  BY <1>11, <1>12, <1>13, <1>15, <1>16 DEF Covered

-----------------------------------------------------------------------------
(* Clearing, rotating and the daemon itself                                *)

\* What is left when a step is over and nothing takes its place.
LEMMA Emptied ==
    ASSUME IInv, Cov, NEW f \in Flows, NEW step, At(f, step), NEW y, y = Then(f, <<>>)
    PROVE  /\ Shape(y.todo)
           /\ y.todo = <<>> \o Tail(flow[f].todo)
           /\ y.todo # <<>> => y.user = flow[f].user
           /\ Hd(y.todo) # "none" =>
                /\ Hd(y.todo) \in Later
                /\ Hd(y.todo) = "clear user" => step = "clear token"
                /\ Hd(y.todo) = "sync" => step \in Clearing
           /\ \A B : Has(flow[f].todo, B) /\ step \notin B => Has(y.todo, B)
<1>1. PICK s, t, a : s = flow[f].todo /\ t = y.todo /\ a = <<>>
  OBVIOUS
<1>2. /\ flow[f] \in Flow /\ s \in Seq(Steps) /\ s # <<>> /\ InOrder(s) /\ Shape(s) /\ Hd(s) = step
  BY <1>1, FlowAt
<1>3. a \in Seq(Steps) /\ Len(a) = 0
  BY <1>1, Ends DEF Idle, Flow
<1>4. t = a \o Tail(s) /\ (t # <<>> => y.user = flow[f].user)
  BY <1>1, <1>2, <1>3, ThenKnows
<1>5. Shape(t)
  <2>1. (\A k \in 2 .. Len(a) : FALSE) /\ (\A k \in 1 .. Len(a) : FALSE)
    BY <1>3, Within, Indices, Zenon
  <2>. QED
    BY <1>1, <1>2, <1>3, <1>4, <2>1, ShapeKept
<1>6. Hd(t) # "none" =>
        /\ Hd(t) \in Later
        /\ Hd(t) = "clear user" => Hd(s) = "clear token"
        /\ Hd(t) = "sync" => Hd(s) \in Clearing
  <2>1. a = <<>> /\ Hd(t) # "none" =>
                /\ Hd(t) \in Later
                /\ Hd(t) = "clear user" => Hd(s) = "clear token"
                /\ Hd(t) = "sync" => Hd(s) \in Clearing
                /\ Hd(t) \in HeldBack => Hd(s) \in Rotating
    BY <1>2, <1>3, <1>4, NextHead
  <2>. QED
    BY <1>1, <2>1
<1>7. \A B : Has(s, B) /\ Hd(s) \notin B => Has(t, B)
  BY <1>2, <1>3, <1>4, StillHas
<1>. QED
  BY <1>1, <1>2, <1>4, <1>5, <1>6, <1>7

\* The step after a clear's is another of it, or what the clear was to come before.
LEMMA AfterClearing ==
    ASSUME NEW s \in Seq(Steps), s # <<>>, NEW t, t = <<>> \o Tail(s),
           NEW B, Prefixed(s, B, Clearing), Has(s, B), Hd(s) \notin B
    PROVE  Hd(t) \in B \cup Clearing
<1>1. PICK a : a = <<>>
  OBVIOUS
<1>2. a \in Seq(Steps) /\ Len(a) = 0
  BY <1>1, Ends DEF Idle, Flow
<1>3. /\ Len(s) \in Nat /\ Len(s) >= 1 /\ Hd(s) = s[1]
      /\ Len(t) = Len(a) + Len(s) - 1
      /\ \A k \in 2 .. Len(s) : k + Len(a) - 1 \in 1 .. Len(t) /\ t[k + Len(a) - 1] = s[k]
      /\ t # <<>> => Len(t) >= 1 /\ Hd(t) = t[1]
  <2>1. t = a \o Tail(s)
    BY <1>1
  <2>2. Len(s) \in Nat /\ Len(s) >= 1 /\ Hd(s) = s[1] /\ Len(t) = Len(a) + Len(s) - 1
    BY <1>2, <2>1, Spliced
  <2>3. \A k \in 2 .. Len(s) : k + Len(a) - 1 \in 1 .. Len(t) /\ t[k + Len(a) - 1] = s[k]
    BY <1>2, <2>1, Spliced
  <2>4. t # <<>> => Len(t) >= 1 /\ Hd(t) = t[1]
    BY <1>2, <2>1, Spliced
  <2>. QED
    BY <2>2, <2>3, <2>4
<1>4. PICK k \in 1 .. Len(s) : s[k] \in B
  BY DEF Has
<1>5. k \in 2 .. Len(s) /\ 2 \in 2 .. Len(s)
  BY <1>3, <1>4
<1>6. Len(t) >= 1 /\ t[1] = s[2]
  <2>1. 2 + Len(a) - 1 = 1
    BY <1>2
  <2>. QED
    BY <1>2, <1>3, <1>5, <2>1
<1>7. Hd(t) = s[2]
  <2>1. Len(<<>>) = 0 /\ ~(0 >= 1)
    BY Ends
  <2>2. t # <<>>
    BY <1>6, <2>1
  <2>. QED
    BY <1>3, <1>6, <2>2
<1>8. s[2] \in B \cup Clearing
  <2>1. CASE k = 2
    BY <1>4, <2>1
  <2>2. CASE k # 2
    <3>1. 2 \in 1 .. (k - 1)
      BY <1>5, <2>2
    <3>2. \A j \in 1 .. (k - 1) : s[j] \in Clearing
      BY <1>4, <1>5 DEF Prefixed
    <3>. QED
      BY <3>1, <3>2
  <2>. QED
    BY <2>1, <2>2
<1>. QED
  BY <1>7, <1>8

\* What a clear leaves, when one of the files is empty.
LEMMA ClearingLeaves ==
    ASSUME IInv, Cov, NEW f \in Flows, NEW step \in {"clear token", "clear user"}, At(f, step),
           NEW y, y = Then(f, <<>>)
    PROVE  /\ Kills(y)
           /\ Hd(y.todo) \notin {"mint", "write token", "write user"}
           /\ WillSync(flow[f]) => WillSync(y) /\ y.user = flow[f].user
           /\ LogsOut(flow[f]) => LogsOut(y)
                                  \/ (Hd(y.todo) \in Ending /\ Hd(y.todo) \notin Credentials)
<1>1. PICK s, t : s = flow[f].todo /\ t = y.todo
  OBVIOUS
<1>2. /\ s \in Seq(Steps) /\ s # <<>> /\ InOrder(s) /\ Shape(s) /\ Hd(s) = step
  BY <1>1, FlowAt
<1>3. /\ t = <<>> \o Tail(s)
      /\ t # <<>> => y.user = flow[f].user
      /\ Hd(t) # "none" => Hd(t) \in Later
      /\ \A B : Has(s, B) /\ step \notin B => Has(t, B)
  BY <1>1, Emptied
<1>4. step \in Clearing /\ step \notin HeldBack /\ step \notin Resync /\ step \notin GuardedStop
      /\ step \notin Syncing
  BY DEF Clearing, HeldBack, Resync, GuardedStop, Syncing
<1>5. Kills(y)
  <2>1. Has(t, HeldBack)
    BY <1>2, <1>3, <1>4 DEF Shape
  <2>2. HeldBack \subseteq Ending
    BY DEF HeldBack, Ending
  <2>. QED
    BY <1>1, <2>1, <2>2 DEF Kills, Has
<1>6. Hd(t) \notin {"mint", "write token", "write user"}
  BY <1>3 DEF Later
<1>7. ASSUME WillSync(flow[f]) PROVE WillSync(y) /\ y.user = flow[f].user
  <2>1. Has(s, Resync) /\ Prefixed(s, Resync, Clearing)
    BY <1>1, <1>2, <1>4, <1>7 DEF WillSync, InOrder, Prefixed, Resync
  <2>2. Has(t, Resync) /\ Hd(t) \in Resync \cup Clearing
    BY <1>2, <1>3, <1>4, <2>1, AfterClearing
  <2>3. t # <<>>
    BY <2>2, Heads
  <2>. QED
    BY <1>1, <1>3, <2>2, <2>3 DEF WillSync, Resync, Syncing
<1>8. ASSUME LogsOut(flow[f])
      PROVE  LogsOut(y) \/ (Hd(t) \in Ending /\ Hd(t) \notin Credentials)
  <2>1. Has(s, GuardedStop) /\ Prefixed(s, GuardedStop, Clearing)
    BY <1>1, <1>2, <1>8 DEF LogsOut, Shape
  <2>2. Has(t, GuardedStop) /\ Hd(t) \in GuardedStop \cup Clearing
    BY <1>2, <1>3, <1>4, <2>1, AfterClearing
  <2>3. GuardedStop \subseteq Ending /\ GuardedStop \cap Credentials = {}
    BY DEF GuardedStop, Ending, Credentials
  <2>. QED
    BY <1>1, <2>2, <2>3 DEF LogsOut
<1>. QED
  BY <1>1, <1>5, <1>6, <1>7, <1>8

\* A clear's step after which there is no token in the file.
LEMMA ClearingCov ==
    ASSUME IInv, Cov, NEW f \in Flows, NEW step \in {"clear token", "clear user"}, At(f, step),
           Goes(f, <<>>), Writes(f), races' = {} => config' = None,
           UNCHANGED <<minted, session, daemon>>
    PROVE  Cov'
<1>1. PICK y : y = Then(f, <<>>)
  OBVIOUS
<1>2. /\ Kills(y)
      /\ Hd(y.todo) \notin {"mint", "write token", "write user"}
      /\ WillSync(flow[f]) => WillSync(y) /\ y.user = flow[f].user
      /\ LogsOut(flow[f]) => LogsOut(y)
                             \/ (Hd(y.todo) \in Ending /\ Hd(y.todo) \notin Credentials)
  BY <1>1, ClearingLeaves
<1>3. Shape(y.todo) /\ Hd(flow[f].todo) = step
  BY <1>1, Emptied, FlowAt
<1>4. /\ ShapeInv' /\ flow'[f] = y /\ \A g \in Flows \ {f} : flow'[g] = flow[g]
  BY <1>1, <1>3, OneFlow DEF Cov, Goes
<1>5. Calm /\ DaemonKnown'
  BY DaemonStays
<1>. SUFFICES ASSUME races' = {} PROVE Covered'
  BY <1>4, <1>5 DEF Cov
<1>6. Covered /\ \A g \in Flows \ {f} : Hd(flow[g].todo) \notin Credentials
  BY OnlyWriter
<1>7. {"mint", "write token", "write user"} \subseteq Credentials /\ Syncing \subseteq Credentials
      /\ Clearing \subseteq Credentials /\ step \in Credentials
  BY DEF Credentials, Syncing, Clearing
<1>8. Remembered'
  BY <1>2, <1>4, <1>6, <1>7 DEF Remembered
<1>9. Owned'
  BY DEF Owned
<1>10. Served'
  BY <1>2, <1>4 DEF Served
<1>11. ~Unwritten
  BY <1>3, <1>7 DEF Unwritten
<1>12. InSession'
  <2>1. \A g \in Flows : WillSync(flow[g]) => g = f
    BY <1>6, <1>7 DEF WillSync
  <2>. QED
    BY <1>2, <1>4, <1>6, <1>11, <2>1 DEF Covered, InSession
<1>13. OutOfSession'
  <2>. SUFFICES ASSUME session = LoggedOut
                PROVE  \/ \E g \in Flows : LogsOut(flow'[g])
                       \/ /\ config' = None /\ Unwritten'
                          /\ Gone' \/ \E g \in Flows : Hd(flow'[g].todo) \in Ending
    BY DEF OutOfSession
  <2>1. \A g \in Flows : LogsOut(flow[g]) => g = f
    BY <1>6, <1>7 DEF LogsOut
  <2>2. LogsOut(y) \/ (Hd(y.todo) \in Ending /\ Hd(y.todo) \notin Credentials)
    BY <1>2, <1>6, <1>11, <2>1 DEF Covered, OutOfSession
  <2>3. CASE LogsOut(y)
    BY <1>4, <2>3
  <2>4. CASE Hd(y.todo) \in Ending /\ Hd(y.todo) \notin Credentials
    <3>1. Unwritten'
      BY <1>4, <1>6, <2>4 DEF Unwritten
    <3>. QED
      BY <1>4, <2>4, <3>1
  <2>. QED
    BY <2>2, <2>3, <2>4
<1>. QED
  BY <1>8, <1>9, <1>10, <1>12, <1>13 DEF Covered

\* ClearToken keeps it covered.
LEMMA CovClearToken ==
    ASSUME IInv, Cov, NEW f \in Flows, ClearToken(f) PROVE Cov'
  BY ClearingCov DEF ClearToken, server

\* ClearUser keeps it covered: the token is gone by then.
LEMMA CovClearUser ==
    ASSUME IInv, Cov, NEW f \in Flows, ClearUser(f) PROVE Cov'
<1>1. At(f, "clear user") /\ Goes(f, <<>>) /\ Writes(f) /\ UNCHANGED <<config, minted, session, daemon>>
  BY DEF ClearUser, server
<1>2. ASSUME races' = {} PROVE config' = None
  <2>1. Files
    BY <1>1, <1>2, OnlyWriter
  <2>. QED
    BY <1>1, <2>1 DEF Files
<1>. QED
  BY <1>1, <1>2, ClearingCov

\* Rotate keeps it covered: the restart that follows stops the daemon.
LEMMA CovRotate ==
    ASSUME IInv, Cov, NEW f \in Flows, Rotate(f) PROVE Cov'
<1>1. PICK y : y = Then(f, <<>>)
  OBVIOUS
<1>2. At(f, "rotate") /\ Asked(f) /\ UNCHANGED <<config, sidecar, minted, session, daemon, races>>
  BY DEF Rotate, files, server
<1>3. /\ "rotate" \notin Ending /\ "rotate" \notin Credentials /\ "rotate" \notin Clearing
      /\ "stop" \in Ending /\ "stop" \notin Credentials /\ "stop" \notin Clearing
      /\ "none" \notin Credentials
  BY DEF Ending, Credentials, Clearing
<1>4. /\ Shape(y.todo)
      /\ Hd(y.todo) # "none" =>
           /\ Hd(y.todo) \in Later
           /\ Hd(y.todo) = "clear user" => "rotate" = "clear token"
           /\ Hd(y.todo) = "sync" => "rotate" \in Clearing
      /\ Has(flow[f].todo, Ending) => Has(y.todo, Ending)
      /\ Hd(flow[f].todo) = "rotate"
  BY <1>1, <1>2, <1>3, Emptied, FlowAt
<1>5. Hd(y.todo) \notin Credentials
  BY <1>3, <1>4 DEF Later, Credentials
<1>6. Calm /\ DaemonKnown'
  BY <1>2, DaemonStays
<1>7. CASE ~Alive(flow[f].saw)
  <2>1. flow' = [flow EXCEPT ![f] = y]
    BY <1>1, <1>7 DEF Rotate, Goes
  <2>2. Kills(flow[f]) => Kills(y)
    BY <1>2, <1>4, <1>7 DEF Kills, Asked
  <2>. QED
    BY <1>2, <1>3, <1>4, <1>5, <1>6, <2>1, <2>2, Onward
<1>8. CASE Alive(flow[f].saw)
  <2>1. PICK r : r = [Idle EXCEPT !.todo = Restart]
    OBVIOUS
  <2>2. PICK g \in Flows \ {f} : Free(g) /\ flow' = [flow EXCEPT ![f] = y, ![g] = r]
    BY <1>1, <1>8, <2>1 DEF Rotate
  <2>3. flow \in [Flows -> Flow]
    BY DEF IInv, TypeOK
  <2>4. flow'[f] = y /\ flow'[g] = r /\ \A h \in Flows \ {f, g} : flow'[h] = flow[h]
    BY <2>2, <2>3
  <2>5. r.todo = Restart
    BY <2>1 DEF Idle
  <2>6. /\ Len(Restart) = 2 /\ Restart[1] = "stop" /\ Restart[2] = "start" /\ Hd(Restart) = "stop"
    BY Pairs DEF Restart, Hd
  <2>7. Shape(Restart)
    <3>1. "start" \notin HeldBack /\ "start" \notin GuardedStop
      BY DEF HeldBack, GuardedStop
    <3>2. \A k \in 2 .. Len(Restart) : Restart[k] = "start"
      <4>1. \A k \in 2 .. 2 : k = 2
        OBVIOUS
      <4>. QED
        BY <2>6, <4>1, Zenon
    <3>. QED
      BY <1>3, <2>6, <3>1, <3>2 DEF Shape, Prefixed
  <2>8. Has(Restart, Ending)
    <3>1. 1 \in 1 .. Len(Restart)
      BY <2>6
    <3>. QED
      BY <1>3, <2>6, <3>1 DEF Has
  <2>9. ShapeInv'
    BY <1>4, <2>4, <2>5, <2>7 DEF Cov, ShapeInv
  <2>10. Hd(flow[g].todo) = "none"
    BY <2>2, Heads
  <2>11. \A h \in Flows : \/ flow'[h] = flow[h]
                          \/ Hd(flow[h].todo) \notin Credentials /\ Hd(flow'[h].todo) \notin Credentials
    BY <1>3, <1>4, <1>5, <2>2, <2>4, <2>5, <2>6, <2>10
  <2>12. Kills(flow'[g]) /\ Hd(flow'[g].todo) \in Ending
    BY <1>3, <2>4, <2>5, <2>6, <2>8 DEF Kills
  <2>. QED
    BY <1>2, <1>6, <2>2, <2>9, <2>11, <2>12, Away
<1>. QED
  BY <1>7, <1>8

-----------------------------------------------------------------------------
(* The daemon and the server                                               *)

\* A step of the daemon or the server, after which the daemon works for whom it did, or is gone.
LEMMA OutsideCalm ==
    ASSUME IInv, Cov, UNCHANGED <<flow, config, sidecar, session, races, minted>>,
           DaemonKnown', Gone' \/ Calm
    PROVE  Cov'
<1>1. ShapeInv'
  BY DEF Cov, ShapeInv
<1>2. \A g \in Flows : flow'[g] = flow[g]
  OBVIOUS
<1>3. /\ (\E g \in Flows : Kills(flow[g])) => \E g \in Flows : Kills(flow'[g])
      /\ (\E g \in Flows : Hd(flow[g].todo) \in Ending) =>
            \E g \in Flows : Hd(flow'[g].todo) \in Ending
  BY <1>2
<1>. QED
  BY <1>1, <1>2, <1>3, Away

\* The daemon is gone.
LEMMA DaemonGone ==
    ASSUME IInv, Cov, UNCHANGED <<flow, config, sidecar, session, races, minted>>,
           daemon' = NoProcess
    PROVE  Cov'
<1>1. daemon'.phase = "off"
  BY DEF NoProcess
<1>2. DaemonKnown' /\ Gone'
  BY <1>1 DEF DaemonKnown, Up, Gone
<1>. QED
  BY <1>2, OutsideCalm

\* The daemon goes on with the token that it has.
LEMMA DaemonStaysUp ==
    ASSUME IInv, Cov, UNCHANGED <<flow, config, sidecar, session, races, minted>>,
           daemon.phase \in {"loaded", "starting", "running"} \/ daemon'.phase = daemon.phase,
           daemon'.token = daemon.token, daemon'.leaving = daemon.leaving,
           daemon'.phase \in {"loaded", "starting", "running"} \/ daemon'.phase = daemon.phase
    PROVE  Cov'
<1>1. DaemonKnown'
  BY DEF Cov, DaemonKnown, Up
<1>2. Calm
  BY DEF Calm, Gone
<1>. QED
  BY <1>1, <1>2, OutsideCalm

\* DaemonLoads keeps it covered: the token is the one in the file.
LEMMA CovDaemonLoads ==
    ASSUME IInv, Cov, DaemonLoads PROVE Cov'
<1>1. /\ UNCHANGED <<flow, config, sidecar, session, races, minted>>
      /\ daemon.phase = "spawned"
      /\ daemon' = IF config = None THEN NoProcess
                   ELSE [daemon EXCEPT !.phase = "loaded", !.token = config]
  BY DEF DaemonLoads, Others, files, server
<1>2. CASE config = None
  BY <1>1, <1>2, DaemonGone
<1>3. CASE config # None
  <2>1. daemon \in Process /\ config \in 1 .. Len(minted)
    BY <1>3 DEF IInv, TypeOK, TokenInv, Known
  <2>2. daemon'.token = config
    BY <1>1, <1>3, <2>1 DEF Process
  <2>3. ShapeInv' /\ DaemonKnown'
    BY <1>1, <2>1, <2>2 DEF Cov, ShapeInv, DaemonKnown
  <2>. SUFFICES ASSUME races = {} PROVE Covered'
    BY <1>1, <2>3 DEF Cov
  <2>4. Covered
    BY DEF Cov
  <2>5. Remembered' /\ Owned' /\ InSession'
    BY <1>1, <2>4 DEF Covered, Remembered, Owned, InSession, Unwritten
  <2>6. Served'
    BY <1>1, <1>3, <2>2 DEF Served
  <2>7. OutOfSession'
    BY <1>1, <1>3, <2>4 DEF Covered, OutOfSession
  <2>. QED
    BY <2>5, <2>6, <2>7 DEF Covered
<1>. QED
  BY <1>2, <1>3

\* Whatever the daemon and the server do, it stays covered.
LEMMA CovOutside ==
    ASSUME IInv, Cov, Outside PROVE Cov'
<1>1. daemon \in Process
  BY DEF IInv, TypeOK
<1>2. CASE DaemonLoads
  BY <1>2, CovDaemonLoads
<1>3. CASE DaemonServes
  <2>1. /\ UNCHANGED <<flow, config, sidecar, session, races, minted>>
        /\ daemon.phase = "loaded" /\ daemon' = [daemon EXCEPT !.phase = "starting"]
    BY <1>3 DEF DaemonServes, Others, files, server
  <2>2. daemon'.phase = "starting" /\ daemon'.token = daemon.token /\ daemon'.leaving = daemon.leaving
    BY <1>1, <2>1 DEF Process
  <2>. QED
    BY <2>1, <2>2, DaemonStaysUp
<1>4. CASE DaemonIsReady
  <2>1. /\ UNCHANGED <<flow, config, sidecar, session, races, minted>>
        /\ daemon.phase = "starting"
        /\ daemon' = NoProcess \/ daemon' = [daemon EXCEPT !.phase = "running"]
    BY <1>4 DEF DaemonIsReady, Others, files, server
  <2>2. CASE daemon' = NoProcess
    BY <2>1, <2>2, DaemonGone
  <2>3. CASE daemon' = [daemon EXCEPT !.phase = "running"]
    <3>1. daemon'.phase = "running" /\ daemon'.token = daemon.token
          /\ daemon'.leaving = daemon.leaving
      BY <1>1, <2>3 DEF Process
    <3>. QED
      BY <2>1, <3>1, DaemonStaysUp
  <2>. QED
    BY <2>1, <2>2, <2>3
<1>5. CASE DaemonLeaves \/ DaemonDies
  BY <1>5, DaemonGone DEF DaemonLeaves, DaemonDies, Others, files, server
<1>6. CASE TaskStarts \/ TaskEnds
  <2>1. /\ UNCHANGED <<flow, config, sidecar, session, races, minted>>
        /\ daemon' = [daemon EXCEPT !.busy = TRUE] \/ daemon' = [daemon EXCEPT !.busy = FALSE]
    BY <1>6 DEF TaskStarts, TaskEnds, Others, files, server
  <2>2. daemon'.phase = daemon.phase /\ daemon'.token = daemon.token
        /\ daemon'.leaving = daemon.leaving
    BY <1>1, <2>1 DEF Process
  <2>. QED
    BY <2>1, <2>2, DaemonStaysUp
<1>7. ASSUME NEW t \in Tokens, Revoke(t) PROVE Cov'
  <2>1. UNCHANGED <<flow, config, sidecar, session, races, minted, daemon>>
    BY <1>7 DEF Revoke, Others, files
  <2>. QED
    BY <2>1, DaemonStaysUp
<1>. QED
  BY <1>2, <1>3, <1>4, <1>5, <1>6, <1>7 DEF Outside

-----------------------------------------------------------------------------
(* Whose daemon runs                                                       *)

\* It is covered in the beginning.
LEMMA InitCov == ASSUME Init PROVE Cov
<1>1. \A f \in Flows : flow[f].todo = <<>>
  BY Ends DEF Init
<1>2. \A f \in Flows : Hd(flow[f].todo) = "none" /\ Shape(flow[f].todo)
  <2>1. "poll" \notin Clearing
    BY DEF Clearing
  <2>. QED
    BY <1>1, <2>1, Heads, ShapeOne
<1>3. ShapeInv /\ Remembered /\ Unwritten
  BY <1>2 DEF ShapeInv, Remembered, Unwritten, Credentials
<1>4. session # LoggedOut
  BY UsersAssumption DEF Init
<1>5. CASE config = None /\ sidecar = None /\ daemon = NoProcess /\ session = None
  <2>1. daemon.phase = "off"
    BY <1>5 DEF NoProcess
  <2>2. session \notin Users
    BY <1>5, UsersAssumption
  <2>3. DaemonKnown /\ Owned /\ Served /\ InSession
    BY <1>5, <2>1, <2>2 DEF DaemonKnown, Up, Owned, Served, Gone, InSession
  <2>. QED
    BY <1>3, <1>4, <2>3 DEF Cov, Covered, OutOfSession
<1>6. ASSUME NEW u \in Users, session \in {None, u}, config = 1, sidecar = u, minted = <<u>>,
             daemon \in {NoProcess, [NoProcess EXCEPT !.phase = "running", !.token = 1, !.old = TRUE]}
      PROVE  Cov
  <2>1. u # None
    BY UsersAssumption
  <2>2. Len(minted) = 1 /\ minted[1] = u
    BY <1>6
  <2>3. daemon.phase = "off" \/ daemon.token = 1
    <3>1. NoProcess.phase = "off"
      BY DEF NoProcess
    <3>2. [NoProcess EXCEPT !.phase = "running", !.token = 1, !.old = TRUE].token = 1
      BY DEF NoProcess
    <3>. QED
      BY <1>6, <3>1, <3>2
  <2>4. DaemonKnown
    BY <2>2, <2>3 DEF DaemonKnown, Up
  <2>5. Owned /\ Served
    BY <1>6, <2>1, <2>2, <2>3 DEF Owned, Served, Gone
  <2>6. InSession
    BY <1>3, <1>6, UsersAssumption DEF InSession
  <2>. QED
    BY <1>3, <1>4, <2>4, <2>5, <2>6 DEF Cov, Covered, OutOfSession
<1>. QED
  BY <1>5, <1>6 DEF Init

\* A step that changes nothing.
LEMMA StutterCov == ASSUME IInv, Cov, UNCHANGED vars PROVE Cov'
<1>1. UNCHANGED <<flow, config, sidecar, session, races, minted, daemon>>
  BY DEF vars, files, server
<1>. QED
  BY <1>1, DaemonStaysUp

\* Every step keeps it covered.
LEMMA NextCov == ASSUME IInv, Cov, [Next]_vars PROVE Cov'
<1>1. CASE Polls
  <2>1. SUFFICES ASSUME NEW f \in Flows,
                        \/ PollTimer(f) \/ SeesItRunning(f) \/ SeesItNotRunning(f)
                        \/ ProbeToken(f) \/ TakeVerdict(f)
                 PROVE  Cov'
    BY <1>1 DEF Polls
  <2>. QED
    BY <2>1, CovPollTimer, CovSeesItRunning, CovSeesItNotRunning, CovProbeToken, CovTakeVerdict, Zenon
<1>2. CASE Lifecycle
  <2>. SUFFICES ASSUME NEW f \in Flows,
                       \/ AskHealth(f) \/ TakeGuard(f) \/ Unlock(f) \/ CheckVersion(f)
                       \/ Stop(f) \/ ExecStop(f) \/ StopEnds(f) \/ StopFails(f)
                       \/ FindsItUp(f) \/ Start(f) \/ ExecStart(f) \/ StartFails(f) \/ StartEnds(f)
                PROVE  Cov'
    BY <1>2 DEF Lifecycle
  <2>1. CASE AskHealth(f) \/ TakeGuard(f) \/ Unlock(f) \/ CheckVersion(f)
    BY <2>1, CovAskHealth, CovTakeGuard, CovUnlock, CovCheckVersion, Zenon
  <2>2. CASE Stop(f) \/ ExecStop(f) \/ StopEnds(f) \/ StopFails(f)
    BY <2>2, CovStop, CovExecStop, CovStopEnds, CovStopFails, Zenon
  <2>3. CASE FindsItUp(f) \/ Start(f) \/ ExecStart(f) \/ StartFails(f) \/ StartEnds(f)
    BY <2>3, CovFindsItUp, CovStart, CovExecStart, CovStartFails, CovStartEnds, Zenon
  <2>. QED
    BY <2>1, <2>2, <2>3
<1>3. CASE Syncs
  <2>. SUFFICES ASSUME NEW f \in Flows,
                       \/ ReadConfig(f) \/ ReadSidecar(f) \/ Mint(f) \/ MintFails(f)
                       \/ WriteToken(f) \/ WriteUser(f) \/ WriteFails(f) \/ Rotate(f)
                       \/ Clear(f) \/ ClearToken(f) \/ ClearUser(f)
                PROVE  Cov'
    BY <1>3 DEF Syncs
  <2>1. CASE ReadConfig(f) \/ ReadSidecar(f) \/ Mint(f) \/ MintFails(f)
    BY <2>1, CovReadConfig, CovReadSidecar, CovMint, CovMintFails, Zenon
  <2>2. CASE WriteToken(f) \/ WriteUser(f) \/ WriteFails(f) \/ Rotate(f)
    BY <2>2, CovWriteToken, CovWriteUser, CovWriteFails, CovRotate, Zenon
  <2>3. CASE Clear(f) \/ ClearToken(f) \/ ClearUser(f)
    BY <2>3, CovClear, CovClearToken, CovClearUser, Zenon
  <2>. QED
    BY <2>1, <2>2, <2>3
<1>4. CASE Renderer
  <2>1. CASE AppDies
    BY <2>1, CovAppDies
  <2>2. ASSUME NEW f \in Flows, \/ \E u \in Users : Login(f, u)
                                \/ \E op \in GuardedSteps : Click(f, op)
                                \/ Logout(f) \/ Reauthenticate(f)
        PROVE  Cov'
    BY <2>2, CovLogin, CovClick, CovLogout, CovReauthenticate, Zenon
  <2>. QED
    BY <1>4, <2>1, <2>2 DEF Renderer
<1>5. CASE Outside
  BY <1>5, CovOutside
<1>6. CASE UNCHANGED vars
  BY <1>6, StutterCov
<1>. QED
  BY <1>1, <1>2, <1>3, <1>4, <1>5, <1>6 DEF Next

\* As long as no race is noted, every daemon, file and session is covered: it is right, or some
\* handler still has to make it right.
THEOREM AlwaysCovered == Spec => []Cov
<1>1. Init => IInv /\ Cov
  BY InitIInv, InitCov
<1>2. IInv /\ Cov /\ [Next]_vars => (IInv /\ Cov)'
  BY NextIInv, NextCov
<1>. QED
  BY <1>1, <1>2, PTL DEF Spec

\* With no flow at work there is nobody left to put anything right.
LEMMA RestIsRight ==
    ASSUME IInv, Cov, AtRest, races = {}
    PROVE  /\ Covered /\ Files /\ Unwritten
           /\ \A f \in Flows : /\ ~Kills(flow[f]) /\ ~WillSync(flow[f]) /\ ~LogsOut(flow[f])
                               /\ Hd(flow[f].todo) \notin Ending
                               /\ Hd(flow[f].todo) # "write user" /\ ~At(f, "write user")
<1>1. Covered /\ Files
  BY DEF Cov, IInv, FilesInv
<1>2. \A f \in Flows : Hd(flow[f].todo) = "none" /\ ~Has(flow[f].todo, Ending) /\ ~At(f, "write user")
  BY Heads DEF AtRest, Free, At
<1>3. "none" \notin Credentials /\ "none" \notin Clearing /\ "none" \notin Syncing /\ "none" \notin Ending
  BY DEF Credentials, Clearing, Syncing, Ending
<1>. QED
  BY <1>1, <1>2, <1>3 DEF Kills, WillSync, LogsOut, Unwritten

\* syncToken, clearToken and the rotation: with all at rest and no race on the way, a daemon
\* that runs while a user is logged in works with a token of that user.
THEOREM ServesTheSession == Spec => []DaemonServesTheSession
<1>1. ASSUME IInv, Cov, Settled, session \in Users, daemon.phase # "off", races = {}
      PROVE  minted[daemon.token] = session
  <2>1. /\ Covered /\ Files /\ Unwritten
        /\ \A f \in Flows : /\ ~Kills(flow[f]) /\ ~WillSync(flow[f])
                            /\ Hd(flow[f].todo) # "write user" /\ ~At(f, "write user")
    BY <1>1, RestIsRight DEF Settled
  <2>2. sidecar = session
    BY <1>1, <2>1 DEF Covered, InSession
  <2>3. ~Gone
    BY <1>1 DEF Settled, Gone
  <2>4. config # None => sidecar # None /\ minted[config] = sidecar
    BY <2>1 DEF Covered, Owned, Files
  <2>. QED
    BY <2>1, <2>2, <2>3, <2>4 DEF Covered, Served
<1>2. IInv /\ Cov => DaemonServesTheSession
  BY <1>1 DEF DaemonServesTheSession
<1>. QED
  BY <1>2, Invariant, AlwaysCovered, PTL

\* handleDaemonLogout: with all at rest and no race on the way, no daemon works on for a user
\* who has logged out.
THEOREM OffAfterLogout == Spec => []LoggedOutIsOff
<1>1. ASSUME IInv, Cov, Settled, session = LoggedOut, races = {} PROVE daemon.phase = "off"
  <2>1. /\ Covered
        /\ \A f \in Flows : ~LogsOut(flow[f]) /\ Hd(flow[f].todo) \notin Ending
    BY <1>1, RestIsRight DEF Settled
  <2>2. Gone
    BY <1>1, <2>1 DEF Covered, OutOfSession
  <2>. QED
    BY <1>1, <2>2 DEF Settled, Gone
<1>2. IInv /\ Cov => LoggedOutIsOff
  BY <1>1 DEF LoggedOutIsOff
<1>. QED
  BY <1>2, Invariant, AlwaysCovered, PTL

=============================================================================
