-------------------------- MODULE Container_proofs --------------------------
(***************************************************************************)
(* For any threads, any services and any needs without a cycle: singletons *)
(* are made once, what is registered with all it needs is served, what     *)
(* can be registered on demand is not lost, and no two threads wait for    *)
(* each other as long as the functions that ask for services are those of  *)
(* registered ones.                                                        *)
(***************************************************************************)
EXTENDS Container, FiniteSetTheorems, SequenceTheorems, TLAPS

USE ContainerAssumption

Ranks(rank) ==
    /\ \A s \in Service : \A k \in DOMAIN Needs[s] : rank[Needs[s][k]] < rank[s]
    /\ \A s \in OnDemand : \A k \in DOMAIN Uses[s] : rank[Uses[s][k]] < rank[s]

(* An order in which every service comes after what it needs. *)
Rank == CHOOSE rank \in [Service -> 1 .. Cardinality(Service)] : Ranks(rank)

(* What start registered is still registered, and with its scope. *)
Kept ==
    \A s \in Service :
        /\ Registered[s] = "singleton" => registration[s] = "singleton"
        /\ Registered[s] # "none" => registration[s] # "none"

(* The resolver's lock. *)
Exclusive ==
    \A t, u \in Thread : HoldsResolver(t) /\ HoldsResolver(u) => t = u

(* A thread does not come back to a service that it is about to make. *)
Descending ==
    \A t \in Thread : \A j, k \in DOMAIN stack[t] :
        j < k => Rank[stack[t][k].of] < Rank[stack[t][j].of]

NeededFor(u, s) == \E m \in DOMAIN Needs[s] : Needs[s][m] = u

(* A call that waits for another is making something, out of things it     *)
(* needs, or sets something up.                                            *)
Linked ==
    \A t \in Thread : \A j, k \in DOMAIN stack[t] :
        k = j + 1 =>
            /\ stack[t][j].at \in Making \union {"setup"}
            /\ stack[t][j].at \in Making => NeededFor(stack[t][k].of, stack[t][j].of)

(* What is true of every call.  Whoever makes a singleton found none; a    *)
(* call that has failed once is for a service that may fail.               *)
CallOK(c) ==
    /\ c.at = "setup" => c.of \in OnDemand
    /\ c.at \in {"registering", "setup"} => Registered[c.of] = "none"
    /\ c.at \in Making /\ Registered[c.of] = "singleton" =>
         c.scope = "singleton" /\ singletons[c.of] = 0
    /\ c.at \notin {"resolve", "making"} => ~Sound(c.of)
    /\ c.at \in Making \union {"setup"} =>
         \A k \in DOMAIN c.left : Rank[c.left[k]] < Rank[c.of]
    /\ c.at \in Making => \A k \in DOMAIN c.left : NeededFor(c.left[k], c.of)

CallsOK == \A t \in Thread : \A k \in DOMAIN stack[t] : CallOK(stack[t][k])

(* Of a singleton nothing was given but the instance that is kept. *)
GivenIsKept ==
    \A s \in Service :
        Registered[s] = "singleton" => given[s] \subseteq {singletons[s]} \ {0}

IInv ==
    /\ TypeOK
    /\ Kept
    /\ Exclusive
    /\ Descending
    /\ Linked
    /\ CallsOK
    /\ GivenIsKept
    /\ SoundIsServed

-----------------------------------------------------------------------------
LEMMA RankExists == Rank \in [Service -> 1 .. Cardinality(Service)] /\ Ranks(Rank)
<1>1. \E rank \in [Service -> 1 .. Cardinality(Service)] : Ranks(rank)
    BY AcyclicAssumption DEF Ranks
<1> QED
    BY <1>1 DEF Rank

LEMMA RankType == \A s \in Service : Rank[s] \in Int
BY RankExists

(* What a service that is sound needs is sound. *)
LEMMA SoundNeeds ==
    ASSUME NEW s \in Service, NEW u \in Service, NeededFor(u, s), Sound(s)
    PROVE  Sound(u)
<1> PICK S \in SUBSET Service :
        /\ s \in S
        /\ \A v \in S :
             /\ Registered[v] # "none" \/ v \in Concrete
             /\ v \notin Fragile
             /\ \A k \in DOMAIN Needs[v] : Needs[v][k] \in S
    BY DEF Sound
<1>1. u \in S
    BY DEF NeededFor
<1> QED
    BY <1>1 DEF Sound

(* The ways a thread changes its stack. *)
LEMMA CutLemma ==
    ASSUME NEW S, NEW s \in Seq(S), NEW n \in Nat, n <= Len(s)
    PROVE  /\ SubSeq(s, 1, n) \in Seq(S)
           /\ Len(SubSeq(s, 1, n)) = n
           /\ \A k \in 1 .. n : SubSeq(s, 1, n)[k] = s[k]
<1>1. \A k \in 1 .. n : s[k] \in S
    BY LenProperties, ElementOfSeq
<1>2. Len(SubSeq(s, 1, n)) = IF 1 <= n THEN n - 1 + 1 ELSE 0
    BY <1>1, SubSeqProperties
<1>3. SubSeq(s, 1, n) \in Seq(S) /\ \A k \in 1 .. n - 1 + 1 : SubSeq(s, 1, n)[k] = s[1 + k - 1]
    BY <1>1, SubSeqProperties
<1> QED
    BY <1>2, <1>3

(* The first n calls stay and c comes on top of them. *)
LEMMA OnTop ==
    ASSUME NEW S, NEW s \in Seq(S), NEW n \in Nat, n <= Len(s), NEW c \in S
    PROVE  /\ Append(SubSeq(s, 1, n), c) \in Seq(S)
           /\ Len(Append(SubSeq(s, 1, n), c)) = n + 1
           /\ \A k \in 1 .. n : Append(SubSeq(s, 1, n), c)[k] = s[k]
           /\ Append(SubSeq(s, 1, n), c)[n + 1] = c
<1> DEFINE b == SubSeq(s, 1, n)
<1>1. b \in Seq(S) /\ Len(b) = n /\ \A k \in 1 .. n : b[k] = s[k]
    BY CutLemma
<1> HIDE DEF b
<1>2. /\ Append(b, c) \in Seq(S)
      /\ Len(Append(b, c)) = n + 1
      /\ \A k \in 1 .. n : Append(b, c)[k] = b[k]
      /\ Append(b, c)[n + 1] = c
    BY <1>1, AppendProperties
<1> QED
    BY <1>1, <1>2 DEF b

LEMMA ReplaceLemma ==
    ASSUME stack \in [Thread -> Seq(Call)], NEW t \in Thread, stack[t] # <<>>,
           NEW c \in Call, Replace(t, c)
    PROVE  /\ stack' \in [Thread -> Seq(Call)]
           /\ Len(stack[t]) \in Nat \ {0}
           /\ DOMAIN stack'[t] = 1 .. Len(stack[t])
           /\ DOMAIN stack[t] = 1 .. Len(stack[t])
           /\ stack'[t][Len(stack[t])] = c
           /\ \A k \in 1 .. Len(stack[t]) - 1 : stack'[t][k] = stack[t][k]
           /\ \A u \in Thread \ {t} : stack'[u] = stack[u]
<1>1. /\ stack[t] \in Seq(Call) /\ Len(stack[t]) \in Nat \ {0}
      /\ DOMAIN stack[t] = 1 .. Len(stack[t])
    BY EmptySeq, LenProperties
<1> DEFINE n == Len(stack[t]) - 1
           a == Append(SubSeq(stack[t], 1, n), c)
<1>2. n \in Nat /\ n <= Len(stack[t]) /\ n + 1 = Len(stack[t])
    BY <1>1
<1>3. a \in Seq(Call) /\ Len(a) = n + 1 /\ a[n + 1] = c /\ \A k \in 1 .. n : a[k] = stack[t][k]
  <2> HIDE DEF n
  <2> QED
    BY <1>1, <1>2, OnTop
<1>4. stack' = [stack EXCEPT ![t] = a]
    BY DEF Replace, Below
<1>5. DOMAIN a = 1 .. Len(a)
    BY <1>3, LenProperties
<1> HIDE DEF a
<1> QED
    BY <1>1, <1>2, <1>3, <1>4, <1>5

LEMMA PopLemma ==
    ASSUME stack \in [Thread -> Seq(Call)], NEW t \in Thread, stack[t] # <<>>,
           stack' = [stack EXCEPT ![t] = Below(t)]
    PROVE  /\ stack' \in [Thread -> Seq(Call)]
           /\ Len(stack[t]) \in Nat \ {0}
           /\ DOMAIN stack'[t] = 1 .. Len(stack[t]) - 1
           /\ DOMAIN stack[t] = 1 .. Len(stack[t])
           /\ \A k \in 1 .. Len(stack[t]) - 1 : stack'[t][k] = stack[t][k]
           /\ \A u \in Thread \ {t} : stack'[u] = stack[u]
<1>1. /\ stack[t] \in Seq(Call) /\ Len(stack[t]) \in Nat \ {0}
      /\ DOMAIN stack[t] = 1 .. Len(stack[t])
    BY EmptySeq, LenProperties
<1> DEFINE n == Len(stack[t]) - 1
           a == SubSeq(stack[t], 1, n)
<1>2. n \in Nat /\ n <= Len(stack[t])
    BY <1>1
<1>3. a \in Seq(Call) /\ Len(a) = n /\ \A k \in 1 .. n : a[k] = stack[t][k]
  <2> HIDE DEF n
  <2> QED
    BY <1>1, <1>2, CutLemma
<1>4. stack' = [stack EXCEPT ![t] = a]
    BY DEF Below
<1>5. DOMAIN a = 1 .. Len(a)
    BY <1>3, LenProperties
<1> HIDE DEF a
<1> QED
    BY <1>1, <1>2, <1>3, <1>4, <1>5

LEMMA PushLemma ==
    ASSUME stack \in [Thread -> Seq(Call)], NEW t \in Thread, stack[t] # <<>>,
           NEW c \in Call, NEW d \in Call,
           Push(t, c, d)
    PROVE  /\ stack' \in [Thread -> Seq(Call)]
           /\ Len(stack[t]) \in Nat \ {0}
           /\ DOMAIN stack'[t] = 1 .. Len(stack[t]) + 1
           /\ DOMAIN stack[t] = 1 .. Len(stack[t])
           /\ stack'[t][Len(stack[t])] = c
           /\ stack'[t][Len(stack[t]) + 1] = d
           /\ \A k \in 1 .. Len(stack[t]) - 1 : stack'[t][k] = stack[t][k]
           /\ \A u \in Thread \ {t} : stack'[u] = stack[u]
<1>1. /\ stack[t] \in Seq(Call) /\ Len(stack[t]) \in Nat \ {0}
      /\ DOMAIN stack[t] = 1 .. Len(stack[t])
    BY EmptySeq, LenProperties
<1> DEFINE n == Len(stack[t]) - 1
           a == Append(SubSeq(stack[t], 1, n), c)
<1>2. n \in Nat /\ n <= Len(stack[t]) /\ n + 1 = Len(stack[t])
    BY <1>1
<1>3. a \in Seq(Call) /\ Len(a) = n + 1 /\ a[n + 1] = c /\ \A k \in 1 .. n : a[k] = stack[t][k]
  <2> HIDE DEF n
  <2> QED
    BY <1>1, <1>2, OnTop
<1>4. stack' = [stack EXCEPT ![t] = Append(a, d)]
    BY DEF Below, Push
<1> HIDE DEF a
<1> DEFINE b == Append(a, d)
<1> HIDE DEF n
<1>5. /\ b \in Seq(Call) /\ Len(b) = n + 2
      /\ b[n + 2] = d /\ \A k \in 1 .. n + 1 : b[k] = a[k]
    BY <1>2, <1>3, AppendProperties
<1>6. DOMAIN b = 1 .. n + 2
    BY <1>5, LenProperties
<1>7. stack' = [stack EXCEPT ![t] = b]
    BY <1>4
<1> HIDE DEF b
<1>8. stack' \in [Thread -> Seq(Call)] /\ stack'[t] = b
      /\ \A u \in Thread \ {t} : stack'[u] = stack[u]
    BY <1>5, <1>7
<1>9. \A k \in 1 .. n : b[k] = stack[t][k]
    BY <1>2, <1>3, <1>5
<1>10. b[n + 1] = c
    BY <1>2, <1>3, <1>5
<1>11. n = Len(stack[t]) - 1 /\ n + 2 = Len(stack[t]) + 1
    BY <1>1 DEF n
<1> QED
    BY <1>1, <1>2, <1>5, <1>6, <1>8, <1>9, <1>10, <1>11

LEMMA PropagateLemma ==
    ASSUME stack \in [Thread -> Seq(Call)], NEW t \in Thread,
           Len(stack[t]) > 1, NEW c \in Call,
           Unwind(t, c)
    PROVE  /\ stack' \in [Thread -> Seq(Call)]
           /\ Len(stack[t]) \in Nat \ {0, 1}
           /\ DOMAIN stack'[t] = 1 .. Len(stack[t]) - 1
           /\ DOMAIN stack[t] = 1 .. Len(stack[t])
           /\ stack'[t][Len(stack[t]) - 1] = c
           /\ \A k \in 1 .. Len(stack[t]) - 2 : stack'[t][k] = stack[t][k]
           /\ \A u \in Thread \ {t} : stack'[u] = stack[u]
<1>1. /\ stack[t] \in Seq(Call) /\ Len(stack[t]) \in Nat \ {0, 1}
      /\ DOMAIN stack[t] = 1 .. Len(stack[t])
  <2>1. stack[t] \in Seq(Call)
      OBVIOUS
  <2>2. Len(stack[t]) \in Nat /\ DOMAIN stack[t] = 1 .. Len(stack[t])
      BY <2>1, LenProperties
  <2>3. \A m \in Nat : m > 1 => m \in Nat \ {0, 1}
      OBVIOUS
  <2> QED
      BY <2>1, <2>2, <2>3
<1> DEFINE n == Len(stack[t]) - 2
           a == Append(SubSeq(stack[t], 1, n), c)
<1>2. n \in Nat /\ n <= Len(stack[t]) /\ n + 1 = Len(stack[t]) - 1
    BY <1>1
<1>3. a \in Seq(Call) /\ Len(a) = n + 1 /\ a[n + 1] = c /\ \A k \in 1 .. n : a[k] = stack[t][k]
  <2> HIDE DEF n
  <2> QED
    BY <1>1, <1>2, OnTop
<1>4. stack' = [stack EXCEPT ![t] = a]
    BY DEF Unwind
<1>5. DOMAIN a = 1 .. Len(a)
    BY <1>3, LenProperties
<1> HIDE DEF a
<1> QED
    BY <1>1, <1>2, <1>3, <1>4, <1>5

-----------------------------------------------------------------------------
(* What the calls of a thread and the lock that they hold satisfy. *)
Calls == Exclusive /\ Descending /\ Linked /\ CallsOK

(* No singleton of the start is set. *)
NoneSet ==
    \A s \in Service : Registered[s] = "singleton" => singletons'[s] = singletons[s]

LEMMA TopLemma ==
    ASSUME TypeOK, NEW t \in Thread, stack[t] # <<>>
    PROVE  /\ Len(stack[t]) \in Nat \ {0}
           /\ DOMAIN stack[t] = 1 .. Len(stack[t])
           /\ Len(stack[t]) \in DOMAIN stack[t]
           /\ \A k \in DOMAIN stack[t] : stack[t][k] \in Call
           /\ Top(t) \in Call
           /\ CallsOK => CallOK(Top(t))
<1>1. stack[t] \in Seq(Call)
    BY DEF TypeOK
<1>2. Len(stack[t]) \in Nat \ {0} /\ DOMAIN stack[t] = 1 .. Len(stack[t])
    BY <1>1, EmptySeq, LenProperties
<1>3. Len(stack[t]) \in DOMAIN stack[t]
    BY <1>2
<1>4. \A k \in DOMAIN stack[t] : stack[t][k] \in Call
    BY <1>1, <1>2, ElementOfSeq
<1> QED
    BY <1>2, <1>3, <1>4 DEF Top, CallsOK

(* The innermost call of t goes on. *)
LEMMA ReplaceStep ==
    ASSUME TypeOK, Calls, NEW t \in Thread, stack[t] # <<>>, NEW c \in Call,
           Replace(t, c), c.of = Top(t).of,
           c.at \in Making => ResolverFree(t),
           NoneSet,
           CallOK(c)'
    PROVE  Calls'
<1> DEFINE n == Len(stack[t])
<1>1. /\ n \in Nat \ {0} /\ DOMAIN stack'[t] = 1 .. n /\ DOMAIN stack[t] = 1 .. n
      /\ stack'[t][n] = c /\ Top(t) = stack[t][n]
      /\ \A k \in 1 .. n - 1 : stack'[t][k] = stack[t][k]
      /\ \A u \in Thread \ {t} : stack'[u] = stack[u]
    BY ReplaceLemma DEF TypeOK, Top
<1>2. \A u \in Thread : DOMAIN stack'[u] = DOMAIN stack[u]
    BY <1>1
<1>3. \A u \in Thread : \A k \in DOMAIN stack[u] :
        \/ stack'[u][k] = stack[u][k]
        \/ u = t /\ k = n /\ stack'[u][k] = c
  <2> SUFFICES ASSUME NEW k \in DOMAIN stack[t]
               PROVE  stack'[t][k] = stack[t][k] \/ k = n
      BY <1>1
  <2> HIDE DEF n
  <2>1. k \in 1 .. n - 1 \/ k = n
      BY <1>1
  <2> QED
      BY <1>1, <2>1
<1>4. Top(t) \in Call /\ \A u \in Thread : \A k \in DOMAIN stack[u] : stack[u][k] \in Call
    BY TopLemma, ElementOfSeq, LenProperties DEF TypeOK
<1>5. Exclusive'
  <2>1. \A u \in Thread : HoldsResolver(u)' => HoldsResolver(u) \/ (u = t /\ c.at \in Making)
      BY <1>2, <1>3 DEF HoldsResolver
  <2> QED
      BY <2>1 DEF Exclusive, Calls, ResolverFree
<1>6. Descending'
  <2>1. \A u \in Thread : \A k \in DOMAIN stack[u] : stack'[u][k].of = stack[u][k].of
      BY <1>1, <1>3
  <2> QED
      BY <1>2, <2>1 DEF Descending, Calls
<1>7. Linked'
  <2> SUFFICES ASSUME NEW u \in Thread, NEW j \in DOMAIN stack[u], NEW k \in DOMAIN stack[u],
                      k = j + 1
               PROVE  /\ stack'[u][j].at \in Making \union {"setup"}
                      /\ stack'[u][j].at \in Making =>
                            NeededFor(stack'[u][k].of, stack'[u][j].of)
      BY <1>2 DEF Linked
  <2>1. stack'[u][j] = stack[u][j]
    <3>1. CASE u = t
      <4> HIDE DEF n
      <4>1. j \in 1 .. n /\ j + 1 \in 1 .. n
          BY <1>1, <3>1
      <4> QED
          BY <1>1, <3>1, <4>1
    <3>2. CASE u # t
        BY <1>1, <3>2
    <3> QED
        BY <3>1, <3>2
  <2>2. stack'[u][k].of = stack[u][k].of
      BY <1>1, <1>3
  <2> QED
      BY <2>1, <2>2 DEF Linked, Calls
<1>8. CallsOK'
  <2> SUFFICES ASSUME NEW u \in Thread, NEW k \in DOMAIN stack[u]
               PROVE  CallOK(stack[u][k])'
      BY <1>2 DEF CallsOK
  <2>1. CASE stack'[u][k] = c
      BY <2>1 DEF CallOK
  <2>2. CASE stack'[u][k] = stack[u][k]
    <3>1. CallOK(stack[u][k]) /\ stack[u][k].of \in Service
        BY <1>4 DEF Calls, CallsOK, Call
    <3> QED
        BY <2>2, <3>1 DEF CallOK, NoneSet
  <2> QED
      BY <1>3, <2>1, <2>2
<1> QED
    BY <1>5, <1>6, <1>7, <1>8 DEF Calls

(* The innermost call of t returns, and may have made what it is for. *)
LEMMA PopStep ==
    ASSUME TypeOK, Calls, NEW t \in Thread, stack[t] # <<>>,
           stack' = [stack EXCEPT ![t] = Below(t)],
           \/ NoneSet
           \/ /\ Top(t).at \in Making
              /\ \A s \in Service \ {Top(t).of} : singletons'[s] = singletons[s]
    PROVE  Calls'
<1> DEFINE n == Len(stack[t])
<1>1. /\ n \in Nat \ {0} /\ DOMAIN stack'[t] = 1 .. n - 1 /\ DOMAIN stack[t] = 1 .. n
      /\ Top(t) = stack[t][n]
      /\ \A k \in 1 .. n - 1 : stack'[t][k] = stack[t][k]
      /\ \A u \in Thread \ {t} : stack'[u] = stack[u]
    BY PopLemma DEF TypeOK, Top
<1> HIDE DEF n
<1>2. \A u \in Thread : \A k \in DOMAIN stack'[u] :
        k \in DOMAIN stack[u] /\ stack'[u][k] = stack[u][k] /\ (u = t => k < n)
  <2> SUFFICES ASSUME NEW u \in Thread, NEW k \in DOMAIN stack'[u]
               PROVE  k \in DOMAIN stack[u] /\ stack'[u][k] = stack[u][k] /\ (u = t => k < n)
      OBVIOUS
  <2>1. CASE u = t
      BY <1>1, <2>1
  <2>2. CASE u # t
      BY <1>1, <2>2
  <2> QED
      BY <2>1, <2>2
<1>3. \A u \in Thread : \A k \in DOMAIN stack[u] : stack[u][k] \in Call
    BY ElementOfSeq, LenProperties DEF TypeOK
<1>4. Exclusive'
  <2>1. \A u \in Thread : HoldsResolver(u)' => HoldsResolver(u)
      BY <1>2 DEF HoldsResolver
  <2> QED
      BY <2>1 DEF Exclusive, Calls
<1>5. Descending'
    BY <1>2 DEF Descending, Calls
<1>6. Linked'
    BY <1>2 DEF Linked, Calls
<1>7. CallsOK'
  <2> SUFFICES ASSUME NEW u \in Thread, NEW k \in DOMAIN stack'[u]
               PROVE  CallOK(stack[u][k])'
      BY DEF CallsOK
  <2>1. CallOK(stack[u][k]) /\ stack[u][k] \in Call /\ stack'[u][k] = stack[u][k]
      BY <1>2, <1>3 DEF Calls, CallsOK
  <2>2. CASE NoneSet
      BY <2>1, <2>2 DEF NoneSet, CallOK, Call
  <2>3. CASE /\ Top(t).at \in Making
             /\ \A s \in Service \ {Top(t).of} : singletons'[s] = singletons[s]
    <3>1. n \in DOMAIN stack[t] /\ HoldsResolver(t)
        BY <1>1, <2>3 DEF HoldsResolver
    <3>2. stack[u][k].at \in Making => u = t
        BY <1>2, <3>1 DEF Exclusive, Calls, HoldsResolver
    <3>3. u = t => Rank[stack[t][n].of] < Rank[stack[t][k].of]
        BY <1>2, <3>1 DEF Descending, Calls
    <3>4. stack[u][k].at \in Making => stack[u][k].of # Top(t).of
      <4> SUFFICES ASSUME u = t
                   PROVE  stack[u][k].of # Top(t).of
          BY <3>2
      <4>1. Rank[stack[t][k].of] \in Int
          BY <2>1, RankType DEF Call
      <4> QED
          BY <1>1, <3>3, <4>1
    <3> QED
        BY <2>1, <2>3, <3>4 DEF CallOK, Call
  <2> QED
      BY <2>2, <2>3
<1> QED
    BY <1>4, <1>5, <1>6, <1>7 DEF Calls

(* The innermost call c of t, that makes something or sets it up, asks for *)
(* a service that comes before its own.                                    *)
LEMMA PushStep ==
    ASSUME TypeOK, Calls, NEW t \in Thread, stack[t] # <<>>,
           NEW c \in Call, c.of = Top(t).of, c.at = Top(t).at,
           c.at \in Making \union {"setup"}, CallOK(c),
           NEW d \in Call, d.at = "resolve", Rank[d.of] < Rank[c.of],
           c.at \in Making => NeededFor(d.of, c.of),
           Push(t, c, d),
           UNCHANGED singletons
    PROVE  Calls'
<1> DEFINE n == Len(stack[t])
<1>1. /\ n \in Nat \ {0} /\ DOMAIN stack'[t] = 1 .. n + 1 /\ DOMAIN stack[t] = 1 .. n
      /\ stack'[t][n] = c /\ stack'[t][n + 1] = d /\ Top(t) = stack[t][n]
      /\ \A k \in 1 .. n - 1 : stack'[t][k] = stack[t][k]
      /\ \A u \in Thread \ {t} : stack'[u] = stack[u]
  <2>1. stack \in [Thread -> Seq(Call)]
      BY DEF TypeOK
  <2>2. /\ Len(stack[t]) \in Nat \ {0}
        /\ DOMAIN stack'[t] = 1 .. Len(stack[t]) + 1
        /\ DOMAIN stack[t] = 1 .. Len(stack[t])
        /\ stack'[t][Len(stack[t])] = c
        /\ stack'[t][Len(stack[t]) + 1] = d
        /\ \A k \in 1 .. Len(stack[t]) - 1 : stack'[t][k] = stack[t][k]
        /\ \A u \in Thread \ {t} : stack'[u] = stack[u]
      BY <2>1, PushLemma
  <2> QED
      BY <2>2 DEF Top
<1> HIDE DEF n
<1>2. \A u \in Thread : \A k \in DOMAIN stack'[u] :
        \/ u = t /\ k = n + 1 /\ stack'[u][k] = d
        \/ u = t /\ k = n /\ stack'[u][k] = c
        \/ k \in DOMAIN stack[u] /\ stack'[u][k] = stack[u][k] /\ (u = t => k < n)
  <2> SUFFICES ASSUME NEW u \in Thread, NEW k \in DOMAIN stack'[u]
               PROVE  \/ u = t /\ k = n + 1 /\ stack'[u][k] = d
                      \/ u = t /\ k = n /\ stack'[u][k] = c
                      \/ k \in DOMAIN stack[u] /\ stack'[u][k] = stack[u][k] /\ (u = t => k < n)
      OBVIOUS
  <2>1. CASE u = t
    <3>1. k \in 1 .. n - 1 \/ k = n \/ k = n + 1
      <4>1. n \in Nat /\ k \in 1 .. n + 1
          BY <1>1, <2>1
      <4> QED
          BY <4>1
    <3>2. k \in 1 .. n - 1 => k \in 1 .. n /\ k < n
        BY <1>1
    <3> QED
        BY <1>1, <2>1, <3>1, <3>2
  <2>2. CASE u # t
      BY <1>1, <2>2
  <2> QED
      BY <2>1, <2>2
<1>3. n \in DOMAIN stack[t]
    BY <1>1
<1>4. \A u \in Thread : \A k \in DOMAIN stack'[u] :
        u # t \/ k # n + 1 =>
            /\ k \in DOMAIN stack[u]
            /\ stack'[u][k].of = stack[u][k].of
            /\ stack'[u][k].at = stack[u][k].at
            /\ u = t => k <= n
    BY <1>1, <1>2, <1>3
<1>5. \A k \in DOMAIN stack[t] : k < n => Rank[c.of] < Rank[stack[t][k].of]
    BY <1>1, <1>3 DEF Descending, Calls
<1>6. Exclusive'
  <2>1. \A u \in Thread : HoldsResolver(u)' => HoldsResolver(u)
      BY <1>1, <1>4 DEF HoldsResolver, Making
  <2> QED
      BY <2>1 DEF Exclusive, Calls
<1>7. Descending'
  <2> SUFFICES ASSUME NEW u \in Thread, NEW j \in DOMAIN stack'[u], NEW k \in DOMAIN stack'[u],
                      j < k
               PROVE  Rank[stack'[u][k].of] < Rank[stack'[u][j].of]
      BY DEF Descending
  <2>1. CASE u = t /\ k = n + 1
    <3>1. j # n + 1 /\ j \in 1 .. n + 1
        BY <1>1, <2>1
    <3>2. j = n \/ (j \in DOMAIN stack[t] /\ j < n /\ stack'[t][j] = stack[t][j])
        BY <1>2, <2>1, <3>1
    <3>3. CASE j = n
        BY <1>1, <2>1, <3>3
    <3>4. CASE j \in DOMAIN stack[t] /\ j < n /\ stack'[t][j] = stack[t][j]
      <4>1. stack[t][j].of \in Service /\ c.of \in Service /\ d.of \in Service
          BY <3>4, TopLemma DEF Call
      <4>2. Rank[stack[t][j].of] \in Int /\ Rank[c.of] \in Int /\ Rank[d.of] \in Int
          BY <4>1, RankType
      <4>3. Rank[c.of] < Rank[stack[t][j].of]
          BY <1>5, <3>4
      <4>4. stack'[u][k].of = d.of /\ stack'[u][j].of = stack[t][j].of
          BY <1>1, <2>1, <3>4
      <4>5. Rank[d.of] < Rank[stack[t][j].of]
          BY <4>2, <4>3
      <4> QED
          BY <4>4, <4>5
    <3> QED
        BY <3>2, <3>3, <3>4
  <2>2. CASE u # t \/ k # n + 1
    <3>1. u # t \/ j # n + 1
      <4>1. u = t => j \in 1 .. n + 1 /\ k \in 1 .. n + 1
          BY <1>1
      <4> QED
          BY <1>1, <2>2, <4>1
    <3> QED
        BY <1>4, <2>2, <3>1 DEF Descending, Calls
  <2> QED
      BY <2>1, <2>2
<1>8. Linked'
  <2> SUFFICES ASSUME NEW u \in Thread, NEW j \in DOMAIN stack'[u], NEW k \in DOMAIN stack'[u],
                      k = j + 1
               PROVE  /\ stack'[u][j].at \in Making \union {"setup"}
                      /\ stack'[u][j].at \in Making =>
                            NeededFor(stack'[u][k].of, stack'[u][j].of)
      BY DEF Linked
  <2>1. CASE u = t /\ k = n + 1
    <3>1. j = n
      <4>1. j \in 1 .. n + 1
          BY <1>1, <2>1
      <4> QED
          BY <1>1, <2>1, <4>1
    <3> QED
        BY <1>1, <2>1, <3>1
  <2>2. CASE u # t \/ k # n + 1
    <3>1. u # t \/ j # n + 1
      <4>1. u = t => j \in 1 .. n + 1 /\ k \in 1 .. n + 1
          BY <1>1
      <4> QED
          BY <1>1, <2>2, <4>1
    <3> QED
        BY <1>4, <2>2, <3>1 DEF Linked, Calls
  <2> QED
      BY <2>1, <2>2
<1>9. CallsOK'
  <2> SUFFICES ASSUME NEW u \in Thread, NEW k \in DOMAIN stack'[u]
               PROVE  CallOK(stack[u][k])'
      BY DEF CallsOK
  <2>1. CASE stack'[u][k] = d
      BY <2>1 DEF CallOK, Making
  <2>2. CASE stack'[u][k] = c
      BY <2>2 DEF CallOK
  <2>3. CASE k \in DOMAIN stack[u] /\ stack'[u][k] = stack[u][k]
      BY <2>3 DEF CallOK, Calls, CallsOK
  <2> QED
      BY <1>2, <2>1, <2>2, <2>3
<1> QED
    BY <1>6, <1>7, <1>8, <1>9 DEF Calls

(* The innermost call of t is gone and the one that waited for it, c now,  *)
(* fails in its turn.                                                      *)
LEMMA UnwindStep ==
    ASSUME TypeOK, Calls, NEW t \in Thread, Len(stack[t]) > 1,
           NEW c \in Call, c.of = stack[t][Len(stack[t]) - 1].of,
           c.at \notin Making, CallOK(c), Unwind(t, c), UNCHANGED singletons
    PROVE  Calls'
<1> DEFINE n == Len(stack[t])
<1>1. /\ n \in Nat \ {0, 1} /\ DOMAIN stack'[t] = 1 .. n - 1 /\ DOMAIN stack[t] = 1 .. n
      /\ stack'[t][n - 1] = c /\ c.of = stack[t][n - 1].of
      /\ \A k \in 1 .. n - 2 : stack'[t][k] = stack[t][k]
      /\ \A u \in Thread \ {t} : stack'[u] = stack[u]
  <2>1. stack \in [Thread -> Seq(Call)]
      BY DEF TypeOK
  <2> QED
      BY <2>1, PropagateLemma
<1> HIDE DEF n
<1>2. \A u \in Thread : \A k \in DOMAIN stack'[u] :
        /\ k \in DOMAIN stack[u]
        /\ u = t => k \in 1 .. n - 1
        /\ stack'[u][k].of = stack[u][k].of
        /\ \/ u = t /\ k = n - 1 /\ stack'[u][k] = c
           \/ stack'[u][k] = stack[u][k]
  <2> SUFFICES ASSUME NEW u \in Thread, NEW k \in DOMAIN stack'[u]
               PROVE  /\ k \in DOMAIN stack[u]
                      /\ u = t => k \in 1 .. n - 1
                      /\ stack'[u][k].of = stack[u][k].of
                      /\ \/ u = t /\ k = n - 1 /\ stack'[u][k] = c
                         \/ stack'[u][k] = stack[u][k]
      OBVIOUS
  <2>1. CASE u = t
    <3>1. n \in Nat \ {0, 1} /\ k \in 1 .. n - 1
        BY <1>1, <2>1
    <3>2. k \in 1 .. n /\ (k = n - 1 \/ k \in 1 .. n - 2)
        BY <3>1
    <3> QED
        BY <1>1, <2>1, <3>1, <3>2
  <2>2. CASE u # t
      BY <1>1, <2>2
  <2> QED
      BY <2>1, <2>2
<1>3. Exclusive'
  <2>1. \A u \in Thread : HoldsResolver(u)' => HoldsResolver(u)
      BY <1>2 DEF HoldsResolver
  <2> QED
      BY <2>1 DEF Exclusive, Calls
<1>4. Descending'
    BY <1>2 DEF Descending, Calls
<1>5. Linked'
  <2> SUFFICES ASSUME NEW u \in Thread, NEW j \in DOMAIN stack'[u], NEW k \in DOMAIN stack'[u],
                      k = j + 1
               PROVE  /\ stack'[u][j].at \in Making \union {"setup"}
                      /\ stack'[u][j].at \in Making =>
                            NeededFor(stack'[u][k].of, stack'[u][j].of)
      BY DEF Linked
  <2>1. stack'[u][j] = stack[u][j]
    <3>1. u = t => n \in Nat /\ j \in 1 .. n - 1 /\ j + 1 \in 1 .. n - 1
        BY <1>1, <1>2
    <3>2. u = t => j # n - 1
        BY <3>1
    <3> QED
        BY <1>2, <3>2
  <2> QED
      BY <1>2, <2>1 DEF Linked, Calls
<1>6. CallsOK'
  <2> SUFFICES ASSUME NEW u \in Thread, NEW k \in DOMAIN stack'[u]
               PROVE  CallOK(stack[u][k])'
      BY DEF CallsOK
  <2>1. CASE stack'[u][k] = c
      BY <2>1 DEF CallOK
  <2>2. CASE k \in DOMAIN stack[u] /\ stack'[u][k] = stack[u][k]
      BY <2>2 DEF CallOK, Calls, CallsOK
  <2> QED
      BY <1>2, <2>1, <2>2
<1> QED
    BY <1>3, <1>4, <1>5, <1>6 DEF Calls

-----------------------------------------------------------------------------
(* Only steps that give or refuse something can disturb the last two parts *)
(* of the invariant.                                                       *)
LEMMA Rest ==
    ASSUME IInv, TypeOK', Kept', Calls', NoneSet, UNCHANGED <<given, refused>>
    PROVE  IInv'
<1>1. GivenIsKept'
    BY DEF GivenIsKept, IInv, NoneSet
<1>2. SoundIsServed'
    BY DEF SoundIsServed, IInv
<1> QED
    BY <1>1, <1>2 DEF IInv, Calls

LEMMA InitLemma == Init => IInv
<1> SUFFICES ASSUME Init
             PROVE  IInv
    OBVIOUS
<1>1. \A t \in Thread : stack[t] = <<>> /\ DOMAIN stack[t] = {}
    BY DEF Init
<1>2. <<>> \in Seq(Call)
    BY EmptySeq
<1>3. TypeOK
    BY <1>2 DEF Init, TypeOK
<1>4. Kept /\ GivenIsKept /\ SoundIsServed
    BY DEF Init, Kept, GivenIsKept, SoundIsServed
<1>5. Exclusive /\ Descending /\ Linked /\ CallsOK
    BY <1>1 DEF Exclusive, HoldsResolver, Descending, Linked, CallsOK
<1> QED
    BY <1>3, <1>4, <1>5 DEF IInv

(* A call moves to another place, without making anything. *)
LEMMA MoveLemma ==
    ASSUME IInv, NEW t \in Thread, stack[t] # <<>>, NEW p \in Place \ (Making \union {"setup"}),
           Move(t, p), NoneSet,
           p = "registering" => Registered[Top(t).of] = "none",
           p # "resolve" => ~Sound(Top(t).of)
    PROVE  stack' \in [Thread -> Seq(Call)] /\ Calls'
<1>1. TypeOK /\ Calls
    BY DEF IInv, Calls
<1>2. Top(t) \in Call
    BY <1>1, TopLemma
<1>3. [Top(t) EXCEPT !.at = p] \in Call
    BY <1>2 DEF Call
<1>4. PICK c \in Call : c = [Top(t) EXCEPT !.at = p]
    BY <1>3
<1>5. c.at = p /\ c.of = Top(t).of /\ Replace(t, c)
    BY <1>2, <1>4 DEF Move, Call
<1>6. CallOK(c)'
    BY <1>5 DEF CallOK, Making
<1>7. stack' \in [Thread -> Seq(Call)]
  <2>1. stack \in [Thread -> Seq(Call)]
      BY <1>1 DEF TypeOK
  <2> QED
      BY <1>5, <2>1, ReplaceLemma
<1>8. p \notin Making
    OBVIOUS
<1> QED
    BY <1>1, <1>5, <1>6, <1>7, <1>8, ReplaceStep

LEMMA GetLemma ==
    ASSUME IInv, NEW t \in Thread, NEW s \in Service, Get(t, s)
    PROVE  IInv'
<1>0. PICK c : c = NewCall(s, "get")
    OBVIOUS
<1>1. c \in Call /\ c.of = s /\ c.at = "resolve"
  <2>1. <<>> \in Seq(Service)
      BY EmptySeq
  <2> QED
      BY <1>0, <2>1 DEF NewCall, Call, Place, Scope
<1>2. /\ stack \in [Thread -> Seq(Call)] /\ stack' = [stack EXCEPT ![t] = <<c>>]
      /\ stack[t] = <<>> /\ UNCHANGED <<registry, history>>
    BY <1>0 DEF Get, IInv, TypeOK
<1>3. /\ stack' \in [Thread -> Seq(Call)] /\ DOMAIN stack'[t] = {1} /\ stack'[t][1] = c
      /\ \A u \in Thread \ {t} : stack'[u] = stack[u]
  <2>1. <<c>> \in Seq(Call) /\ Len(<<c>>) = 1 /\ <<c>>[1] = c
      BY <1>1
  <2>2. DOMAIN <<c>> = {1}
      OBVIOUS
  <2> QED
      BY <1>2, <2>1, <2>2
<1>4. TypeOK'
  <2>1. gets \in [Thread -> 0 .. MaxGets] /\ gets[t] < MaxGets /\ gets' = [gets EXCEPT ![t] = @ + 1]
      BY DEF Get, IInv, TypeOK
  <2>2. gets' \in [Thread -> 0 .. MaxGets]
      BY <2>1
  <2> QED
      BY <1>2, <1>3, <2>2 DEF IInv, TypeOK, registry, history
<1>5. Calls'
  <2>1. Exclusive'
    <3>1. \A u \in Thread : HoldsResolver(u)' => HoldsResolver(u)
        BY <1>1, <1>3 DEF HoldsResolver, Making
    <3> QED
        BY <3>1 DEF Exclusive, IInv
  <2>2. Descending'
    <3>1. \A j, k \in DOMAIN stack'[t] : ~(j < k)
        BY <1>3
    <3> QED
        BY <1>3, <3>1 DEF Descending, IInv
  <2>3. Linked'
    <3>1. \A j, k \in DOMAIN stack'[t] : k # j + 1
        BY <1>3
    <3> QED
        BY <1>3, <3>1 DEF Linked, IInv
  <2>4. CallsOK'
    <3> SUFFICES ASSUME NEW u \in Thread, NEW k \in DOMAIN stack'[u]
                 PROVE  CallOK(stack[u][k])'
        BY DEF CallsOK
    <3>1. CASE stack'[u][k] = c
        BY <1>1, <3>1 DEF CallOK, Making
    <3>2. CASE k \in DOMAIN stack[u] /\ stack'[u][k] = stack[u][k]
        BY <1>2, <3>2 DEF CallOK, IInv, CallsOK, registry
    <3> QED
        BY <1>3, <3>1, <3>2
  <2> QED
      BY <2>1, <2>2, <2>3, <2>4 DEF Calls
<1>6. Kept' /\ NoneSet /\ UNCHANGED <<given, refused>>
    BY <1>2 DEF Kept, IInv, NoneSet, registry, history
<1> QED
    BY <1>4, <1>5, <1>6, Rest

(* The innermost call of a thread that is in one. *)
LEMMA AtLemma ==
    ASSUME IInv, NEW t \in Thread, NEW P, At(t, P)
    PROVE  /\ stack[t] # <<>> /\ Top(t) \in Call /\ Top(t).of \in Service
           /\ Top(t).at \in P /\ CallOK(Top(t))
<1>1. TypeOK /\ CallsOK /\ stack[t] # <<>>
    BY DEF IInv, At
<1>2. Top(t) \in Call /\ CallOK(Top(t))
    BY <1>1, TopLemma
<1> QED
    BY <1>1, <1>2 DEF At, Call

LEMMA SeeCachedLemma ==
    ASSUME IInv, NEW t \in Thread, SeeCached(t)
    PROVE  IInv'
<1> DEFINE s == Top(t).of
<1>1. /\ stack[t] # <<>> /\ s \in Service /\ TypeOK /\ Calls
      /\ stack' = [stack EXCEPT ![t] = Below(t)]
      /\ given' = [given EXCEPT ![s] = @ \union {singletons[s]}]
      /\ singletons[s] # 0
      /\ UNCHANGED <<registration, singletons, lazyFactories, onDemand, gets, made, refused>>
  <2>1. At(t, {"resolve", "again"})
      BY DEF SeeCached
  <2> QED
      BY <2>1, AtLemma DEF SeeCached, Return, registry, IInv, Calls
<1> HIDE DEF s
<1>2. stack' \in [Thread -> Seq(Call)]
    BY <1>1, PopLemma DEF TypeOK
<1>3. NoneSet
    BY <1>1 DEF NoneSet
<1>4. Calls'
    BY <1>1, <1>3, PopStep
<1>5. TypeOK'
    BY <1>1, <1>2 DEF TypeOK
<1>6. GivenIsKept'
    BY <1>1 DEF GivenIsKept, IInv, TypeOK
<1>7. Kept' /\ SoundIsServed'
    BY <1>1 DEF Kept, SoundIsServed, IInv
<1> QED
    BY <1>4, <1>5, <1>6, <1>7 DEF IInv, Calls

LEMMA StartMakingLemma ==
    ASSUME IInv, NEW t \in Thread, StartMaking(t)
    PROVE  IInv'
<1>0. PICK s : s = Top(t).of
    OBVIOUS
<1>1. /\ stack[t] # <<>> /\ s \in Service /\ Top(t) \in Call /\ CallOK(Top(t))
      /\ Top(t).at \in {"resolve", "again"}
  <2>1. At(t, {"resolve", "again"})
      BY DEF StartMaking
  <2> QED
      BY <1>0, <2>1, AtLemma
<1>2. PICK c : c = [Top(t) EXCEPT
                !.at = IF @ = "again" THEN "makingAgain" ELSE "making",
                !.scope = registration[s],
                !.left = Needs[s]]
    OBVIOUS
<1>3. /\ TypeOK /\ Calls /\ ResolverFree(t) /\ Replace(t, c)
      /\ registration[s] = "singleton" => singletons[s] = 0
      /\ registration' = [registration EXCEPT ![s] =
            IF @ # "none" \/ s \notin Injectable THEN @
            ELSE IF s \in Decorated THEN "singleton" ELSE "transient"]
      /\ UNCHANGED <<singletons, lazyFactories, onDemand, gets, made, given, refused>>
    BY <1>0, <1>2 DEF StartMaking, IInv, Calls, history
<1>4. c.at = (IF Top(t).at = "again" THEN "makingAgain" ELSE "making") /\ c.of = s
      /\ c.scope = registration[s] /\ c.left = Needs[s]
    BY <1>0, <1>1, <1>2 DEF Call
<1>5. c \in Call
  <2>1. registration[s] \in Scope /\ Needs[s] \in Seq(Service)
      BY <1>1, <1>3 DEF TypeOK
  <2> QED
      BY <1>1, <1>2, <2>1 DEF Call, Place
<1>6. CallOK(c)'
  <2>1. Registered[s] = "singleton" => registration[s] = "singleton"
      BY <1>1 DEF Kept, IInv
  <2>2. \A k \in DOMAIN Needs[s] : Rank[Needs[s][k]] < Rank[s] /\ NeededFor(Needs[s][k], s)
      BY <1>1, RankExists DEF Ranks, NeededFor
  <2>3. c.at \in Making /\ c.at \notin {"registering", "setup"}
        /\ (c.at \notin {"resolve", "making"} => Top(t).at = "again")
      BY <1>1, <1>4 DEF Making
  <2>4. Top(t).at = "again" => ~Sound(s)
      BY <1>0, <1>1 DEF CallOK
  <2> QED
      BY <1>3, <1>4, <2>1, <2>2, <2>3, <2>4 DEF CallOK
<1>7. stack' \in [Thread -> Seq(Call)]
  <2>1. stack \in [Thread -> Seq(Call)]
      BY <1>3 DEF TypeOK
  <2> QED
      BY <1>1, <1>3, <1>5, <2>1, ReplaceLemma
<1>8. NoneSet
    BY <1>3 DEF NoneSet
<1>9. Calls'
    BY <1>0, <1>1, <1>3, <1>4, <1>5, <1>6, <1>8, ReplaceStep
<1>10. TypeOK'
    BY <1>1, <1>3, <1>7 DEF TypeOK, Scope
<1>11. Kept'
    BY <1>1, <1>3 DEF Kept, IInv, TypeOK
<1> QED
    BY <1>3, <1>8, <1>9, <1>10, <1>11, Rest

LEMMA AskLemma ==
    ASSUME IInv, NEW t \in Thread, Ask(t)
    PROVE  IInv'
<1>0. PICK s, via :
        /\ s = Head(Top(t).left)
        /\ via = IF Top(t).at = "setup" \/ Top(t).of \in ByFactory THEN "get" ELSE "resolver"
    OBVIOUS
<1>1. PICK c, d : c = [Top(t) EXCEPT !.left = Tail(@)] /\ d = NewCall(s, via)
    OBVIOUS
<1>2. /\ stack[t] # <<>> /\ Top(t) \in Call /\ CallOK(Top(t))
      /\ Top(t).at \in Making \union {"setup"}
  <2>1. At(t, Making \union {"setup"})
      BY DEF Ask
  <2> QED
      BY <2>1, AtLemma
<1>3. /\ TypeOK /\ Calls /\ Push(t, c, d) /\ Top(t).left # <<>>
      /\ UNCHANGED <<registration, singletons, lazyFactories, onDemand, gets, made, given, refused>>
    BY <1>0, <1>1 DEF Ask, IInv, Calls, registry, history
<1>4. PICK left \in Seq(Service) : left = Top(t).left
    BY <1>2 DEF Call
<1>5. /\ left # <<>> /\ s = left[1] /\ 1 \in DOMAIN left /\ s \in Service
      /\ Tail(left) \in Seq(Service)
      /\ \A k \in DOMAIN Tail(left) : k + 1 \in DOMAIN left /\ Tail(left)[k] = left[k + 1]
    BY <1>0, <1>3, <1>4
<1>6. /\ c \in Call /\ c.of = Top(t).of /\ c.at = Top(t).at /\ c.scope = Top(t).scope
      /\ c.left = Tail(left)
    BY <1>1, <1>2, <1>4, <1>5 DEF Call
<1>7. d \in Call /\ d.of = s /\ d.at = "resolve"
  <2>1. <<>> \in Seq(Service)
      BY EmptySeq
  <2> QED
      BY <1>0, <1>1, <1>5, <2>1 DEF NewCall, Call, Place, Scope
<1>8. /\ \A k \in DOMAIN left : Rank[left[k]] < Rank[c.of]
      /\ c.at \in Making => \A k \in DOMAIN left : NeededFor(left[k], c.of)
    BY <1>2, <1>4, <1>6 DEF CallOK
<1>9. CallOK(c)
    BY <1>2, <1>5, <1>6, <1>8 DEF CallOK
<1>10. Calls'
    BY <1>2, <1>3, <1>5, <1>6, <1>7, <1>8, <1>9, PushStep
<1>11. TypeOK'
  <2>1. stack \in [Thread -> Seq(Call)]
      BY <1>3 DEF TypeOK
  <2>2. stack' \in [Thread -> Seq(Call)]
      BY <1>2, <1>3, <1>6, <1>7, <2>1, PushLemma
  <2> QED
      BY <1>3, <2>2 DEF TypeOK
<1>12. Kept' /\ NoneSet
    BY <1>3 DEF Kept, IInv, NoneSet
<1> QED
    BY <1>3, <1>10, <1>11, <1>12, Rest

LEMMA MakeLemma ==
    ASSUME IInv, NEW t \in Thread, Make(t)
    PROVE  IInv'
<1>0. PICK s, n : s = Top(t).of /\ n = made[s] + 1
    OBVIOUS
<1>1. /\ stack[t] # <<>> /\ s \in Service /\ Top(t) \in Call /\ CallOK(Top(t))
      /\ Top(t).at \in Making
  <2>1. At(t, Making)
      BY DEF Make
  <2> QED
      BY <1>0, <2>1, AtLemma
<1>2. TypeOK /\ Calls
    BY DEF IInv, Calls
<1>3. /\ made' = [made EXCEPT ![s] = n] /\ made'[s] = n /\ n \in Nat \ {0}
      /\ UNCHANGED <<registration, lazyFactories, onDemand, gets, refused>>
    BY <1>0, <1>1, <1>2 DEF Make, TypeOK
<1>4. /\ singletons' = IF Top(t).scope = "singleton"
                       THEN [singletons EXCEPT ![s] = n] ELSE singletons
      /\ stack' = [stack EXCEPT ![t] = Below(t)]
      /\ given' = [given EXCEPT ![s] = @ \union {n}]
    BY <1>0, <1>3 DEF Make, Return
<1>5. stack' \in [Thread -> Seq(Call)]
  <2>1. stack \in [Thread -> Seq(Call)]
      BY <1>2 DEF TypeOK
  <2> QED
      BY <1>1, <1>4, <2>1, PopLemma
<1>6. Calls'
  <2>1. \A u \in Service \ {s} : singletons'[u] = singletons[u]
      BY <1>2, <1>4 DEF TypeOK
  <2> QED
      BY <1>0, <1>1, <1>2, <1>4, <2>1, PopStep
<1>7. TypeOK'
    BY <1>1, <1>2, <1>3, <1>4, <1>5 DEF TypeOK
<1>8. GivenIsKept'
  <2> SUFFICES ASSUME NEW u \in Service, Registered[u] = "singleton"
               PROVE  given'[u] \subseteq {singletons'[u]} \ {0}
      BY DEF GivenIsKept
  <2>1. given[u] \subseteq {singletons[u]} \ {0}
      BY DEF GivenIsKept, IInv
  <2>2. CASE u = s
    <3>1. singletons[s] = 0 /\ Top(t).scope = "singleton"
        BY <1>0, <1>1, <2>2 DEF CallOK
    <3>2. given'[s] = given[s] \union {n} /\ singletons'[s] = n
        BY <1>1, <1>2, <1>4, <3>1 DEF TypeOK
    <3> QED
        BY <1>3, <2>1, <2>2, <3>1, <3>2
  <2>3. CASE u # s
    <3>1. given'[u] = given[u] /\ singletons'[u] = singletons[u]
        BY <1>2, <1>4, <2>3 DEF TypeOK
    <3> QED
        BY <2>1, <3>1
  <2> QED
      BY <2>2, <2>3
<1>9. Kept' /\ SoundIsServed'
    BY <1>3 DEF Kept, SoundIsServed, IInv
<1> QED
    BY <1>6, <1>7, <1>8, <1>9 DEF IInv, Calls

(* A step that moves a call and registers at most one service. *)
LEMMA OnlyMoves ==
    ASSUME IInv, NEW t \in Thread, stack[t] # <<>>, NEW p \in Place \ (Making \union {"setup"}),
           Move(t, p), p = "registering" => Registered[Top(t).of] = "none",
           p # "resolve" => ~Sound(Top(t).of),
           UNCHANGED <<registry, gets, history>>
    PROVE  IInv'
<1>1. NoneSet /\ Kept'
    BY DEF NoneSet, Kept, IInv, registry
<1>2. stack' \in [Thread -> Seq(Call)] /\ Calls'
    BY <1>1, MoveLemma
<1>3. TypeOK'
    BY <1>2 DEF IInv, TypeOK, registry, history
<1> QED
    BY <1>1, <1>2, <1>3, Rest DEF history

LEMMA MissLemma ==
    ASSUME IInv, NEW t \in Thread, Miss(t)
    PROVE  IInv'
<1>1. stack[t] # <<>> /\ Top(t).of \in Service
  <2>1. At(t, {"resolve", "again"})
      BY DEF Miss
  <2> QED
      BY <2>1, AtLemma
<1>2. PICK p \in {"missed", "raised"} : Move(t, p)
    BY DEF Miss, Failed
<1>3. ~Sound(Top(t).of)
  <2>1. registration[Top(t).of] = "none" /\ Top(t).of \notin Concrete
      BY DEF Miss
  <2>2. Registered[Top(t).of] = "none"
      BY <1>1, <2>1 DEF Kept, IInv
  <2> QED
      BY <2>1, <2>2 DEF Sound
<1>4. p \in Place \ (Making \union {"setup"}) /\ p # "registering"
    BY DEF Place, Making
<1> QED
    BY <1>1, <1>2, <1>3, <1>4, OnlyMoves DEF Miss

LEMMA MakeRaisesLemma ==
    ASSUME IInv, NEW t \in Thread, MakeRaises(t)
    PROVE  IInv'
<1>1. stack[t] # <<>> /\ Top(t).of \in Service
  <2>1. At(t, Making)
      BY DEF MakeRaises
  <2> QED
      BY <2>1, AtLemma
<1>2. PICK p \in {"missed", "raised"} : Move(t, p)
    BY DEF MakeRaises, Failed
<1>3. ~Sound(Top(t).of)
    BY DEF MakeRaises, Sound
<1>4. p \in Place \ (Making \union {"setup"}) /\ p # "registering"
    BY DEF Place, Making
<1> QED
    BY <1>1, <1>2, <1>3, <1>4, OnlyMoves DEF MakeRaises

LEMMA RegisteredNowLemma ==
    ASSUME IInv, NEW t \in Thread, Registered_Now(t)
    PROVE  IInv'
<1>1. stack[t] # <<>> /\ Top(t).of \in Service /\ ~Sound(Top(t).of)
  <2>1. At(t, {"missed"})
      BY DEF Registered_Now
  <2>2. CallOK(Top(t)) /\ Top(t).at = "missed"
      BY <2>1, AtLemma
  <2> QED
      BY <2>1, <2>2, AtLemma DEF CallOK, Making
<1>2. PICK p \in {"registering", "raised"} :
        Move(t, p) /\ (p = "registering" => registration[Top(t).of] = "none")
    BY DEF Registered_Now
<1>3. p = "registering" => Registered[Top(t).of] = "none"
    BY <1>1, <1>2 DEF Kept, IInv
<1>4. p \in Place \ (Making \union {"setup"})
    BY DEF Place, Making
<1> QED
    BY <1>1, <1>2, <1>3, <1>4, OnlyMoves DEF Registered_Now

LEMMA NothingToRegisterLemma ==
    ASSUME IInv, NEW t \in Thread, NothingToRegister(t)
    PROVE  IInv'
<1>1. stack[t] # <<>> /\ ~Sound(Top(t).of)
  <2>1. At(t, {"registering"})
      BY DEF NothingToRegister
  <2>2. CallOK(Top(t)) /\ Top(t).at = "registering"
      BY <2>1, AtLemma
  <2> QED
      BY <2>1, <2>2, AtLemma DEF CallOK, Making
<1>2. Move(t, "retry") /\ "retry" \in Place \ (Making \union {"setup"})
    BY DEF NothingToRegister, Place, Making
<1> QED
    BY <1>1, <1>2, OnlyMoves DEF NothingToRegister

LEMMA StillMissingLemma ==
    ASSUME IInv, NEW t \in Thread, StillMissing(t)
    PROVE  IInv'
<1>1. stack[t] # <<>> /\ ~Sound(Top(t).of)
  <2>1. At(t, {"retry"})
      BY DEF StillMissing
  <2>2. CallOK(Top(t)) /\ Top(t).at = "retry"
      BY <2>1, AtLemma
  <2> QED
      BY <2>1, <2>2, AtLemma DEF CallOK, Making
<1>2. PICK p \in {"again", "raised"} : Move(t, p)
    BY DEF StillMissing
<1>3. p \in Place \ (Making \union {"setup"}) /\ p # "registering"
    BY DEF Place, Making
<1> QED
    BY <1>1, <1>2, <1>3, OnlyMoves DEF StillMissing

(* Whoever is about to register a service found it unregistered. *)
LEMMA RegisteringLemma ==
    ASSUME IInv, NEW t \in Thread, At(t, {"registering"})
    PROVE  /\ stack[t] # <<>> /\ Top(t) \in Call /\ Top(t).of \in Service
           /\ ~Sound(Top(t).of) /\ Registered[Top(t).of] = "none"
<1>1. /\ CallOK(Top(t)) /\ Top(t).at = "registering"
      /\ stack[t] # <<>> /\ Top(t) \in Call /\ Top(t).of \in Service
    BY AtLemma
<1> QED
    BY <1>1 DEF CallOK, Making

LEMMA RegisterLazyLemma ==
    ASSUME IInv, NEW t \in Thread, RegisterLazy(t)
    PROVE  IInv'
<1>0. PICK s : s = Top(t).of
    OBVIOUS
<1>1. stack[t] # <<>> /\ s \in Service /\ ~Sound(s) /\ Registered[s] = "none"
    BY <1>0, RegisteringLemma DEF RegisterLazy
<1>2. /\ lazyFactories' = lazyFactories \ {s}
      /\ registration' = [registration EXCEPT ![s] = "transient"]
      /\ Move(t, "retry")
      /\ UNCHANGED <<singletons, onDemand, gets, made, given, refused>>
    BY <1>0 DEF RegisterLazy, history
<1>3. "retry" \in Place \ (Making \union {"setup"})
    BY DEF Place, Making
<1>4. NoneSet
    BY <1>2 DEF NoneSet
<1>5. stack' \in [Thread -> Seq(Call)] /\ Calls'
    BY <1>0, <1>1, <1>2, <1>3, <1>4, MoveLemma
<1>6. TypeOK'
    BY <1>1, <1>2, <1>5 DEF IInv, TypeOK, Scope
<1>7. Kept'
    BY <1>1, <1>2 DEF Kept, IInv, TypeOK
<1> QED
    BY <1>2, <1>4, <1>5, <1>6, <1>7, Rest

LEMMA StartSetupLemma ==
    ASSUME IInv, NEW t \in Thread, StartSetup(t)
    PROVE  IInv'
<1>0. PICK s : s = Top(t).of
    OBVIOUS
<1>1. /\ stack[t] # <<>> /\ s \in Service /\ Top(t) \in Call
      /\ ~Sound(s) /\ Registered[s] = "none"
    BY <1>0, RegisteringLemma DEF StartSetup
<1>2. PICK c : c = [Top(t) EXCEPT !.at = "setup", !.left = Uses[s]]
    OBVIOUS
<1>3. /\ s \in onDemand /\ onDemand' = onDemand \ {s} /\ Replace(t, c)
      /\ UNCHANGED <<registration, singletons, lazyFactories, gets, made, given, refused>>
    BY <1>0, <1>2 DEF StartSetup, history
<1>4. s \in OnDemand /\ TypeOK /\ Calls
    BY <1>3 DEF IInv, TypeOK, Calls
<1>5. c \in Call /\ c.at = "setup" /\ c.of = s /\ c.left = Uses[s]
  <2>1. Uses[s] \in Seq(Service)
      BY <1>4
  <2> QED
      BY <1>0, <1>1, <1>2, <2>1 DEF Call, Place
<1>6. CallOK(c)'
  <2>1. \A k \in DOMAIN Uses[s] : Rank[Uses[s][k]] < Rank[s]
      BY <1>4, RankExists DEF Ranks
  <2> QED
      BY <1>1, <1>4, <1>5, <2>1 DEF CallOK, Making
<1>7. NoneSet
    BY <1>3 DEF NoneSet
<1>8. c.at \notin Making
    BY <1>5 DEF Making
<1>9. Calls'
    BY <1>0, <1>1, <1>3, <1>4, <1>5, <1>6, <1>7, <1>8, ReplaceStep
<1>10. TypeOK'
  <2>1. stack \in [Thread -> Seq(Call)]
      BY <1>4 DEF TypeOK
  <2>2. stack' \in [Thread -> Seq(Call)]
      BY <1>1, <1>3, <1>5, <2>1, ReplaceLemma
  <2> QED
      BY <1>3, <1>4, <2>2 DEF TypeOK
<1>11. Kept'
    BY <1>3 DEF Kept, IInv
<1> QED
    BY <1>3, <1>7, <1>9, <1>10, <1>11, Rest

LEMMA FinishSetupLemma ==
    ASSUME IInv, NEW t \in Thread, FinishSetup(t)
    PROVE  IInv'
<1>0. PICK s, S : s = Top(t).of /\ S = Sets[s]
    OBVIOUS
<1>1. /\ stack[t] # <<>> /\ s \in Service /\ ~Sound(s) /\ s \in OnDemand
  <2>1. At(t, {"setup"})
      BY DEF FinishSetup
  <2>2. CallOK(Top(t)) /\ Top(t).at = "setup"
      BY <2>1, AtLemma
  <2> QED
      BY <1>0, <2>1, <2>2, AtLemma DEF CallOK, Making
<1>2. /\ made' = [u \in Service |-> IF u \in S THEN made[u] + 1 ELSE made[u]]
      /\ singletons' = [u \in Service |-> IF u \in S THEN made'[u] ELSE singletons[u]]
      /\ registration' = [u \in Service |-> IF u \in S THEN "singleton" ELSE registration[u]]
      /\ Move(t, "retry")
      /\ UNCHANGED <<lazyFactories, onDemand, gets, given, refused>>
    BY <1>0 DEF FinishSetup
<1>4. \A u \in S : Registered[u] # "singleton"
    BY <1>0, <1>1, SetsAssumption
<1>5. NoneSet
    BY <1>2, <1>4 DEF NoneSet
<1>6. "retry" \in Place \ (Making \union {"setup"})
    BY DEF Place, Making
<1>7. stack' \in [Thread -> Seq(Call)] /\ Calls'
    BY <1>0, <1>1, <1>2, <1>5, <1>6, MoveLemma
<1>8. TypeOK'
  <2>1. made' \in [Service -> Nat]
      BY <1>2 DEF IInv, TypeOK
  <2>2. singletons' \in [Service -> Nat] /\ registration' \in [Service -> Scope]
      BY <1>2, <2>1 DEF IInv, TypeOK, Scope
  <2> QED
      BY <1>2, <1>7, <2>1, <2>2 DEF IInv, TypeOK
<1>9. Kept'
    BY <1>2 DEF Kept, IInv
<1> QED
    BY <1>2, <1>5, <1>7, <1>8, <1>9, Rest

LEMMA PropagateStepLemma ==
    ASSUME IInv, NEW t \in Thread, Propagate(t)
    PROVE  IInv'
<1>0. PICK u, w : u = Top(t) /\ w = stack[t][Len(stack[t]) - 1]
    OBVIOUS
<1>1. TypeOK /\ Calls /\ Len(stack[t]) > 1 /\ stack[t] # <<>>
    BY DEF Propagate, At, IInv, Calls
<1>2. u \in Call /\ ~Sound(u.of)
  <2>1. At(t, {"raised"})
      BY DEF Propagate
  <2>2. CallOK(Top(t)) /\ Top(t).at = "raised"
      BY <2>1, AtLemma
  <2> QED
      BY <1>0, <2>1, <2>2, AtLemma DEF CallOK, Making
<1>3. /\ w \in Call /\ CallOK(w) /\ w.at \in Making \union {"setup"}
      /\ w.at \in Making => NeededFor(u.of, w.of)
  <2>1. PICK j, k : j = Len(stack[t]) - 1 /\ k = Len(stack[t])
      OBVIOUS
  <2>2. Len(stack[t]) \in Nat \ {0} /\ DOMAIN stack[t] = 1 .. Len(stack[t])
      BY <1>1, TopLemma
  <2>3. j \in DOMAIN stack[t] /\ k \in DOMAIN stack[t] /\ k = j + 1
      BY <1>1, <2>1, <2>2
  <2>4. w = stack[t][j] /\ u = stack[t][k]
      BY <1>0, <2>1 DEF Top
  <2>5. w \in Call /\ CallOK(w)
      BY <1>1, <2>3, <2>4, TopLemma DEF Calls, CallsOK
  <2> QED
      BY <1>1, <2>3, <2>4, <2>5 DEF Calls, Linked
<1>4. PICK p \in {"retry", "missed", "raised"}, c \in Call :
        c = [w EXCEPT !.at = p] /\ Unwind(t, c)
  <2>1. PICK p \in {"retry", "missed", "raised"} : Unwind(t, [w EXCEPT !.at = p])
      BY <1>0 DEF Propagate, Failed
  <2>2. [w EXCEPT !.at = p] \in Call
      BY <1>3 DEF Call, Place
  <2> QED
      BY <2>1, <2>2
<1>5. c.at = p /\ c.of = w.of
    BY <1>3, <1>4 DEF Call
<1>6. ~Sound(w.of)
  <2>1. CASE w.at = "setup"
      BY <1>3, <2>1 DEF CallOK, Making
  <2>2. CASE w.at \in Making
    <3>1. u.of \in Service /\ w.of \in Service
        BY <1>2, <1>3 DEF Call
    <3> QED
        BY <1>2, <1>3, <2>2, <3>1, SoundNeeds
  <2> QED
      BY <1>3, <2>1, <2>2
<1>7. CallOK(c) /\ c.at \notin Making
    BY <1>5, <1>6 DEF CallOK, Making
<1>8. UNCHANGED <<registry, gets, history>>
    BY DEF Propagate
<1>9. Calls'
    BY <1>0, <1>1, <1>4, <1>5, <1>7, <1>8, UnwindStep DEF registry
<1>10. TypeOK'
  <2>1. stack \in [Thread -> Seq(Call)]
      BY <1>1 DEF TypeOK
  <2>2. stack' \in [Thread -> Seq(Call)]
      BY <1>1, <1>4, <2>1, PropagateLemma
  <2> QED
      BY <1>1, <1>8, <2>2 DEF TypeOK, registry, history
<1>11. Kept' /\ NoneSet
    BY <1>8 DEF Kept, NoneSet, IInv, registry
<1> QED
    BY <1>8, <1>9, <1>10, <1>11, Rest DEF history

LEMMA RefuseLemma ==
    ASSUME IInv, NEW t \in Thread, Refuse(t)
    PROVE  IInv'
<1>0. PICK s : s = Top(t).of
    OBVIOUS
<1>1. stack[t] # <<>> /\ s \in Service /\ ~Sound(s)
  <2>1. At(t, {"raised"})
      BY DEF Refuse
  <2>2. CallOK(Top(t)) /\ Top(t).at = "raised"
      BY <2>1, AtLemma
  <2> QED
      BY <1>0, <2>1, <2>2, AtLemma DEF CallOK, Making
<1>2. /\ refused' = refused \union {s} /\ Len(stack[t]) = 1
      /\ stack' = [stack EXCEPT ![t] = <<>>]
      /\ UNCHANGED <<registration, singletons, lazyFactories, onDemand, gets, made, given>>
    BY <1>0 DEF Refuse, registry
<1>3. TypeOK /\ Calls
    BY DEF IInv, Calls
<1>4. stack' = [stack EXCEPT ![t] = Below(t)]
  <2>1. SubSeq(stack[t], 1, 0) = <<>>
    <3>1. stack[t] \in Seq(Call)
        BY <1>3 DEF TypeOK
    <3>2. 0 \in Nat /\ 0 <= Len(stack[t])
        BY <1>2
    <3>3. SubSeq(stack[t], 1, 0) \in Seq(Call) /\ Len(SubSeq(stack[t], 1, 0)) = 0
        BY <3>1, <3>2, CutLemma
    <3> QED
        BY <3>3, EmptySeq
  <2>2. Len(stack[t]) - 1 = 0
      BY <1>2
  <2>3. Below(t) = <<>>
      BY <2>1, <2>2 DEF Below
  <2> QED
      BY <1>2, <2>3
<1>5. stack' \in [Thread -> Seq(Call)]
  <2>1. stack \in [Thread -> Seq(Call)]
      BY <1>3 DEF TypeOK
  <2> QED
      BY <1>1, <1>4, <2>1, PopLemma
<1>6. NoneSet
    BY <1>2 DEF NoneSet
<1>7. Calls'
    BY <1>1, <1>3, <1>4, <1>6, PopStep
<1>8. TypeOK'
    BY <1>1, <1>2, <1>3, <1>5 DEF TypeOK
<1>9. Kept' /\ GivenIsKept'
    BY <1>2 DEF Kept, GivenIsKept, IInv
<1>10. SoundIsServed'
    BY <1>1, <1>2 DEF SoundIsServed, IInv
<1> QED
    BY <1>7, <1>8, <1>9, <1>10 DEF IInv, Calls

(* Nothing changes. *)
LEMMA StutterLemma ==
    ASSUME IInv, UNCHANGED vars
    PROVE  IInv'
<1>1. UNCHANGED <<registration, singletons, lazyFactories, onDemand, stack, gets, made, given, refused>>
    BY DEF vars, registry, history
<1>2. TypeOK' /\ Kept' /\ GivenIsKept' /\ SoundIsServed'
    BY <1>1 DEF IInv, TypeOK, Kept, GivenIsKept, SoundIsServed
<1>3. Exclusive' /\ Descending' /\ Linked' /\ CallsOK'
    BY <1>1 DEF IInv, Exclusive, HoldsResolver, Descending, Linked, CallsOK, CallOK
<1> QED
    BY <1>2, <1>3 DEF IInv

-----------------------------------------------------------------------------
(* The invariant, whatever the threads do: the resolver makes one service  *)
(* at a time, thread by thread and call by call, and a singleton only if   *)
(* there was none.                                                         *)
THEOREM Invariance == Spec => []IInv
<1>1. IInv /\ [Next]_vars => IInv'
  <2> SUFFICES ASSUME IInv, [Next]_vars
               PROVE  IInv'
      OBVIOUS
  <2>1. CASE UNCHANGED vars
      BY <2>1, StutterLemma
  <2>2. ASSUME NEW t \in Thread, Resolve(t) PROVE IInv'
      BY <2>2, SeeCachedLemma, StartMakingLemma, AskLemma, MakeLemma,
         MakeRaisesLemma, MissLemma DEF Resolve
  <2>3. ASSUME NEW t \in Thread, Register(t) PROVE IInv'
      BY <2>3, RegisteredNowLemma, RegisterLazyLemma, StartSetupLemma, NothingToRegisterLemma,
         FinishSetupLemma, StillMissingLemma DEF Register
  <2>4. ASSUME NEW t \in Thread, Propagate(t) \/ Refuse(t) PROVE IInv'
      BY <2>4, PropagateStepLemma, RefuseLemma
  <2>5. ASSUME NEW t \in Thread, NEW s \in Service, Get(t, s) PROVE IInv'
      BY <2>5, GetLemma
  <2> QED
      BY <2>1, <2>2, <2>3, <2>4, <2>5 DEF Next, Step
<1> QED
    BY <1>1, InitLemma, PTL DEF Spec

(* Every variable keeps its type (DIContainer, DependencyResolver,         *)
(* ServiceRegistry).                                                       *)
THEOREM TypeCorrect == Spec => []TypeOK
<1>1. IInv => TypeOK
    BY DEF IInv
<1> QED
    BY <1>1, Invariance, PTL

(* However many threads ask for it, a service that was registered as a     *)
(* singleton is one instance for all (DependencyResolver.resolve).         *)
THEOREM SingletonsAreOne == Spec => []OneInstance
<1>1. ASSUME GivenIsKept PROVE OneInstance
  <2> SUFFICES ASSUME NEW s \in Service, Registered[s] = "singleton"
               PROVE  Cardinality(given[s]) <= 1
      BY DEF OneInstance
  <2>1. given[s] = {} \/ given[s] = {singletons[s]}
      BY <1>1 DEF GivenIsKept
  <2>2. Cardinality({}) = 0 /\ Cardinality({singletons[s]}) = 1
      BY FS_EmptySet, FS_Singleton
  <2>3. Cardinality(given[s]) = 0 \/ Cardinality(given[s]) = 1
      BY <2>1, <2>2
  <2> QED
      BY <2>3
<1>2. IInv => OneInstance
    BY <1>1 DEF IInv
<1> QED
    BY <1>2, Invariance, PTL

(* A service that was registered with all it needs is never refused,       *)
(* whatever other threads ask for meanwhile (DIContainer.get).             *)
THEOREM SoundServed == Spec => []SoundIsServed
<1>1. IInv => SoundIsServed
    BY DEF IInv
<1> QED
    BY <1>1, Invariance, PTL

-----------------------------------------------------------------------------
(* A registration function asks for what it uses, so when all of that is   *)
(* sound it comes to its end, whatever else happens.                       *)
UsedBy(u, s) == \E m \in DOMAIN Uses[s] : Uses[s][m] = u

SetupOK(q, k) ==
    q[k].at = "setup" =>
        /\ \A m \in DOMAIN q[k].left : UsedBy(q[k].left[m], q[k].of)
        /\ k + 1 \in DOMAIN q => UsedBy(q[k + 1].of, q[k].of)

SetupLinked == \A t \in Thread : \A k \in DOMAIN stack[t] : SetupOK(stack[t], k)

SettingUp(q, s) == \E k \in DOMAIN q : q[k].of = s /\ q[k].at = "setup"
Setting(s) == \E t \in Thread : SettingUp(stack[t], s)

(* The steps of one thread leave the stacks of the others alone.           *)
LEMMA OthersLinked ==
    ASSUME SetupLinked, NEW t \in Thread, \A u \in Thread \ {t} : stack'[u] = stack[u],
           \A k \in DOMAIN stack'[t] : SetupOK(stack'[t], k)
    PROVE  SetupLinked'
<1> SUFFICES ASSUME NEW u \in Thread, NEW k \in DOMAIN stack'[u]
             PROVE  SetupOK(stack'[u], k)
    BY DEF SetupLinked, SetupOK
<1> QED
    BY DEF SetupLinked

LEMMA OthersSetting ==
    ASSUME NEW t \in Thread, \A u \in Thread \ {t} : stack'[u] = stack[u],
           NEW s \in Service, SettingUp(stack[t], s) => SettingUp(stack'[t], s), Setting(s)
    PROVE  Setting(s)'
<1>1. \E u \in Thread : SettingUp(stack'[u], s)
    BY DEF Setting
<1> QED
    BY <1>1 DEF Setting, SettingUp

LEMMA ReplaceSetup ==
    ASSUME TypeOK, SetupLinked, NEW t \in Thread, stack[t] # <<>>,
           NEW c \in Call, Replace(t, c), c.of = Top(t).of,
           c.at = "setup" => \A m \in DOMAIN c.left : UsedBy(c.left[m], c.of)
    PROVE  /\ SetupLinked'
           /\ \A s \in Service : (Top(t).at = "setup" => s # Top(t).of) /\ Setting(s) => Setting(s)'
<1> DEFINE n == Len(stack[t])
           S == {s \in Service : Top(t).at = "setup" => s # Top(t).of}
<1>1. /\ n \in Nat \ {0} /\ DOMAIN stack'[t] = 1 .. n /\ DOMAIN stack[t] = 1 .. n
      /\ Top(t) = stack[t][n] /\ stack'[t][n] = c
      /\ \A k \in 1 .. n - 1 : stack'[t][k] = stack[t][k]
      /\ \A u \in Thread \ {t} : stack'[u] = stack[u]
    BY ReplaceLemma DEF TypeOK, Top
<1> HIDE DEF n
<1>2. ASSUME NEW k \in DOMAIN stack'[t] PROVE SetupOK(stack'[t], k)
  <2>0. SetupOK(stack[t], k)
      BY <1>1 DEF SetupLinked
  <2>1. CASE k = n
      BY <1>1, <2>1 DEF SetupOK
  <2>2. CASE k # n
    <3>1. k \in 1 .. n - 1 /\ k + 1 \in 1 .. n
        BY <1>1, <2>2
    <3>2. stack'[t][k + 1].of = stack[t][k + 1].of
      <4>1. CASE k + 1 = n
          BY <1>1, <4>1
      <4>2. CASE k + 1 \in 1 .. n - 1
          BY <1>1, <4>2
      <4> QED
          BY <1>1, <3>1, <4>1, <4>2
    <3> QED
        BY <1>1, <2>0, <3>1, <3>2 DEF SetupOK
  <2> QED
      BY <2>1, <2>2
<1>3. ASSUME NEW s \in S, SettingUp(stack[t], s) PROVE SettingUp(stack'[t], s)
  <2> PICK k \in 1 .. n : stack[t][k].of = s /\ stack[t][k].at = "setup"
      BY <1>1, <1>3 DEF SettingUp
  <2>1. k # n
      BY <1>1
  <2>2. k \in 1 .. n - 1 /\ k \in DOMAIN stack'[t]
      BY <1>1, <2>1
  <2>3. stack'[t][k].of = s /\ stack'[t][k].at = "setup"
      BY <1>1, <2>2
  <2> QED
      BY <2>2, <2>3 DEF SettingUp
<1>4. SetupLinked'
    BY <1>1, <1>2, OthersLinked
<1>6. ASSUME NEW s \in S, Setting(s) PROVE Setting(s)'
  <2>1. SettingUp(stack[t], s) => SettingUp(stack'[t], s)
      BY <1>3
  <2>2. s \in Service
      OBVIOUS
  <2> QED
      BY <1>1, <1>6, <2>1, <2>2, OthersSetting
<1> QED
    BY <1>4, <1>6

LEMMA PopSetup ==
    ASSUME TypeOK, SetupLinked, NEW t \in Thread, stack[t] # <<>>,
           stack' = [stack EXCEPT ![t] = Below(t)], Top(t).at # "setup"
    PROVE  SetupLinked' /\ \A s \in Service : Setting(s) => Setting(s)'
<1> DEFINE n == Len(stack[t])
<1>1. /\ n \in Nat \ {0} /\ DOMAIN stack'[t] = 1 .. n - 1 /\ DOMAIN stack[t] = 1 .. n
      /\ Top(t) = stack[t][n]
      /\ \A k \in 1 .. n - 1 : stack'[t][k] = stack[t][k]
      /\ \A u \in Thread \ {t} : stack'[u] = stack[u]
    BY PopLemma DEF TypeOK, Top
<1> HIDE DEF n
<1>2. ASSUME NEW k \in DOMAIN stack'[t] PROVE SetupOK(stack'[t], k)
  <2>1. k \in DOMAIN stack[t] /\ SetupOK(stack[t], k)
      BY <1>1 DEF SetupLinked
  <2>2. k + 1 \in DOMAIN stack'[t] => k + 1 \in DOMAIN stack[t] /\ stack'[t][k + 1] = stack[t][k + 1]
      BY <1>1
  <2> QED
      BY <1>1, <2>1, <2>2 DEF SetupOK
<1>3. ASSUME NEW s \in Service, SettingUp(stack[t], s) PROVE SettingUp(stack'[t], s)
  <2> PICK k \in 1 .. n : stack[t][k].of = s /\ stack[t][k].at = "setup"
      BY <1>1, <1>3 DEF SettingUp
  <2>1. k # n
      BY <1>1
  <2>2. k \in 1 .. n - 1 /\ k \in DOMAIN stack'[t]
      BY <1>1, <2>1
  <2>3. stack'[t][k].of = s /\ stack'[t][k].at = "setup"
      BY <1>1, <2>2
  <2> QED
      BY <2>2, <2>3 DEF SettingUp
<1>4. SetupLinked'
    BY <1>1, <1>2, OthersLinked
<1>5. ASSUME NEW s \in Service, Setting(s) PROVE Setting(s)'
  <2>1. SettingUp(stack[t], s) => SettingUp(stack'[t], s)
      BY <1>3
  <2> QED
      BY <1>1, <1>5, <2>1, OthersSetting
<1> QED
    BY <1>4, <1>5

LEMMA PushSetup ==
    ASSUME TypeOK, SetupLinked, NEW t \in Thread, stack[t] # <<>>,
           NEW c \in Call, NEW d \in Call, Push(t, c, d),
           c.of = Top(t).of, c.at = Top(t).at, d.at # "setup",
           c.at = "setup" =>
               /\ \A m \in DOMAIN c.left : UsedBy(c.left[m], c.of)
               /\ UsedBy(d.of, c.of)
    PROVE  SetupLinked' /\ \A s \in Service : Setting(s) => Setting(s)'
<1> DEFINE n == Len(stack[t])
<1>1. /\ n \in Nat \ {0} /\ DOMAIN stack'[t] = 1 .. n + 1 /\ DOMAIN stack[t] = 1 .. n
      /\ Top(t) = stack[t][n] /\ stack'[t][n] = c /\ stack'[t][n + 1] = d
      /\ \A k \in 1 .. n - 1 : stack'[t][k] = stack[t][k]
      /\ \A u \in Thread \ {t} : stack'[u] = stack[u]
    BY PushLemma DEF TypeOK, Top
<1> HIDE DEF n
<1>2. ASSUME NEW k \in DOMAIN stack'[t] PROVE SetupOK(stack'[t], k)
  <2>1. CASE k = n + 1
      BY <1>1, <2>1 DEF SetupOK
  <2>2. CASE k = n
      BY <1>1, <2>2 DEF SetupOK
  <2>3. CASE k \in 1 .. n - 1
    <3>1. k \in DOMAIN stack[t] /\ k + 1 \in DOMAIN stack[t] /\ SetupOK(stack[t], k)
        BY <1>1, <2>3 DEF SetupLinked
    <3>2. stack'[t][k + 1].of = stack[t][k + 1].of
      <4>1. CASE k + 1 = n
          BY <1>1, <4>1
      <4>2. CASE k + 1 \in 1 .. n - 1
          BY <1>1, <4>2
      <4> QED
          BY <1>1, <2>3, <4>1, <4>2
    <3> QED
        BY <1>1, <2>3, <3>1, <3>2 DEF SetupOK
  <2> QED
      BY <1>1, <2>1, <2>2, <2>3
<1>3. ASSUME NEW s \in Service, SettingUp(stack[t], s) PROVE SettingUp(stack'[t], s)
  <2> PICK k \in 1 .. n : stack[t][k].of = s /\ stack[t][k].at = "setup"
      BY <1>1, <1>3 DEF SettingUp
  <2>1. stack'[t][k].of = s /\ stack'[t][k].at = "setup"
    <3>1. CASE k = n
        BY <1>1, <3>1
    <3>2. CASE k \in 1 .. n - 1
        BY <1>1, <3>2
    <3> QED
        BY <1>1, <3>1, <3>2
  <2>2. k \in DOMAIN stack'[t]
      BY <1>1
  <2> QED
      BY <2>1, <2>2 DEF SettingUp
<1>4. SetupLinked'
    BY <1>1, <1>2, OthersLinked
<1>5. ASSUME NEW s \in Service, Setting(s) PROVE Setting(s)'
  <2>1. SettingUp(stack[t], s) => SettingUp(stack'[t], s)
      BY <1>3
  <2> QED
      BY <1>1, <1>5, <2>1, OthersSetting
<1> QED
    BY <1>4, <1>5

(* A call raises: a registration function that asked for it gives up.      *)
LEMMA UnwindSetup ==
    ASSUME TypeOK, SetupLinked, NEW t \in Thread, Len(stack[t]) > 1,
           NEW w, w = stack[t][Len(stack[t]) - 1],
           NEW c \in Call, Unwind(t, c), c.of = w.of, c.at # "setup",
           Top(t).at # "setup"
    PROVE  /\ SetupLinked'
           /\ w.at = "setup" => UsedBy(Top(t).of, w.of)
           /\ \A s \in Service : (w.at = "setup" => s # w.of) /\ Setting(s) => Setting(s)'
<1> DEFINE n == Len(stack[t])
           S == {s \in Service : w.at = "setup" => s # w.of}
<1>1. /\ n \in Nat \ {0, 1} /\ DOMAIN stack'[t] = 1 .. n - 1 /\ DOMAIN stack[t] = 1 .. n
      /\ Top(t) = stack[t][n] /\ w = stack[t][n - 1] /\ stack'[t][n - 1] = c
      /\ \A k \in 1 .. n - 2 : stack'[t][k] = stack[t][k]
      /\ \A u \in Thread \ {t} : stack'[u] = stack[u]
    BY PropagateLemma DEF TypeOK, Top
<1> HIDE DEF n
<1>2. ASSUME NEW k \in DOMAIN stack'[t] PROVE SetupOK(stack'[t], k)
  <2>1. CASE k = n - 1
      BY <1>1, <2>1 DEF SetupOK
  <2>2. CASE k \in 1 .. n - 2
    <3>1. k \in DOMAIN stack[t] /\ k + 1 \in DOMAIN stack[t] /\ SetupOK(stack[t], k)
        BY <1>1, <2>2 DEF SetupLinked
    <3>2. stack'[t][k + 1].of = stack[t][k + 1].of
      <4>1. CASE k + 1 = n - 1
          BY <1>1, <4>1
      <4>2. CASE k + 1 \in 1 .. n - 2
          BY <1>1, <4>2
      <4> QED
          BY <1>1, <2>2, <4>1, <4>2
    <3> QED
        BY <1>1, <2>2, <3>1, <3>2 DEF SetupOK
  <2> QED
      BY <1>1, <2>1, <2>2
<1>3. ASSUME NEW s \in S, SettingUp(stack[t], s) PROVE SettingUp(stack'[t], s)
  <2> PICK k \in 1 .. n : stack[t][k].of = s /\ stack[t][k].at = "setup"
      BY <1>1, <1>3 DEF SettingUp
  <2>1. k # n /\ k # n - 1
      BY <1>1
  <2>2. k \in 1 .. n - 2 /\ k \in DOMAIN stack'[t]
      BY <1>1, <2>1
  <2>3. stack'[t][k].of = s /\ stack'[t][k].at = "setup"
      BY <1>1, <2>2
  <2> QED
      BY <2>2, <2>3 DEF SettingUp
<1>4. SetupLinked'
    BY <1>1, <1>2, OthersLinked
<1>6. ASSUME NEW s \in S, Setting(s) PROVE Setting(s)'
  <2>1. SettingUp(stack[t], s) => SettingUp(stack'[t], s)
      BY <1>3
  <2>2. s \in Service
      OBVIOUS
  <2> QED
      BY <1>1, <1>6, <2>1, <2>2, OthersSetting
<1>5. w.at = "setup" => UsedBy(Top(t).of, w.of)
  <2>1. n - 1 \in DOMAIN stack[t] /\ (n - 1) + 1 \in DOMAIN stack[t] /\ (n - 1) + 1 = n
      BY <1>1
  <2>2. SetupOK(stack[t], n - 1)
      BY <2>1 DEF SetupLinked
  <2> QED
      BY <1>1, <2>1, <2>2 DEF SetupOK
<1> QED
    BY <1>4, <1>5, <1>6

(* What its registration function registers, out of what cannot fail.      *)
Recoverable(s) == s \in Sets[s] /\ \A k \in DOMAIN Uses[s] : Sound(Uses[s][k])

Lossless == SetupLinked /\ NothingIsLost

(* Nothing is unregistered; a lazy factory that is taken out is registered. *)
Growing ==
    /\ \A s \in Service : registration[s] # "none" => registration'[s] # "none"
    /\ \A s \in lazyFactories : s \in lazyFactories' \/ registration'[s] # "none"

LEMMA NotLost ==
    ASSUME NothingIsLost, Growing,
           \A s \in OnDemand : s \in onDemand => s \in onDemand' \/ Setting(s)',
           \A s \in OnDemand : Recoverable(s) /\ Setting(s) => Setting(s)' \/ registration'[s] # "none"
    PROVE  NothingIsLost'
<1>1. ASSUME NEW s \in Lazy PROVE s \in lazyFactories' \/ registration'[s] # "none"
    BY DEF NothingIsLost, Growing
<1>2. ASSUME NEW s \in OnDemand, Recoverable(s)
      PROVE  s \in onDemand' \/ registration'[s] # "none" \/ Setting(s)'
  <2>1. s \in onDemand \/ registration[s] # "none" \/ Setting(s)
      BY <1>2 DEF NothingIsLost, Recoverable, Setting, SettingUp
  <2> QED
      BY <1>2, <2>1 DEF Growing
<1> QED
    BY <1>1, <1>2 DEF NothingIsLost, Recoverable, Setting, SettingUp

(* The innermost call goes on, and it is and becomes no registration       *)
(* function.                                                               *)
LEMMA GoOn ==
    ASSUME TypeOK, Lossless, NEW t \in Thread, stack[t] # <<>>, Top(t).at # "setup",
           NEW c \in Call, Replace(t, c), c.of = Top(t).of, c.at # "setup",
           Growing, onDemand' = onDemand
    PROVE  Lossless'
<1>1. SetupLinked' /\ \A s \in Service : Setting(s) => Setting(s)'
    BY ReplaceSetup DEF Lossless
<1>2. NothingIsLost'
    BY <1>1, NotLost DEF Lossless
<1> QED
    BY <1>1, <1>2 DEF Lossless

LEMMA MoveOn ==
    ASSUME TypeOK, Lossless, NEW t \in Thread, stack[t] # <<>>, Top(t).at # "setup",
           NEW p \in Place \ {"setup"}, Move(t, p),
           Growing, onDemand' = onDemand
    PROVE  Lossless'
<1>1. Top(t) \in Call
    BY TopLemma
<1>2. PICK c : c = [Top(t) EXCEPT !.at = p]
    OBVIOUS
<1>3. c \in Call /\ c.of = Top(t).of /\ c.at # "setup" /\ Replace(t, c)
    BY <1>1, <1>2 DEF Call, Move
<1> QED
    BY <1>3, GoOn

LEMMA ResolveLossless ==
    ASSUME IInv, Lossless, NEW t \in Thread, Resolve(t)
    PROVE  Lossless'
<1>1. CASE SeeCached(t) \/ Make(t)
  <2>1. stack[t] # <<>> /\ Top(t).at # "setup"
      BY <1>1 DEF SeeCached, Make, At, Making
  <2>2. stack' = [stack EXCEPT ![t] = Below(t)]
        /\ UNCHANGED <<registration, lazyFactories, onDemand>>
      BY <1>1 DEF SeeCached, Make, Return, registry
  <2>3. SetupLinked' /\ \A s \in Service : Setting(s) => Setting(s)'
      BY <2>1, <2>2, PopSetup DEF IInv, Lossless
  <2>4. NothingIsLost'
      BY <2>2, <2>3, NotLost DEF Lossless, Growing
  <2> QED
      BY <2>3, <2>4 DEF Lossless
<1>2. CASE StartMaking(t)
  <2>1. At(t, {"resolve", "again"})
      BY <1>2 DEF StartMaking
  <2>2. /\ stack[t] # <<>> /\ Top(t) \in Call /\ Top(t).of \in Service
        /\ Top(t).at \in {"resolve", "again"}
      BY <2>1, AtLemma
  <2>3. PICK s, c :
            /\ s = Top(t).of
            /\ c = [Top(t) EXCEPT
                !.at = IF @ = "again" THEN "makingAgain" ELSE "making",
                !.scope = registration[s],
                !.left = Needs[s]]
      OBVIOUS
  <2>4. /\ Replace(t, c)
        /\ registration' = [registration EXCEPT ![s] =
              IF @ # "none" \/ s \notin Injectable THEN @
              ELSE IF s \in Decorated THEN "singleton" ELSE "transient"]
        /\ UNCHANGED <<lazyFactories, onDemand>>
      BY <1>2, <2>3 DEF StartMaking
  <2>5. TypeOK /\ registration[s] \in Scope /\ Needs[s] \in Seq(Service)
      BY <2>2, <2>3 DEF IInv, TypeOK
  <2>6. c \in Call /\ c.of = Top(t).of /\ c.at # "setup"
      BY <2>2, <2>3, <2>5 DEF Call, Place
  <2>7. Growing
      BY <2>2, <2>3, <2>4, <2>5 DEF Growing, TypeOK
  <2> QED
      BY <2>2, <2>4, <2>5, <2>6, <2>7, GoOn
<1>3. CASE Ask(t)
  <2>1. At(t, Making \union {"setup"})
      BY <1>3 DEF Ask
  <2>2. stack[t] # <<>> /\ Top(t) \in Call
      BY <2>1, AtLemma
  <2>3. PICK u, via :
        /\ u = Head(Top(t).left)
        /\ via = IF Top(t).at = "setup" \/ Top(t).of \in ByFactory THEN "get" ELSE "resolver"
      OBVIOUS
  <2>4. PICK c, d : c = [Top(t) EXCEPT !.left = Tail(@)] /\ d = NewCall(u, via)
      OBVIOUS
  <2>5. Push(t, c, d) /\ Top(t).left # <<>> /\ UNCHANGED <<registration, lazyFactories, onDemand>>
      BY <1>3, <2>3, <2>4 DEF Ask, registry
  <2>6. PICK left \in Seq(Service) : left = Top(t).left
      BY <2>2 DEF Call
  <2>7. /\ u = left[1] /\ 1 \in DOMAIN left /\ u \in Service /\ Tail(left) \in Seq(Service)
        /\ \A k \in DOMAIN Tail(left) : k + 1 \in DOMAIN left /\ Tail(left)[k] = left[k + 1]
      BY <2>3, <2>5, <2>6
  <2>8. c \in Call /\ c.of = Top(t).of /\ c.at = Top(t).at /\ c.left = Tail(left)
      BY <2>2, <2>4, <2>6, <2>7 DEF Call
  <2>9. d \in Call /\ d.of = u /\ d.at # "setup"
    <3>1. <<>> \in Seq(Service)
        BY EmptySeq
    <3> QED
        BY <2>3, <2>4, <2>7, <3>1 DEF NewCall, Call, Place, Scope
  <2>10. c.at = "setup" => \A m \in DOMAIN left : UsedBy(left[m], c.of)
    <3>1. Len(stack[t]) \in DOMAIN stack[t] /\ Top(t) = stack[t][Len(stack[t])]
        BY <2>2, TopLemma DEF IInv, Top
    <3>2. SetupOK(stack[t], Len(stack[t]))
        BY <3>1 DEF Lossless, SetupLinked
    <3> QED
        BY <2>6, <2>8, <3>1, <3>2 DEF SetupOK
  <2>11. c.at = "setup" =>
            (\A m \in DOMAIN c.left : UsedBy(c.left[m], c.of)) /\ UsedBy(d.of, c.of)
      BY <2>7, <2>8, <2>9, <2>10
  <2>12. SetupLinked' /\ \A s \in Service : Setting(s) => Setting(s)'
      BY <2>2, <2>5, <2>8, <2>9, <2>11, PushSetup DEF IInv, Lossless
  <2>13. NothingIsLost'
      BY <2>5, <2>12, NotLost DEF Lossless, Growing
  <2> QED
      BY <2>12, <2>13 DEF Lossless
<1>4. CASE Miss(t) \/ MakeRaises(t)
  <2>1. stack[t] # <<>> /\ Top(t).at # "setup"
      BY <1>4 DEF Miss, MakeRaises, At, Making
  <2>2. PICK p \in {"missed", "raised"} : Move(t, p)
      BY <1>4 DEF Miss, MakeRaises, Failed
  <2>3. p \in Place \ {"setup"} /\ onDemand' = onDemand /\ Growing
      BY <1>4 DEF Miss, MakeRaises, Place, registry, Growing
  <2> QED
      BY <2>1, <2>2, <2>3, MoveOn DEF IInv
<1> QED
    BY <1>1, <1>2, <1>3, <1>4 DEF Resolve

LEMMA StartSetupLossless ==
    ASSUME IInv, Lossless, NEW t \in Thread, StartSetup(t)
    PROVE  Lossless'
<1>0. PICK s, c : s = Top(t).of /\ c = [Top(t) EXCEPT !.at = "setup", !.left = Uses[s]]
    OBVIOUS
<1>1. At(t, {"registering"})
    BY DEF StartSetup
<1>2. stack[t] # <<>> /\ Top(t) \in Call /\ s \in Service /\ Top(t).at = "registering"
    BY <1>0, <1>1, AtLemma
<1>3. /\ s \in onDemand /\ onDemand' = onDemand \ {s} /\ Replace(t, c)
      /\ UNCHANGED <<registration, singletons, lazyFactories>>
    BY <1>0 DEF StartSetup
<1>4. s \in OnDemand
    BY <1>3 DEF IInv, TypeOK
<1>5. Uses[s] \in Seq(Service)
    BY <1>4
<1>6. c \in Call /\ c.at = "setup" /\ c.of = s /\ c.left = Uses[s]
    BY <1>0, <1>2, <1>5 DEF Call, Place
<1>7. \A m \in DOMAIN c.left : UsedBy(c.left[m], c.of)
    BY <1>6 DEF UsedBy
<1>8. SetupLinked' /\ \A u \in Service : Setting(u) => Setting(u)'
    BY <1>0, <1>2, <1>3, <1>6, <1>7, ReplaceSetup DEF IInv, Lossless
<1>9. Setting(s)'
  <2>1. /\ Len(stack[t]) \in DOMAIN stack'[t] /\ stack'[t][Len(stack[t])] = c
    <3>1. stack \in [Thread -> Seq(Call)]
        BY DEF IInv, TypeOK
    <3>2. /\ Len(stack[t]) \in Nat \ {0} /\ DOMAIN stack'[t] = 1 .. Len(stack[t])
          /\ stack'[t][Len(stack[t])] = c
        BY <1>2, <1>3, <1>6, <3>1, ReplaceLemma
    <3> QED
        BY <3>2
  <2>2. SettingUp(stack'[t], s)
      BY <1>6, <2>1 DEF SettingUp
  <2> QED
      BY <2>2 DEF Setting, SettingUp
<1>10. NothingIsLost'
    BY <1>3, <1>8, <1>9, NotLost DEF Lossless, Growing
<1> QED
    BY <1>8, <1>10 DEF Lossless

LEMMA FinishSetupLossless ==
    ASSUME IInv, Lossless, NEW t \in Thread, FinishSetup(t)
    PROVE  Lossless'
<1>0. PICK s, c : s = Top(t).of /\ c = [Top(t) EXCEPT !.at = "retry"]
    OBVIOUS
<1>1. At(t, {"setup"})
    BY DEF FinishSetup
<1>2. stack[t] # <<>> /\ Top(t) \in Call /\ s \in Service
    BY <1>0, <1>1, AtLemma
<1>3. /\ registration' = [u \in Service |-> IF u \in Sets[s] THEN "singleton" ELSE registration[u]]
      /\ Replace(t, c)
      /\ UNCHANGED <<lazyFactories, onDemand>>
    BY <1>0 DEF FinishSetup, Move
<1>4. c \in Call /\ c.of = s /\ c.at # "setup"
    BY <1>0, <1>2 DEF Call, Place
<1>5. SetupLinked' /\ \A u \in Service : u # s /\ Setting(u) => Setting(u)'
    BY <1>0, <1>2, <1>3, <1>4, ReplaceSetup DEF IInv, Lossless
<1>6. Recoverable(s) => registration'[s] # "none"
    BY <1>2, <1>3 DEF Recoverable
<1>7. Growing
  <2>1. \A u \in Service : registration[u] # "none" => registration'[u] # "none"
      BY <1>3
  <2> QED
      BY <1>3, <2>1 DEF Growing
<1>8. \A u \in OnDemand : Recoverable(u) /\ Setting(u) => Setting(u)' \/ registration'[u] # "none"
    BY <1>5, <1>6
<1>9. NothingIsLost'
    BY <1>3, <1>7, <1>8, NotLost DEF Lossless
<1> QED
    BY <1>5, <1>9 DEF Lossless

LEMMA RegisterLossless ==
    ASSUME IInv, Lossless, NEW t \in Thread, Register(t)
    PROVE  Lossless'
<1>1. CASE Registered_Now(t) \/ NothingToRegister(t) \/ StillMissing(t)
  <2>1. stack[t] # <<>> /\ Top(t).at # "setup"
      BY <1>1 DEF Registered_Now, NothingToRegister, StillMissing, At
  <2>2. PICK p \in {"raised", "registering", "retry", "again"} : Move(t, p)
      BY <1>1 DEF Registered_Now, NothingToRegister, StillMissing
  <2>3. p \in Place \ {"setup"} /\ onDemand' = onDemand /\ Growing
      BY <1>1 DEF Registered_Now, NothingToRegister, StillMissing, Place, registry, Growing
  <2> QED
      BY <2>1, <2>2, <2>3, MoveOn DEF IInv
<1>2. CASE RegisterLazy(t)
  <2>1. stack[t] # <<>> /\ Top(t).at # "setup" /\ "retry" \in Place \ {"setup"}
      BY <1>2 DEF RegisterLazy, At, Place
  <2>2. PICK s : s = Top(t).of
      OBVIOUS
  <2>3. /\ lazyFactories' = lazyFactories \ {s} /\ s \in lazyFactories
        /\ registration' = [registration EXCEPT ![s] = "transient"]
        /\ Move(t, "retry") /\ onDemand' = onDemand
      BY <1>2, <2>2 DEF RegisterLazy
  <2>4. Growing
      BY <2>3 DEF Growing, IInv, TypeOK
  <2> QED
      BY <2>1, <2>3, <2>4, MoveOn DEF IInv
<1> QED
    BY <1>1, <1>2, StartSetupLossless, FinishSetupLossless DEF Register

(* The exception of a call that a registration function asked for: what it *)
(* uses can fail.                                                          *)
LEMMA PropagateLossless ==
    ASSUME IInv, Lossless, NEW t \in Thread, Propagate(t)
    PROVE  Lossless'
<1>0. PICK w : w = stack[t][Len(stack[t]) - 1]
    OBVIOUS
<1>1. At(t, {"raised"}) /\ Len(stack[t]) > 1 /\ UNCHANGED <<registration, lazyFactories, onDemand>>
    BY DEF Propagate, registry
<1>2. stack[t] # <<>> /\ Top(t).at = "raised" /\ ~Sound(Top(t).of)
    BY <1>1, AtLemma DEF CallOK, Making
<1>3. w \in Call
  <2>1. Len(stack[t]) \in Nat \ {0} /\ DOMAIN stack[t] = 1 .. Len(stack[t])
        /\ \A k \in DOMAIN stack[t] : stack[t][k] \in Call
      BY <1>2, TopLemma DEF IInv
  <2>2. Len(stack[t]) - 1 \in DOMAIN stack[t]
      BY <1>1, <2>1
  <2> QED
      BY <1>0, <2>1, <2>2
<1>4. PICK p \in {"retry", "missed", "raised"} : Unwind(t, [w EXCEPT !.at = p])
    BY <1>0 DEF Propagate, Failed
<1> DEFINE c == [w EXCEPT !.at = p]
<1>5. c \in Call /\ c.of = w.of /\ c.at # "setup" /\ Unwind(t, c)
    BY <1>3, <1>4 DEF Call, Place
<1> HIDE DEF c
<1>6. /\ SetupLinked'
      /\ w.at = "setup" => UsedBy(Top(t).of, w.of)
      /\ \A s \in Service : (w.at = "setup" => s # w.of) /\ Setting(s) => Setting(s)'
    BY <1>0, <1>1, <1>2, <1>4, <1>5, UnwindSetup DEF IInv, Lossless
<1>7. ASSUME NEW s \in OnDemand, Recoverable(s), Setting(s) PROVE Setting(s)'
  <2>1. w.at = "setup" => s # w.of
      BY <1>2, <1>6, <1>7 DEF Recoverable, UsedBy
  <2> QED
      BY <1>6, <1>7, <2>1
<1>8. NothingIsLost'
    BY <1>1, <1>7, NotLost DEF Lossless, Growing
<1> QED
    BY <1>6, <1>8 DEF Lossless

LEMMA GetLossless ==
    ASSUME IInv, Lossless, NEW t \in Thread, NEW s \in Service, Get(t, s)
    PROVE  Lossless'
<1>0. PICK c : c = NewCall(s, "get")
    OBVIOUS
<1>1. /\ stack[t] = <<>> /\ stack' = [stack EXCEPT ![t] = <<c>>] /\ stack \in [Thread -> Seq(Call)]
      /\ UNCHANGED <<registration, lazyFactories, onDemand>> /\ c.at # "setup"
    BY <1>0 DEF Get, IInv, TypeOK, registry, NewCall
<1>2. DOMAIN stack'[t] = {1} /\ stack'[t][1] = c /\ \A u \in Thread \ {t} : stack'[u] = stack[u]
    BY <1>1
<1>3. \A k \in DOMAIN stack'[t] : SetupOK(stack'[t], k)
    BY <1>1, <1>2 DEF SetupOK
<1>4. SetupLinked'
    BY <1>2, <1>3, OthersLinked DEF Lossless
<1>5. \A u \in Service : ~SettingUp(stack[t], u)
    BY <1>1 DEF SettingUp
<1>6. ASSUME NEW u \in Service, Setting(u) PROVE Setting(u)'
    BY <1>2, <1>5, <1>6, OthersSetting
<1>7. NothingIsLost'
    BY <1>1, <1>6, NotLost DEF Lossless, Growing
<1> QED
    BY <1>4, <1>7 DEF Lossless

LEMMA RefuseLossless ==
    ASSUME IInv, Lossless, NEW t \in Thread, Refuse(t)
    PROVE  Lossless'
<1>1. /\ Top(t).at = "raised" /\ Len(stack[t]) = 1 /\ stack' = [stack EXCEPT ![t] = <<>>]
      /\ stack \in [Thread -> Seq(Call)]
      /\ UNCHANGED <<registration, lazyFactories, onDemand>>
    BY DEF Refuse, At, registry, IInv, TypeOK
<1>2. DOMAIN stack'[t] = {} /\ \A u \in Thread \ {t} : stack'[u] = stack[u]
    BY <1>1
<1>3. SetupLinked'
    BY <1>2, OthersLinked DEF Lossless
<1>4. \A u \in Service : ~SettingUp(stack[t], u)
  <2>1. DOMAIN stack[t] = {1} /\ stack[t][1].at = "raised"
      BY <1>1 DEF Top
  <2> QED
      BY <2>1 DEF SettingUp
<1>5. ASSUME NEW u \in Service, Setting(u) PROVE Setting(u)'
    BY <1>2, <1>4, <1>5, OthersSetting
<1>6. NothingIsLost'
    BY <1>1, <1>5, NotLost DEF Lossless, Growing
<1> QED
    BY <1>3, <1>6 DEF Lossless

LEMMA LosslessAlways == Spec => []Lossless
<1>1. Init => Lossless
  <2> SUFFICES ASSUME Init PROVE Lossless
      OBVIOUS
  <2>1. \A t \in Thread : DOMAIN stack[t] = {}
      BY DEF Init
  <2> QED
      BY <2>1 DEF Init, Lossless, SetupLinked, NothingIsLost
<1>2. IInv /\ Lossless /\ [Next]_vars => Lossless'
  <2> SUFFICES ASSUME IInv, Lossless, [Next]_vars
               PROVE  Lossless'
      OBVIOUS
  <2>1. CASE UNCHANGED vars
      BY <2>1 DEF vars, registry, history, Lossless, SetupLinked, SetupOK, NothingIsLost
  <2>2. ASSUME NEW t \in Thread, Step(t) PROVE Lossless'
      BY <2>2, ResolveLossless, RegisterLossless, PropagateLossless, RefuseLossless DEF Step
  <2>3. ASSUME NEW t \in Thread, NEW s \in Service, Get(t, s) PROVE Lossless'
      BY <2>3, GetLossless
  <2> QED
      BY <2>1, <2>2, <2>3 DEF Next
<1> QED
    BY <1>1, <1>2, Invariance, PTL DEF Spec

(* What can be registered on demand, lazily or by a function that uses     *)
(* nothing that can fail, is not lost on the way to its registration,      *)
(* though it is taken out first (DIContainer._register_on_demand).         *)
THEOREM NothingLost == Spec => []NothingIsLost
<1>1. Lossless => NothingIsLost
    BY DEF Lossless
<1> QED
    BY <1>1, LosslessAlways, PTL

-----------------------------------------------------------------------------
WaitsForResolver(t)  == At(t, {"resolve", "again"}) /\ ~ResolverFree(t)
WaitsForContainer(t) == At(t, {"registering"}) /\ ~ContainerFree(t)
Waits(t) == WaitsForResolver(t) \/ WaitsForContainer(t)

(* A service whose registration function asks for others is registered by  *)
(* the start of the program (services.py: the buses), so that the function *)
(* is not run by a thread that may hold the resolver's lock.               *)
LocksInOrder == \A s \in OnDemand : Registered[s] = "none" => Uses[s] = <<>>

(* As long as somebody asks for something, somebody need not wait.         *)
SomebodyGoesOn ==
    (\E t \in Thread : stack[t] # <<>>) => \E t \in Thread : stack[t] # <<>> /\ ~Waits(t)

(* A registration function that runs asks for nothing: it is the innermost *)
(* call.                                                                   *)
LEMMA SetupOnTop ==
    ASSUME IInv, SetupLinked, NEW t \in Thread, HoldsContainer(t),
           LocksInOrder
    PROVE  stack[t] # <<>> /\ Top(t).at = "setup"
<1> DEFINE n == Len(stack[t])
<1>1. PICK k \in DOMAIN stack[t] : stack[t][k].at = "setup"
    BY DEF HoldsContainer
<1>2. stack[t] # <<>>
    BY <1>1
<1>3. n \in Nat \ {0} /\ DOMAIN stack[t] = 1 .. n /\ Top(t) = stack[t][n]
    BY <1>2, TopLemma DEF IInv, Top
<1> HIDE DEF n
<1>4. stack[t][k].of \in OnDemand /\ Registered[stack[t][k].of] = "none"
    BY <1>1 DEF IInv, CallsOK, CallOK
<1>5. k + 1 \notin DOMAIN stack[t]
    BY <1>1, <1>4 DEF SetupLinked, SetupOK, UsedBy, LocksInOrder
<1>6. k = n
    BY <1>1, <1>3, <1>5
<1> QED
    BY <1>1, <1>2, <1>3, <1>6

(* Whoever runs a registration function waits for nothing; if nobody does, *)
(* whoever holds the resolver's lock waits for nothing.                    *)
LEMMA HolderGoesOn ==
    ASSUME IInv, SetupLinked, LocksInOrder, NEW t \in Thread,
           HoldsResolver(t) \/ HoldsContainer(t)
    PROVE  SomebodyGoesOn
<1>1. ASSUME NEW u \in Thread, HoldsContainer(u)
      PROVE  stack[u] # <<>> /\ ~Waits(u)
  <2>1. stack[u] # <<>> /\ Top(u).at = "setup"
      BY <1>1, SetupOnTop
  <2> QED
      BY <2>1 DEF Waits, WaitsForResolver, WaitsForContainer, At
<1>2. CASE \E u \in Thread : HoldsContainer(u)
    BY <1>1, <1>2 DEF SomebodyGoesOn
<1>3. CASE ~ \E u \in Thread : HoldsContainer(u)
  <2>1. HoldsResolver(t) /\ ContainerFree(t)
      BY <1>3 DEF ContainerFree
  <2>2. ResolverFree(t)
      BY <2>1 DEF IInv, Exclusive, ResolverFree
  <2>3. stack[t] # <<>>
      BY <2>1 DEF HoldsResolver
  <2>4. ~Waits(t)
      BY <2>1, <2>2 DEF Waits, WaitsForResolver, WaitsForContainer
  <2> QED
      BY <2>3, <2>4 DEF SomebodyGoesOn
<1> QED
    BY <1>2, <1>3

(* No two threads wait for each other: when the functions that ask for     *)
(* services are those of registered ones, then as long as threads are in   *)
(* calls of the container, one of them has no lock to wait for, whatever   *)
(* raises (DIContainer.get, _register_on_demand,                           *)
(* DependencyResolver.resolve).                                            *)
THEOREM NobodyWaitsInACircle ==
    ASSUME LocksInOrder
    PROVE  Spec => []SomebodyGoesOn
<1>1. IInv /\ Lossless => SomebodyGoesOn
  <2> SUFFICES ASSUME IInv, SetupLinked, NEW t \in Thread, stack[t] # <<>>, Waits(t)
               PROVE  SomebodyGoesOn
      BY DEF Lossless, SomebodyGoesOn
  <2>1. \E u \in Thread : HoldsResolver(u) \/ HoldsContainer(u)
      BY DEF Waits, WaitsForResolver, WaitsForContainer, ResolverFree, ContainerFree
  <2> QED
      BY <2>1, HolderGoesOn
<1> QED
    BY <1>1, Invariance, LosslessAlways, PTL

=============================================================================
