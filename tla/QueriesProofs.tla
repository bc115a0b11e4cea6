----------------------------- MODULE QueriesProofs -----------------------------
(***************************************************************************)
(* What all_pids, child_pids, parent_pid, cmd, env, cwd and exe promise,    *)
(* for any number of processes that fork, run other programs, change their  *)
(* directory, end and are reaped while a query goes on.                    *)
(***************************************************************************)
EXTENDS MCQueries, FiniteSetTheorems, WellFoundedInduction, TLAPS

-------------------------------------------------------------------------------
(***************************************************************************)
(* Sequences that list a set.                                              *)
(***************************************************************************)
Once(s) == \A i, j \in DOMAIN s : s[i] = s[j] => i = j

LEMMA ListingLists ==
  ASSUME NEW S, IsFiniteSet(S)
  PROVE  Listing(S) \in Seq(S) /\ ToSet(Listing(S)) = S /\ Once(Listing(S))
<1>1. PICK n \in Nat : n = Cardinality(S) BY FS_CardinalityType
<1>2. PICK f \in [1..n -> S] : IsInjective(f)
  BY <1>1, FS_CardinalityType, Zenon DEF ExistsBijection, Bijection, Injection
<1>3. Listing(S) \in [1..n -> S] /\ IsInjective(Listing(S))
  BY <1>1, <1>2, Zenon DEF Listing, SetToSeq
<1>4. IsFiniteSet(1..n) /\ Cardinality(1..n) = n BY FS_Interval
<1>5. Listing(S) \in Injection(1..n, S) BY <1>3, Zenon DEF Injection
<1>6. Listing(S) \in Surjection(1..n, S) BY <1>1, <1>4, <1>5, FS_Injection
<1>7. ToSet(Listing(S)) = S BY <1>3, <1>6 DEF Surjection, ToSet
<1>8. Listing(S) \in Seq(S) BY <1>3
<1>9. Once(Listing(S)) BY <1>3, Zenon DEF IsInjective, Once
<1> QED BY <1>7, <1>8, <1>9

LEMMA ReverseLists ==
  ASSUME NEW T, NEW s \in Seq(T), Once(s)
  PROVE  Reverse(s) \in Seq(T) /\ ToSet(Reverse(s)) = ToSet(s) /\ Once(Reverse(s))
<1>1. Len(s) \in Nat /\ DOMAIN s = 1..Len(s) OBVIOUS
<1>2. \A i \in 1..Len(s) : Len(s) - i + 1 \in 1..Len(s) BY <1>1
<1>3. Reverse(s) \in Seq(T) BY <1>1, <1>2 DEF Reverse
<1>4. DOMAIN Reverse(s) = 1..Len(s) /\ \A i \in 1..Len(s) : Reverse(s)[i] = s[Len(s) - i + 1]
  BY <1>1 DEF Reverse
<1>5. Once(Reverse(s))
  <2> SUFFICES ASSUME NEW i \in 1..Len(s), NEW j \in 1..Len(s), Reverse(s)[i] = Reverse(s)[j]
               PROVE  i = j
    BY <1>4 DEF Once
  <2>1. s[Len(s) - i + 1] = s[Len(s) - j + 1] BY <1>4
  <2>2. Len(s) - i + 1 = Len(s) - j + 1 BY <2>1, <1>1, <1>2 DEF Once
  <2> QED BY <2>2, <1>1
<1>6. ASSUME NEW x \in ToSet(s) PROVE x \in ToSet(Reverse(s))
  <2>1. PICK i \in 1..Len(s) : x = s[i] BY <1>1, <1>6 DEF ToSet
  <2>2. Len(s) - (Len(s) - i + 1) + 1 = i BY <1>1
  <2>3. Reverse(s)[Len(s) - i + 1] = x BY <2>1, <2>2, <1>2, <1>4
  <2> QED BY <2>3, <1>2, <1>4 DEF ToSet
<1>7. ASSUME NEW x \in ToSet(Reverse(s)) PROVE x \in ToSet(s)
  BY <1>1, <1>2, <1>4, <1>7 DEF ToSet
<1> QED BY <1>3, <1>5, <1>6, <1>7

LEMMA OneMore ==
  ASSUME NEW T, NEW s \in Seq(T), Once(s), NEW x \in T, x \notin ToSet(s)
  PROVE  /\ s \o <<x>> \in Seq(T) /\ ToSet(s \o <<x>>) = ToSet(s) \cup {x} /\ Once(s \o <<x>>)
         /\ <<x>> \o s \in Seq(T) /\ ToSet(<<x>> \o s) = ToSet(s) \cup {x} /\ Once(<<x>> \o s)
<1> DEFINE n == Len(s)
           a == s \o <<x>>
           b == <<x>> \o s
<1>1. n \in Nat /\ DOMAIN s = 1..n OBVIOUS
<1>2. /\ a \in Seq(T) /\ DOMAIN a = 1..(n + 1) /\ a[n + 1] = x
      /\ \A i \in 1..n : a[i] = s[i]
  OBVIOUS
<1>3. /\ b \in Seq(T) /\ DOMAIN b = 1..(n + 1) /\ b[1] = x
      /\ \A i \in 1..n : b[i + 1] = s[i]
  OBVIOUS
<1>4. \A i \in 1..n : s[i] # x BY <1>1 DEF ToSet
<1>5. \A i \in 2..(n + 1) : i - 1 \in 1..n /\ b[i] = s[i - 1]
  BY <1>1, <1>3
<1> HIDE DEF n, a, b
<1>6. Once(a)
  <2> SUFFICES ASSUME NEW i \in 1..(n + 1), NEW j \in 1..(n + 1), a[i] = a[j] PROVE i = j
    BY <1>2 DEF Once
  <2>1. CASE i \in 1..n /\ j \in 1..n BY <2>1, <1>1, <1>2 DEF Once
  <2>2. CASE i = n + 1 \/ j = n + 1 BY <2>2, <1>1, <1>2, <1>4
  <2> QED BY <2>1, <2>2, <1>1
<1>7. Once(b)
  <2> SUFFICES ASSUME NEW i \in 1..(n + 1), NEW j \in 1..(n + 1), b[i] = b[j] PROVE i = j
    BY <1>3 DEF Once
  <2>1. CASE i \in 2..(n + 1) /\ j \in 2..(n + 1)
    <3>1. i - 1 \in DOMAIN s /\ j - 1 \in DOMAIN s /\ s[i - 1] = s[j - 1] BY <2>1, <1>1, <1>5
    <3>2. i - 1 = j - 1 BY <3>1 DEF Once
    <3> QED BY <3>2
  <2>2. CASE i = 1 \/ j = 1 BY <2>2, <1>1, <1>3, <1>4, <1>5
  <2> QED BY <2>1, <2>2, <1>1
<1>8. ToSet(a) = ToSet(s) \cup {x} BY <1>1, <1>2 DEF ToSet
<1>9. ToSet(b) = ToSet(s) \cup {x}
  <2>1. ASSUME NEW i \in 1..(n + 1) PROVE b[i] = x \/ \E j \in 1..n : b[i] = s[j]
    <3>1. CASE i = 1 BY <3>1, <1>3
    <3>2. CASE i # 1
      <4>1. i \in 2..(n + 1) BY <3>2, <1>1
      <4> QED BY <4>1, <1>5
    <3> QED BY <3>1, <3>2
  <2>2. \A j \in 1..n : j + 1 \in 1..(n + 1) /\ s[j] = b[j + 1] BY <1>1, <1>3
  <2>3. 1 \in 1..(n + 1) BY <1>1
  <2>4. ASSUME NEW y \in ToSet(b) PROVE y \in ToSet(s) \cup {x}
    <3>1. PICK i \in 1..(n + 1) : y = b[i] BY <1>3, <2>4 DEF ToSet
    <3> QED BY <3>1, <2>1, <1>1 DEF ToSet
  <2>5. ASSUME NEW y \in ToSet(s) PROVE y \in ToSet(b)
    <3>1. PICK j \in 1..n : y = s[j] BY <1>1, <2>5 DEF ToSet
    <3> QED BY <3>1, <2>2, <1>3 DEF ToSet
  <2>6. x \in ToSet(b) BY <2>3, <1>3 DEF ToSet
  <2> QED BY <2>4, <2>5, <2>6
<1> QED BY <1>2, <1>3, <1>6, <1>7, <1>8, <1>9 DEF a, b

LEMMA OneLess ==
  ASSUME NEW T, NEW s \in Seq(T), Once(s), s # <<>>
  PROVE  /\ Head(s) \in T /\ Tail(s) \in Seq(T) /\ Once(Tail(s))
         /\ ToSet(s) = {Head(s)} \cup ToSet(Tail(s)) /\ Head(s) \notin ToSet(Tail(s))
<1> DEFINE n == Len(s)
           t == Tail(s)
<1>1. n \in Nat /\ n >= 1 /\ DOMAIN s = 1..n /\ Head(s) = s[1] /\ s[1] \in T OBVIOUS
<1>2. t \in Seq(T) /\ DOMAIN t = 1..(n - 1) /\ \A i \in 1..(n - 1) : t[i] = s[i + 1]
  OBVIOUS
<1>3. \A i \in 2..n : i - 1 \in 1..(n - 1) /\ s[i] = t[i - 1] BY <1>1, <1>2
<1> HIDE DEF n, t
<1>4. Once(t)
  <2> SUFFICES ASSUME NEW i \in 1..(n - 1), NEW j \in 1..(n - 1), t[i] = t[j] PROVE i = j
    BY <1>2 DEF Once
  <2>1. i + 1 \in DOMAIN s /\ j + 1 \in DOMAIN s /\ s[i + 1] = s[j + 1] BY <1>1, <1>2
  <2>2. i + 1 = j + 1 BY <2>1 DEF Once
  <2> QED BY <2>2
<1>5. s[1] \notin ToSet(t)
  <2> SUFFICES ASSUME NEW i \in 1..(n - 1), t[i] = s[1] PROVE FALSE
    BY <1>2 DEF ToSet
  <2>1. i + 1 \in DOMAIN s /\ 1 \in DOMAIN s /\ s[i + 1] = s[1] BY <1>1, <1>2
  <2>2. i + 1 = 1 BY <2>1 DEF Once
  <2> QED BY <2>2
<1>6. ToSet(s) = {s[1]} \cup ToSet(t)
  <2>1. ASSUME NEW i \in 1..n PROVE s[i] = s[1] \/ \E j \in 1..(n - 1) : s[i] = t[j]
    <3>1. CASE i = 1 BY <3>1
    <3>2. CASE i # 1
      <4>1. i \in 2..n BY <3>2, <1>1
      <4> QED BY <4>1, <1>3
    <3> QED BY <3>1, <3>2
  <2>2. \A j \in 1..(n - 1) : j + 1 \in 1..n /\ t[j] = s[j + 1] BY <1>1, <1>2
  <2>3. 1 \in 1..n BY <1>1
  <2>4. ASSUME NEW y \in ToSet(s) PROVE y \in {s[1]} \cup ToSet(t)
    <3>1. PICK i \in 1..n : y = s[i] BY <1>1, <2>4 DEF ToSet
    <3> QED BY <3>1, <2>1, <1>2 DEF ToSet
  <2>5. ASSUME NEW y \in ToSet(t) PROVE y \in ToSet(s)
    <3>1. PICK j \in 1..(n - 1) : y = t[j] BY <1>2, <2>5 DEF ToSet
    <3> QED BY <3>1, <2>2, <1>1 DEF ToSet
  <2>6. s[1] \in ToSet(s) BY <2>3, <1>1 DEF ToSet
  <2> QED BY <2>4, <2>5, <2>6
<1> QED BY <1>1, <1>2, <1>4, <1>5, <1>6 DEF t

LEMMA LowestIsLeast ==
  ASSUME NEW S, S \subseteq Nat, S # {}
  PROVE  Lowest(S) \in S /\ \A q \in S : Lowest(S) <= q
<1>1. \E p \in S : \A q \in S : ~ (<<q, p>> \in OpToRel(<, Nat))
  BY NatLessThanWellFounded, WFMin
<1>2. PICK p \in S : \A q \in S : ~ (<<q, p>> \in OpToRel(<, Nat)) BY <1>1
<1>3. \A q \in S : ~ (q < p) BY <1>2 DEF OpToRel
<1>4. \A q \in S : p <= q BY <1>3
<1> QED BY <1>4, Zenon DEF Lowest

-------------------------------------------------------------------------------
(***************************************************************************)
(* The inductive invariant.  HistoryOk: while a query runs, certain is true *)
(* now and what is true now is possible.  WalkOk: a walk over the processes *)
(* has passed everybody up to its cursor.  NextOk: child_pids of Linux has  *)
(* every certain child still before it, or in its answer, or could not read *)
(* it.  ReadOk: the file that is open is that of the process at hand; if    *)
(* its pid is another's by now, it was free at some moment of the call, and *)
(* so is no certain child's and has no parent for sure.                    *)
(***************************************************************************)
PidOps == {"all", "children", "parent"}
Process == [state: {"none", "alive", "zombie"}, born: Int, parent: Pids \cup {0}, image: Images \cup {0},
            loaded: Int, cwd: Dirs \cup {<<>>}]
Stages  == {"idle", "begin", "readdir", "next", "read", "list", "walk", "kread", "done"}
Running == pc \notin {"idle", "done"}

ProcsOk == procs \in [Pids -> Process] /\ events \in Int

QueryTypeOk ==
  /\ platform \in Platforms /\ pc \in Stages
  /\ pc # "idle" => call.op \in PidOps /\ call.pid \in Pids
  /\ pc = "idle" => call.op = "none"
  /\ cursor \in Int /\ todo \in Seq(Pids) /\ answer \in Seq(Int)

StartOk == pc \in {"idle", "begin"} => answer = <<>> /\ todo = <<>> /\ cursor = 0 /\ ec = "none" /\ unread = {}

HistoryOk == Running => Truth \subseteq possible /\ certain \subseteq Truth

WalkOk ==
  pc \in {"readdir", "walk", "kread"} =>
    /\ call.op \in {"all", "children"} /\ ec = "none" /\ unread = {}
    /\ answer \in Seq(Pids) /\ Once(answer)
    /\ \A p \in ToSet(answer) : p <= cursor
    /\ \A p \in certain : p <= cursor => p \in ToSet(answer) \/ (pc = "kread" /\ p = held.pid)
    /\ ~(pc = "readdir" /\ call.op = "children") => ToSet(answer) \subseteq possible
    /\ pc = "kread" => held.pid = cursor /\ held.pid \in Pids \ ToSet(answer) /\ held.pid \in possible

NextOk ==
  pc = "next" \/ (pc = "read" /\ call.op = "children") =>
    /\ call.op = "children" /\ answer \in Seq(Pids)
    /\ Once(todo) /\ Once(answer) /\ ToSet(answer) \cap ToSet(todo) = {}
    /\ ToSet(answer) \ unread \subseteq possible
    /\ certain \ unread \subseteq ToSet(todo) \cup ToSet(answer)

ReadOk ==
  pc = "read" =>
    /\ call.op \in {"children", "parent"}
    /\ call.op = "children" => /\ todo # <<>> /\ held.pid = Head(todo)
                               /\ held.pid \in certain => Is(held.pid, held.born)
    /\ call.op = "parent" => /\ held.pid = call.pid /\ ec = "none" /\ unread = {}
                             /\ Is(held.pid, held.born) \/ None \in possible

ListOk == pc = "list" => call.op \in {"all", "children"} /\ ec = "none"

QueryInv == /\ ProcsOk /\ QueryTypeOk /\ StartOk /\ HistoryOk /\ WalkOk /\ NextOk /\ ReadOk /\ ListOk
            /\ ListsTruthful /\ ParentTruthful

LEMMA PidFacts ==
  ASSUME PidsNumbered
  PROVE  /\ \A p \in Pids : p \in Int /\ p > 0 /\ p # 0 /\ p # -1
         /\ \A s \in Seq(Pids) : s \in Seq(Int)
         /\ None \in Int /\ None \notin Pids /\ 0 \notin Pids
<1>1. \A p \in Pids : p \in Nat /\ p # 0 BY DEF PidsNumbered
<1>2. ASSUME NEW p \in Pids PROVE p \in Int /\ p > 0 /\ p # -1
  <2>1. p \in Nat /\ p # 0 BY <1>1
  <2> QED BY <2>1
<1>3. ASSUME NEW s \in Seq(Pids) PROVE s \in Seq(Int)
  <2>1. Len(s) \in Nat /\ s \in [1..Len(s) -> Pids] OBVIOUS
  <2>2. s \in [1..Len(s) -> Int] BY <2>1, <1>2
  <2> QED BY <2>1, <2>2
<1> QED BY <1>1, <1>2, <1>3 DEF None

LEMMA ParentFacts ==
  ASSUME PidsNumbered, ProcsOk, NEW p \in Pids
  PROVE  procs[p].parent \in Pids \cup {0} /\ procs[p].parent \in Int /\ procs[p].parent >= 0
<1>1. procs[p].parent \in Pids \cup {0} BY DEF ProcsOk, Process
<1> QED BY <1>1, PidFacts

LEMMA TruthOfPids ==
  ASSUME ProcsOk, QueryTypeOk, PidsNumbered
  PROVE  /\ call.op = "all" => Truth = Existing
         /\ call.op = "children" => Truth = {p \in Existing : procs[p].parent = call.pid}
         /\ call.op = "parent" => Truth = {IF Exists(call.pid) THEN procs[call.pid].parent ELSE None}
         /\ call.op \in {"all", "children"} => Truth \subseteq Existing /\ Truth = Listed
         /\ Existing \subseteq Pids /\ Listed \subseteq Pids
         /\ call.op \in {"all", "children"} => IsFiniteSet(Truth)
<1>1. call.op = "all" => Truth = Existing BY DEF Truth, Existing
<1>2. call.op = "children" => Truth = {p \in Existing : procs[p].parent = call.pid}
  BY DEF Truth, Existing, ChildrenOf
<1>3. call.op = "parent" => Truth = {IF Exists(call.pid) THEN procs[call.pid].parent ELSE None}
  BY DEF Truth
<1>4. call.op = "all" => Truth = Listed BY DEF Truth, Listed, Asked
<1>5. call.op = "children" => Truth = Listed BY DEF Truth, Listed, Asked, ChildrenOf
<1>6. Existing \subseteq Pids /\ Listed \subseteq Pids BY DEF Existing, Listed
<1>7. call.op \in {"all", "children"} => IsFiniteSet(Truth)
  BY <1>4, <1>5, <1>6, FS_Subset DEF PidsNumbered
<1> QED BY <1>1, <1>2, <1>3, <1>4, <1>5, <1>6, <1>7

\* A step of the query changes nothing about the processes: the history stays as it is.
LEMMA StepKeepsHistory ==
  ASSUME HistoryOk, Running, pc' # "idle", UNCHANGED <<procs, call>>, Remember
  PROVE  possible' = possible /\ certain' = certain /\ Truth' = Truth
<1>1. Truth' = Truth BY DEF Truth, Exists, ChildrenOf
<1>2. possible' = possible \cup Truth /\ certain' = certain \cap Truth
  BY <1>1 DEF Remember, Running
<1> QED BY <1>1, <1>2 DEF HistoryOk

LEMMA OthersKeepHistory ==
  ASSUME HistoryOk, UNCHANGED query, Remember
  PROVE  /\ Running => Truth' \subseteq possible' /\ certain' \subseteq Truth'
         /\ Running => possible \subseteq possible' /\ certain' \subseteq certain
         /\ pc = "done" => possible' = possible /\ certain' = certain
<1>1. pc' = pc BY DEF query
<1>2. Running => possible' = possible \cup Truth' /\ certain' = certain \cap Truth'
  BY <1>1 DEF Remember, Running
<1>3. pc = "done" => possible' = possible /\ certain' = certain
  BY <1>1 DEF Remember
<1> QED BY <1>2, <1>3

LEMMA ProcessFields ==
  ASSUME NEW x \in Process
  PROVE  /\ \A i \in Images, n \in Int : /\ [x EXCEPT !.image = i, !.loaded = n] \in Process
                                       /\ [x EXCEPT !.image = i, !.loaded = n].born = x.born
         /\ \A q \in Pids, n \in Int : /\ [x EXCEPT !.parent = q, !.born = n] \in Process
                                     /\ [x EXCEPT !.parent = q, !.born = n].state = x.state
<1>1. ASSUME NEW i \in Images, NEW n \in Int
      PROVE  /\ [x EXCEPT !.image = i, !.loaded = n] \in Process
             /\ [x EXCEPT !.image = i, !.loaded = n].born = x.born
  <2>1. [x EXCEPT !.image = i, !.loaded = n] = [[x EXCEPT !.image = i] EXCEPT !.loaded = n] BY DEF Process
  <2>2. [x EXCEPT !.image = i] \in Process /\ [x EXCEPT !.image = i].born = x.born BY DEF Process
  <2>3. \A y \in Process : [y EXCEPT !.loaded = n] \in Process /\ [y EXCEPT !.loaded = n].born = y.born
    BY DEF Process
  <2> QED BY <2>1, <2>2, <2>3
<1>2. ASSUME NEW q \in Pids, NEW n \in Int
      PROVE  /\ [x EXCEPT !.parent = q, !.born = n] \in Process
             /\ [x EXCEPT !.parent = q, !.born = n].state = x.state
  <2>1. [x EXCEPT !.parent = q, !.born = n] = [[x EXCEPT !.parent = q] EXCEPT !.born = n] BY DEF Process
  <2>2. [x EXCEPT !.parent = q] \in Process /\ [x EXCEPT !.parent = q].state = x.state BY DEF Process
  <2>3. \A y \in Process : [y EXCEPT !.born = n] \in Process /\ [y EXCEPT !.born = n].state = y.state
    BY DEF Process
  <2> QED BY <2>1, <2>2, <2>3
<1> QED BY <1>1, <1>2

\* A process is born only where there is none.
LEMMA Incarnations ==
  ASSUME ProcsOk, PidsNumbered, ProcessStep(platform = "windows")
  PROVE  /\ ProcsOk'
         /\ \A p \in Pids : Exists(p) /\ Exists(p)' => procs'[p].born = procs[p].born
<1> USE DEF PidsNumbered
<1>1. events' = events + 1 /\ events' \in Int BY DEF ProcsOk, ProcessStep
<1>2. nobody \in Process BY DEF nobody, Process
<1>3. ASSUME NEW p \in Pids, NEW r \in Process, Becomes(p, r),
             Exists(p) /\ r.state # "none" => r.born = procs[p].born
      PROVE  /\ ProcsOk'
             /\ \A q \in Pids : Exists(q) /\ Exists(q)' => procs'[q].born = procs[q].born
  BY <1>1, <1>3 DEF ProcsOk, Becomes, Exists
<1>4. ASSUME NEW p \in Pids, NEW q \in Pids, Fork(p, q)
      PROVE  /\ ProcsOk'
             /\ \A r \in Pids : Exists(r) /\ Exists(r)' => procs'[r].born = procs[r].born
  <2> DEFINE r == [procs[p] EXCEPT !.parent = p, !.born = events + 1]
  <2>1. r \in Process /\ r.state = procs[p].state
    <3>1. procs[p] \in Process /\ events + 1 \in Int BY DEF ProcsOk
    <3>2. \A n \in Int : /\ [procs[p] EXCEPT !.parent = p, !.born = n] \in Process
                         /\ [procs[p] EXCEPT !.parent = p, !.born = n].state = procs[p].state
      BY <3>1, ProcessFields, Zenon
    <3> QED BY <3>1, <3>2, Zenon
  <2>2. Becomes(q, r) /\ ~Exists(q) BY <1>4 DEF Fork
  <2> QED BY <2>1, <2>2, <1>3
<1>5. ASSUME NEW p \in Pids, Exit(p)
      PROVE  /\ ProcsOk'
             /\ \A r \in Pids : Exists(r) /\ Exists(r)' => procs'[r].born = procs[r].born
  <2>1. \A q \in Pids : /\ [procs[p] EXCEPT !.state = "zombie"] \in Process
                        /\ [procs[p] EXCEPT !.state = "zombie"].born = procs[p].born
                        /\ [procs[q] EXCEPT !.parent = 1] \in Process
                        /\ [procs[q] EXCEPT !.parent = 1].born = procs[q].born
                        /\ procs[q] \in Process
    BY DEF ProcsOk, Process
  <2>2. /\ procs' \in [Pids -> Process]
        /\ \A q \in Pids : procs'[q].born = procs[q].born
    BY <1>5, <2>1 DEF Exit
  <2> QED BY <1>1, <2>2 DEF ProcsOk
<1>6. ASSUME NEW p \in Pids, Reap(p) \/ Vanish(p)
      PROVE  /\ ProcsOk'
             /\ \A r \in Pids : Exists(r) /\ Exists(r)' => procs'[r].born = procs[r].born
  <2>1. Becomes(p, nobody) /\ nobody.state = "none" BY <1>6 DEF Reap, Vanish, nobody
  <2> QED BY <2>1, <1>2, <1>3
<1>7. ASSUME NEW p \in Pids, NEW i \in Images, Exec(p, i)
      PROVE  /\ ProcsOk'
             /\ \A r \in Pids : Exists(r) /\ Exists(r)' => procs'[r].born = procs[r].born
  <2> DEFINE r == [procs[p] EXCEPT !.image = i, !.loaded = events + 1]
  <2>1. r \in Process /\ r.born = procs[p].born
    <3>1. procs[p] \in Process /\ events + 1 \in Int BY DEF ProcsOk
    <3> QED BY <3>1, ProcessFields, Zenon
  <2>2. Becomes(p, r) BY <1>7 DEF Exec
  <2> QED BY <2>1, <2>2, <1>3
<1>8. ASSUME NEW p \in Pids, NEW d \in Dirs, ChDir(p, d)
      PROVE  /\ ProcsOk'
             /\ \A r \in Pids : Exists(r) /\ Exists(r)' => procs'[r].born = procs[r].born
  <2> DEFINE r == [procs[p] EXCEPT !.cwd = d]
  <2>1. r \in Process /\ r.born = procs[p].born BY DEF ProcsOk, Process
  <2>2. Becomes(p, r) BY <1>8 DEF ChDir
  <2> QED BY <2>1, <2>2, <1>3
<1> QED BY <1>4, <1>5, <1>6, <1>7, <1>8 DEF ProcessStep

-------------------------------------------------------------------------------
LEMMA OthersStep ==
  ASSUME QueryInv, PidsNumbered, Others, Remember
  PROVE  QueryInv'
<1>1. UNCHANGED query BY DEF Others
<1>2. ProcsOk' /\ \A p \in Pids : Exists(p) /\ Exists(p)' => procs'[p].born = procs[p].born
  BY Incarnations DEF Others, QueryInv
<1>3. /\ Running => Truth' \subseteq possible' /\ certain' \subseteq Truth'
      /\ Running => possible \subseteq possible' /\ certain' \subseteq certain
      /\ pc = "done" => possible' = possible /\ certain' = certain
  BY <1>1, OthersKeepHistory DEF QueryInv
<1>4. QueryTypeOk' BY <1>1 DEF QueryInv, QueryTypeOk, query
<1>5. StartOk' BY <1>1 DEF QueryInv, StartOk, query
<1>6. HistoryOk' BY <1>1, <1>3 DEF HistoryOk, Running, query
<1>7. WalkOk'
  <2> SUFFICES ASSUME pc' \in {"readdir", "walk", "kread"} PROVE WalkOk' BY DEF WalkOk
  <2>1. WalkOk /\ Running BY <1>1 DEF QueryInv, query, Running
  <2> QED BY <2>1, <1>1, <1>3 DEF WalkOk, query, Once
<1>8. NextOk'
  <2> SUFFICES ASSUME pc' = "next" \/ (pc' = "read" /\ call'.op = "children") PROVE NextOk' BY DEF NextOk
  <2>1. NextOk /\ Running BY <1>1 DEF QueryInv, query, Running
  <2> QED BY <2>1, <1>1, <1>3 DEF NextOk, query, Once
<1>9. ReadOk'
  <2> SUFFICES ASSUME pc' = "read" PROVE ReadOk' BY DEF ReadOk
  <2>1. ReadOk /\ Running /\ call.pid \in Pids /\ call' = call /\ held' = held /\ todo \in Seq(Pids)
    BY <1>1 DEF QueryInv, QueryTypeOk, query, Running
  <2>2. CASE call.op = "children"
    <3>1. held.pid \in Pids BY <2>1, <2>2, <1>1 DEF ReadOk, query
    <3>2. Truth' \subseteq {p \in Pids : Exists(p)'}
      BY <1>2, <1>4, <2>2, <1>1, <2>1 DEF Truth, ChildrenOf
    <3>3. held.pid \in certain' => Exists(held.pid)'
      BY <3>2, <1>3, <2>1
    <3>4. held.pid \in certain => Is(held.pid, held.born) BY <2>1, <2>2, <1>1 DEF ReadOk, query
    <3>5. held.pid \in certain' => Is(held.pid, held.born)'
      BY <3>1, <3>3, <3>4, <1>2, <1>3, <2>1 DEF Is
    <3> QED BY <3>5, <2>1, <2>2, <1>1 DEF ReadOk, query
  <2>3. CASE call.op = "parent"
    <3>1. Is(held.pid, held.born) \/ None \in possible BY <2>1, <2>3, <1>1 DEF ReadOk, query
    <3>2. held.pid = call.pid BY <2>1, <2>3, <1>1 DEF ReadOk, query
    <3>3. ~Exists(held.pid)' => None \in possible'
      <4>1. Truth' = {IF procs'[call.pid].state # "none" THEN procs'[call.pid].parent ELSE None}
        BY <2>1, <2>3 DEF Truth, Exists
      <4>2. ~Exists(held.pid)' => procs'[call.pid].state = "none" BY <3>2, <2>1 DEF Exists
      <4> QED BY <4>1, <4>2, <1>3, <2>1
    <3>4. Is(held.pid, held.born)' \/ None \in possible'
      BY <3>1, <3>2, <3>3, <1>2, <1>3, <2>1 DEF Is
    <3> QED BY <3>4, <3>2, <2>1, <2>3, <1>1 DEF ReadOk, query
  <2> QED BY <2>1, <2>2, <2>3, <1>1 DEF ReadOk, query
<1>10. ListOk' BY <1>1 DEF QueryInv, ListOk, query
<1>11. ListsTruthful' /\ ParentTruthful'
  BY <1>1, <1>3 DEF QueryInv, ListsTruthful, ParentTruthful, Done, Pidded, Filled, query
<1> QED BY <1>2, <1>4, <1>5, <1>6, <1>7, <1>8, <1>9, <1>10, <1>11 DEF QueryInv

-------------------------------------------------------------------------------
LEMMA StartStep ==
  ASSUME QueryInv, PidsNumbered, Start, Remember
  PROVE  QueryInv'
<1>1. /\ pc = "idle" /\ pc' = "begin" /\ UNCHANGED <<platform, procs, events>>
      /\ UNCHANGED <<cursor, todo, held, answer, ec, unread>>
      /\ call'.op \in PidOps /\ call'.pid \in Pids
  BY DEF Start, PidOps
<1>2. possible' = Truth' /\ certain' = Truth' BY <1>1 DEF Remember
<1>3. ProcsOk' BY <1>1 DEF QueryInv, ProcsOk
<1>4. QueryTypeOk' BY <1>1 DEF QueryInv, QueryTypeOk, Stages
<1>5. StartOk' BY <1>1 DEF QueryInv, StartOk
<1>6. HistoryOk' BY <1>2 DEF HistoryOk
<1> QED BY <1>1, <1>3, <1>4, <1>5, <1>6
        DEF QueryInv, WalkOk, NextOk, ReadOk, ListOk, ListsTruthful, ParentTruthful, Done

LEMMA ReturnStep ==
  ASSUME QueryInv, PidsNumbered, Return, Remember
  PROVE  QueryInv'
<1>1. /\ pc' = "idle" /\ UNCHANGED <<platform, procs, events>> /\ call'.op = "none"
      /\ cursor' = 0 /\ todo' = <<>> /\ answer' = <<>> /\ ec' = "none" /\ unread' = {}
  BY DEF Return
<1>3. ProcsOk' BY <1>1 DEF QueryInv, ProcsOk
<1>4. QueryTypeOk' BY <1>1 DEF QueryInv, QueryTypeOk, Stages
<1>5. StartOk' BY <1>1 DEF StartOk
<1> QED BY <1>1, <1>3, <1>4, <1>5
        DEF QueryInv, HistoryOk, Running, WalkOk, NextOk, ReadOk, ListOk, ListsTruthful, ParentTruthful, Done

\* The last step of a query: what its answer must satisfy.
LEMMA Finishes ==
  ASSUME QueryInv, PidsNumbered, Running, Remember, Goto("done"),
         answer' \in Seq(Int), todo' \in Seq(Pids), cursor' \in Int,
         call.op \in {"all", "children"} =>
           /\ \A p \in ToSet(answer') \ unread' : p # 0 => p \in possible
           /\ \A i, j \in DOMAIN answer' : answer'[i] = answer'[j] /\ answer'[i] # 0 => i = j
           /\ ec' = "none" /\ ~Filled' => certain \ unread' \subseteq ToSet(answer'),
         call.op = "parent" =>
           /\ ec' = "none" /\ unread' = {} => ToSet(answer') \subseteq possible
           /\ ec' = "ESRCH" => None \in possible
  PROVE  QueryInv'
<1>1. pc' = "done" /\ UNCHANGED <<platform, call, procs, events>> BY DEF Goto
<1>2. possible' = possible /\ certain' = certain
  BY <1>1, StepKeepsHistory DEF QueryInv
<1>3. ProcsOk' BY <1>1 DEF QueryInv, ProcsOk
<1>4. QueryTypeOk' BY <1>1 DEF QueryInv, QueryTypeOk, Stages, Running
<1>5. ListsTruthful'
  <2> SUFFICES ASSUME call.op \in {"all", "children"} PROVE ListsTruthful'
    BY <1>1 DEF ListsTruthful, Done
  <2>1. certain \subseteq Pids /\ 0 \notin Pids
    BY TruthOfPids DEF QueryInv, HistoryOk, PidsNumbered
  <2>2. Pidded' \ unread' \subseteq possible BY DEF Pidded
  <2>3. ec' = "none" /\ ~Filled' => certain \ unread' \subseteq Pidded'
    BY <2>1 DEF Pidded
  <2> QED BY <1>1, <1>2, <2>2, <2>3 DEF ListsTruthful, Done
<1>6. ParentTruthful' BY <1>1, <1>2 DEF ParentTruthful, Done
<1> QED BY <1>1, <1>3, <1>4, <1>5, <1>6
        DEF QueryInv, StartOk, HistoryOk, Running, WalkOk, NextOk, ReadOk, ListOk

\* An answer that lists one snapshot.
LEMMA ReturnsSnapshot ==
  ASSUME QueryInv, PidsNumbered, Running, Remember, Goto("done"),
         call.op \in {"all", "children"}, todo' \in Seq(Pids), cursor' \in Int,
         answer' \in Seq(Pids), ToSet(answer') = Listed, Once(answer')
  PROVE  QueryInv'
<1>1. Listed = Truth /\ Listed \subseteq Pids BY TruthOfPids DEF QueryInv
<1>2. Listed \subseteq possible /\ certain \subseteq Listed BY <1>1 DEF QueryInv, HistoryOk
<1>3. answer' \in Seq(Int) BY PidFacts
<1>4. \A i, j \in DOMAIN answer' : answer'[i] = answer'[j] => i = j BY DEF Once
<1> QED BY <1>2, <1>3, <1>4, Finishes

LEMMA BeginsClean ==
  ASSUME QueryInv, pc = "begin"
  PROVE  /\ answer = <<>> /\ todo = <<>> /\ cursor = 0 /\ ec = "none" /\ unread = {} /\ Running
         /\ call.op \in PidOps /\ call.pid \in Pids
BY DEF QueryInv, StartOk, Running, QueryTypeOk

LEMMA SnapshotSteps ==
  ASSUME QueryInv, PidsNumbered, Remember,
         \/ ToolhelpAllPids \/ ToolhelpChildPids \/ KvmAllPids \/ KvmChildPids
         \/ Kvm2AllPids \/ Kvm2ChildPids \/ OpenBsdAllPids \/ OpenBsdChildPids
         \/ DragonFlyAllPids \/ DragonFlyChildPids
  PROVE  QueryInv'
<1>1. pc = "begin" /\ call.op \in {"all", "children"} /\ Goto("done") /\ UNCHANGED <<cursor, todo>>
  BY DEF ToolhelpAllPids, ToolhelpChildPids, KvmAllPids, KvmChildPids, Kvm2AllPids, Kvm2ChildPids,
         OpenBsdAllPids, OpenBsdChildPids, DragonFlyAllPids, DragonFlyChildPids, At, Returns
<1>2. Running /\ todo' \in Seq(Pids) /\ cursor' \in Int
  BY <1>1, BeginsClean DEF QueryInv, QueryTypeOk
<1>3. Listed \subseteq Pids /\ IsFiniteSet(Listed) BY <1>1, TruthOfPids DEF QueryInv
<1>4. /\ Listing(Listed) \in Seq(Listed) /\ ToSet(Listing(Listed)) = Listed /\ Once(Listing(Listed))
  BY <1>3, ListingLists
<1>5. Listing(Listed) \in Seq(Pids) BY <1>3, <1>4
<1>6. /\ Reverse(Listing(Listed)) \in Seq(Pids) /\ ToSet(Reverse(Listing(Listed))) = Listed
      /\ Once(Reverse(Listing(Listed)))
  BY <1>4, <1>5, ReverseLists
<1>7. ASSUME NEW p \in Existing
      PROVE  p >= 0 /\ ParentIn(p) = procs[p].parent /\ procs[p].parent >= 0 /\ p # -1
  <2>1. p \in Pids BY DEF Existing
  <2>2. p \in Int /\ p > 0 /\ p # -1 BY <2>1, PidFacts
  <2>3. procs[p].parent >= 0 BY <2>1, ParentFacts DEF QueryInv
  <2> QED BY <2>2, <2>3 DEF ParentIn
<1>8. call.op = "all" => Listed = Existing BY DEF Listed, Existing, Asked
<1>9. call.op = "children" => Listed = {p \in Existing : procs[p].parent = call.pid}
  BY DEF Listed, Existing, Asked
<1>10. answer' \in {Listing(Listed), Reverse(Listing(Listed))}
  <2>1. CASE DragonFlyAllPids
    <3>1. call.op = "all" /\ {p \in KernelPids : p >= 0} = Listed
      BY <2>1, <1>7, <1>8 DEF DragonFlyAllPids, At, KernelPids
    <3> QED BY <3>1, <2>1 DEF DragonFlyAllPids, Returns
  <2>2. CASE DragonFlyChildPids
    <3>1. call.op = "children" BY <2>2 DEF DragonFlyChildPids, At
    <3>2. {p \in KernelPids : p >= 0 /\ ParentIn(p) >= 0 /\ ParentIn(p) = call.pid} = Listed
      BY <3>1, <1>7, <1>9 DEF KernelPids
    <3> QED BY <3>2, <2>2 DEF DragonFlyChildPids, Returns
  <2>3. CASE OpenBsdAllPids
    <3>1. call.op = "all" /\ {p \in Existing : p >= 0} = Listed
      BY <2>3, <1>7, <1>8 DEF OpenBsdAllPids, At
    <3> QED BY <3>1, <2>3 DEF OpenBsdAllPids, Returns
  <2> QED BY <2>1, <2>2, <2>3
          DEF ToolhelpAllPids, ToolhelpChildPids, KvmAllPids, KvmChildPids, Kvm2AllPids, Kvm2ChildPids,
              OpenBsdChildPids, Returns
<1>11. answer' \in Seq(Pids) /\ ToSet(answer') = Listed /\ Once(answer')
  BY <1>4, <1>5, <1>6, <1>10
<1> QED BY <1>1, <1>2, <1>11, ReturnsSnapshot

LEMMA OneAnswer ==
  ASSUME NEW x
  PROVE  ToSet(<<x>>) = {x} /\ (x \in Int => <<x>> \in Seq(Int))
BY DEF ToSet

LEMMA ParentSteps ==
  ASSUME QueryInv, PidsNumbered, Remember,
         ToolhelpParentPid \/ KvmParentPid \/ BsdParentPid \/ BsdInfo \/ GetProc
  PROVE  QueryInv'
<1>1. pc = "begin" /\ call.op = "parent" /\ Goto("done") /\ UNCHANGED <<cursor, todo>>
  BY DEF ToolhelpParentPid, KvmParentPid, BsdParentPid, BsdInfo, GetProc, At, Returns, FailsEmpty
<1>2. Running /\ todo' \in Seq(Pids) /\ cursor' \in Int /\ call.pid \in Pids /\ ec = "none"
  BY <1>1, BeginsClean DEF QueryInv, QueryTypeOk
<1>3. Truth = {IF Exists(call.pid) THEN procs[call.pid].parent ELSE None} /\ Truth \subseteq possible
  BY <1>1, <1>2, TruthOfPids DEF QueryInv, HistoryOk
<1>4. procs[call.pid].parent \in Int /\ procs[call.pid].parent >= 0 /\ call.pid # -1 /\ None \in Int
  BY <1>2, PidFacts, ParentFacts DEF QueryInv
<1>5. ParentIn(call.pid) = procs[call.pid].parent BY <1>4 DEF ParentIn
<1>6. \/ answer' = <<IF Exists(call.pid) THEN procs[call.pid].parent ELSE None>> /\ ec' = ec
      \/ ~Exists(call.pid) /\ answer' = <<None>> /\ ec' = "ESRCH"
  BY <1>1, <1>4, <1>5 DEF ToolhelpParentPid, KvmParentPid, BsdParentPid, BsdInfo, GetProc, Returns, FailsEmpty, Nothing
<1>7. answer' \in Seq(Int) BY <1>4, <1>6, OneAnswer
<1>8. ec' = "none" => ToSet(answer') \subseteq possible BY <1>3, <1>6, OneAnswer
<1>9. ec' = "ESRCH" => None \in possible BY <1>2, <1>3, <1>6
<1> QED BY <1>1, <1>2, <1>7, <1>8, <1>9, Finishes

LEMMA FailSteps ==
  ASSUME QueryInv, PidsNumbered, Remember, OpenFails \/ ToolhelpFails \/ Unsupported
  PROVE  QueryInv'
<1>1. pc = "begin" /\ Goto("done") /\ UNCHANGED <<cursor, todo>>
  BY DEF OpenFails, ToolhelpFails, Unsupported, FailsEmpty
<1>2. /\ Running /\ todo' \in Seq(Pids) /\ cursor' \in Int /\ call.pid \in Int
      /\ call.op \in PidOps /\ Pids # {}
  <2>1. Running /\ call.op \in PidOps /\ call.pid \in Pids BY <1>1, BeginsClean
  <2>2. todo' \in Seq(Pids) /\ cursor' \in Int BY <1>1 DEF QueryInv, QueryTypeOk
  <2> QED BY <2>1, <2>2, PidFacts
<1>3. call.op # "parent" => answer' = <<>>
  BY DEF OpenFails, ToolhelpFails, Unsupported, FailsEmpty, Nothing
<1>4. answer' \in {<<>>, <<None>>, <<call.pid>>}
  BY DEF OpenFails, ToolhelpFails, Unsupported, FailsEmpty, Nothing
<1>5. answer' \in Seq(Int)
  <2>1. <<None>> \in Seq(Int) /\ <<call.pid>> \in Seq(Int) /\ <<>> \in Seq(Int) BY <1>2, PidFacts
  <2> QED BY <2>1, <1>4
<1>6. ec' \in {"EMFILE", "ENOTSUP"} \/ (ec' = "none" /\ unread' = Pids)
  BY <1>1, BeginsClean DEF OpenFails, ToolhelpFails, Unsupported, FailsEmpty
<1>7. call.op \in {"all", "children"} => certain \subseteq Pids
  BY <1>2, TruthOfPids DEF QueryInv, HistoryOk
<1>8. ToSet(<<>>) = {} /\ DOMAIN <<>> = {} BY DEF ToSet
<1>9. call.op \in {"all", "children"} =>
        /\ \A p \in ToSet(answer') : p # 0 => p \in possible
        /\ \A i, j \in DOMAIN answer' : answer'[i] = answer'[j] /\ answer'[i] # 0 => i = j
        /\ ec' = "none" => certain \ unread' \subseteq ToSet(answer')
  BY <1>3, <1>6, <1>7, <1>8
<1>10. call.op = "parent" => ~(ec' = "none" /\ unread' = {}) /\ ec' # "ESRCH" BY <1>2, <1>6
<1> QED BY <1>1, <1>2, <1>5, <1>9, <1>10, Finishes

-------------------------------------------------------------------------------
\* The walks over all processes.  Those of a certain answer exist, so a walk that is at its end
\* has passed them.
LEMMA LaterIsLeast ==
  ASSUME PidsNumbered, QueryInv, NEW S, S \subseteq Pids, Later(S) # {}
  PROVE  /\ Lowest(Later(S)) \in S /\ Lowest(Later(S)) \in Int /\ Lowest(Later(S)) > cursor
         /\ \A p \in S : p <= Lowest(Later(S)) => p <= cursor \/ p = Lowest(Later(S))
<1>1. Later(S) \subseteq Nat BY DEF PidsNumbered, Later
<1>2. Lowest(Later(S)) \in Later(S) /\ \A q \in Later(S) : Lowest(Later(S)) <= q BY <1>1, LowestIsLeast
<1>3. cursor \in Int BY DEF QueryInv, QueryTypeOk
<1>4. \A p \in S : p \in Int BY PidFacts
<1>5. Lowest(Later(S)) \in S /\ Lowest(Later(S)) > cursor BY <1>2, Zenon DEF Later
<1>6. ASSUME NEW p \in S, p <= Lowest(Later(S)) PROVE p <= cursor \/ p = Lowest(Later(S))
  <2>1. CASE p > cursor
    <3>1. p \in Later(S) BY <2>1 DEF Later
    <3>2. Lowest(Later(S)) <= p BY <1>2, <3>1
    <3> QED BY <3>2, <1>4, <1>5, <1>6
  <2>2. CASE ~(p > cursor) BY <2>2, <1>3, <1>4
  <2> QED BY <2>1, <2>2
<1> QED BY <1>4, <1>5, <1>6

LEMMA BeginsWalk ==
  ASSUME QueryInv, PidsNumbered, pc \in {"begin", "readdir", "walk", "kread"}, call.op # "parent"
  PROVE  /\ Running /\ call.op \in {"all", "children"} /\ ec = "none" /\ unread = {}
         /\ answer \in Seq(Pids) /\ Once(answer) /\ todo \in Seq(Pids) /\ cursor \in Int
         /\ \A p \in ToSet(answer) : p <= cursor
         /\ \A p \in certain : p <= cursor => p \in ToSet(answer) \/ (pc = "kread" /\ p = held.pid)
         /\ ~(pc = "readdir" /\ call.op = "children") => ToSet(answer) \subseteq possible
         /\ certain \subseteq Truth /\ Truth \subseteq possible /\ Truth = Listed
         /\ Listed \subseteq Existing /\ Existing \subseteq Pids
<1>1. Running /\ todo \in Seq(Pids) /\ cursor \in Int /\ call.op \in {"all", "children"}
  BY DEF QueryInv, QueryTypeOk, Running, PidOps
<1>2. certain \subseteq Truth /\ Truth \subseteq possible BY <1>1 DEF QueryInv, HistoryOk
<1>3. Truth = Listed /\ Listed \subseteq Existing /\ Existing \subseteq Pids BY <1>1, TruthOfPids DEF QueryInv
<1>4. CASE pc = "begin"
  <2>1. answer = <<>> /\ cursor = 0 /\ ec = "none" /\ unread = {} BY <1>4, BeginsClean
  <2>2. ToSet(answer) = {} /\ DOMAIN answer = {} /\ answer \in Seq(Pids) BY <2>1 DEF ToSet
  <2>3. \A p \in certain : ~(p <= cursor)
    <3> TAKE p \in certain
    <3>1. p \in Int /\ p > 0 BY <1>2, <1>3, PidFacts
    <3> QED BY <3>1, <2>1
  <2> QED BY <1>1, <1>2, <1>3, <1>4, <2>1, <2>2, <2>3 DEF Once
<1>5. CASE pc # "begin" BY <1>1, <1>2, <1>3, <1>5 DEF QueryInv, WalkOk
<1> QED BY <1>4, <1>5

LEMMA WalkGoesOn ==
  ASSUME QueryInv, PidsNumbered, Remember, pc \in {"begin", "readdir", "walk"}, call.op # "parent",
         NEW S, Listed \subseteq S, S \subseteq Existing, Later(S) # {}, cursor' = Lowest(Later(S)),
         UNCHANGED <<platform, call, procs, events, todo, ec, unread>>,
         \/ pc' = "readdir" /\ answer' = answer \o <<cursor'>> /\ (call.op = "all" => S = Listed)
         \/ pc' = "kread" /\ answer' = answer /\ held'.pid = cursor' /\ S = Listed /\ pc # "readdir"
  PROVE  QueryInv'
<1>1. /\ Running /\ call.op \in {"all", "children"} /\ ec = "none" /\ unread = {}
      /\ answer \in Seq(Pids) /\ Once(answer) /\ todo \in Seq(Pids) /\ cursor \in Int
      /\ \A p \in ToSet(answer) : p <= cursor
      /\ \A p \in certain : p <= cursor => p \in ToSet(answer)
      /\ ~(pc = "readdir" /\ call.op = "children") => ToSet(answer) \subseteq possible
      /\ certain \subseteq Listed /\ Listed \subseteq possible /\ Existing \subseteq Pids
  BY BeginsWalk
<1>2. possible' = possible /\ certain' = certain /\ Truth' = Truth
  BY <1>1, StepKeepsHistory DEF QueryInv
<1>3. S \subseteq Pids BY <1>1
<1>4. /\ cursor' \in S /\ cursor' \in Int /\ cursor' > cursor
      /\ \A p \in S : p <= cursor' => p <= cursor \/ p = cursor'
  BY <1>3, LaterIsLeast
<1>5. cursor' \notin ToSet(answer) BY <1>1, <1>4
<1>6. /\ answer \o <<cursor'>> \in Seq(Pids) /\ Once(answer \o <<cursor'>>)
      /\ ToSet(answer \o <<cursor'>>) = ToSet(answer) \cup {cursor'}
  BY <1>1, <1>3, <1>4, <1>5, OneMore
<1>7. \A p \in ToSet(answer) : p \in Int
  <2>1. ToSet(answer) \subseteq Pids BY <1>1 DEF ToSet
  <2> QED BY <2>1, PidFacts
<1>8. \A p \in ToSet(answer) : p <= cursor' BY <1>1, <1>4, <1>7
<1>9. \A p \in certain : p <= cursor' => p \in ToSet(answer) \/ p = cursor' BY <1>1, <1>4
<1>10. answer' \in Seq(Pids) /\ answer' \in Seq(Int) BY <1>1, <1>6, PidFacts
<1>11. ProcsOk' BY DEF QueryInv, ProcsOk
<1>12. QueryTypeOk' BY <1>1, <1>4, <1>10 DEF QueryInv, QueryTypeOk, Stages, Running
<1>13. HistoryOk' BY <1>1, <1>2 DEF QueryInv, HistoryOk
<1>14. WalkOk'
  <2>1. CASE pc' = "readdir"
    <3>1. Once(answer') /\ ToSet(answer') = ToSet(answer) \cup {cursor'} BY <2>1, <1>6
    <3>2. \A p \in ToSet(answer') : p <= cursor' BY <3>1, <1>8, <1>4
    <3>3. call.op = "all" => ToSet(answer') \subseteq possible
      BY <3>1, <1>1, <1>4, <2>1
    <3> QED BY <2>1, <3>1, <3>2, <3>3, <1>1, <1>2, <1>9, <1>10 DEF WalkOk, Once
  <2>2. CASE pc' = "kread"
    <3>1. answer' = answer /\ held'.pid = cursor' /\ S = Listed /\ ToSet(answer) \subseteq possible
      BY <2>2, <1>1
    <3> QED BY <2>2, <3>1, <1>1, <1>2, <1>3, <1>4, <1>5, <1>8, <1>9, <1>10 DEF WalkOk, Once
  <2> QED BY <2>1, <2>2
<1> QED BY <1>11, <1>12, <1>13, <1>14
        DEF QueryInv, StartOk, NextOk, ReadOk, ListOk, ListsTruthful, ParentTruthful, Done

\* A walk that is at its end has passed everybody.
LEMMA WalkEnds ==
  ASSUME QueryInv, PidsNumbered, pc \in {"begin", "readdir", "walk"}, call.op # "parent",
         NEW S, Listed \subseteq S, S \subseteq Existing, Later(S) = {}
  PROVE  certain \subseteq ToSet(answer)
<1>1. /\ certain \subseteq S /\ S \subseteq Pids /\ cursor \in Int
      /\ \A p \in certain : p <= cursor => p \in ToSet(answer)
  BY BeginsWalk
<1>2. \A p \in S : p \in Int BY <1>1, PidFacts
<1>3. \A p \in S : ~(p > cursor) BY DEF Later
<1> QED BY <1>1, <1>2, <1>3

LEMMA AnswersList ==
  ASSUME QueryInv, PidsNumbered, Running, Remember, Goto("done"), UNCHANGED <<todo, cursor>>,
         call.op \in {"all", "children"}, answer' \in Seq(Pids), Once(answer'),
         ToSet(answer') \ unread' \subseteq possible, ec' = "none" => certain \ unread' \subseteq ToSet(answer')
  PROVE  QueryInv'
<1>1. todo' \in Seq(Pids) /\ cursor' \in Int /\ answer' \in Seq(Int)
  BY PidFacts DEF QueryInv, QueryTypeOk
<1> QED BY <1>1, Finishes DEF Once

LEMMA ReadDirStep ==
  ASSUME QueryInv, PidsNumbered, Remember, ReadDir
  PROVE  QueryInv'
<1>1. pc \in {"begin", "readdir"} /\ call.op # "parent" BY DEF ReadDir
<1>2. /\ Running /\ call.op \in {"all", "children"} /\ ec = "none" /\ unread = {}
      /\ answer \in Seq(Pids) /\ Once(answer) /\ todo \in Seq(Pids) /\ cursor \in Int
      /\ ~(pc = "readdir" /\ call.op = "children") => ToSet(answer) \subseteq possible
      /\ certain \subseteq Truth /\ Truth \subseteq possible /\ Truth = Listed
      /\ Listed \subseteq Existing /\ Existing \subseteq Pids
  BY <1>1, BeginsWalk
<1>3. call.op = "all" => Existing = Listed BY DEF Existing, Listed, Asked
<1>4. CASE Later(Existing) # {}
  <2>1. /\ Goto("readdir") /\ cursor' = Lowest(Later(Existing)) /\ answer' = answer \o <<cursor'>>
        /\ UNCHANGED <<todo, ec, unread>>
    BY <1>4 DEF ReadDir, Collects
  <2>2. pc' = "readdir" /\ UNCHANGED <<platform, call, procs, events>> BY <2>1 DEF Goto
  <2> QED BY <1>1, <1>2, <1>3, <1>4, <2>1, <2>2, WalkGoesOn
<1>5. CASE Later(Existing) = {} /\ call.op = "all"
  <2>1. Returns(answer) BY <1>5 DEF ReadDir
  <2>2. certain \subseteq ToSet(answer) BY <1>1, <1>2, <1>5, WalkEnds
  <2> QED BY <2>1, <2>2, <1>2, <1>5, AnswersList DEF Returns
<1>6. CASE Later(Existing) = {} /\ call.op # "all"
  <2>1. Goto("next") /\ todo' = answer /\ answer' = <<>> /\ UNCHANGED <<cursor, held, ec, unread>>
    BY <1>6 DEF ReadDir
  <2>2. pc' = "next" /\ UNCHANGED <<platform, call, procs, events>> BY <2>1 DEF Goto
  <2>3. possible' = possible /\ certain' = certain /\ Truth' = Truth
    BY <1>2, <2>2, StepKeepsHistory DEF QueryInv
  <2>4. certain \subseteq ToSet(answer) BY <1>1, <1>2, <1>6, WalkEnds
  <2>5. ProcsOk' BY <2>2 DEF QueryInv, ProcsOk
  <2>6. answer' \in Seq(Int) /\ ToSet(answer') = {} /\ Once(answer') BY <2>1 DEF ToSet, Once
  <2>7. QueryTypeOk' BY <1>2, <2>1, <2>2, <2>6 DEF QueryInv, QueryTypeOk, Stages, Running
  <2>8. HistoryOk' BY <1>2, <2>3 DEF HistoryOk
  <2>9. NextOk' BY <1>2, <1>6, <2>1, <2>2, <2>3, <2>4, <2>6 DEF NextOk, Once
  <2> QED BY <2>2, <2>5, <2>7, <2>8, <2>9
          DEF QueryInv, StartOk, WalkOk, ReadOk, ListOk, ListsTruthful, ParentTruthful, Done
<1> QED BY <1>4, <1>5, <1>6

LEMMA NextProcStep ==
  ASSUME QueryInv, PidsNumbered, Remember, NextProc
  PROVE  QueryInv'
<1>1. pc \in {"begin", "walk"} /\ call.op # "parent" BY DEF NextProc
<1>2. /\ Running /\ call.op \in {"all", "children"} /\ unread = {}
      /\ answer \in Seq(Pids) /\ Once(answer) /\ ToSet(answer) \subseteq possible
      /\ Listed \subseteq Existing
  BY <1>1, BeginsWalk
<1>3. CASE Later(Listed) # {}
  <2>1. /\ Goto("kread") /\ cursor' = Lowest(Later(Listed)) /\ held'.pid = cursor'
        /\ UNCHANGED <<todo, answer, ec, unread>>
    BY <1>3 DEF NextProc
  <2>2. pc' = "kread" /\ UNCHANGED <<platform, call, procs, events>> BY <2>1 DEF Goto
  <2> QED BY <1>1, <1>2, <1>3, <2>1, <2>2, WalkGoesOn
<1>4. CASE Later(Listed) = {}
  <2>1. Returns(answer) BY <1>4 DEF NextProc
  <2>2. certain \subseteq ToSet(answer) BY <1>1, <1>2, <1>4, WalkEnds
  <2> QED BY <2>1, <2>2, <1>2, AnswersList DEF Returns
<1> QED BY <1>3, <1>4

LEMMA ReadKernelStep ==
  ASSUME QueryInv, PidsNumbered, Remember, ReadKernel
  PROVE  QueryInv'
<1>1. pc = "kread" BY DEF ReadKernel
<1>2. call.op # "parent" BY <1>1 DEF QueryInv, WalkOk
<1>3. /\ Running /\ call.op \in {"all", "children"} /\ ec = "none" /\ unread = {}
      /\ answer \in Seq(Pids) /\ Once(answer) /\ todo \in Seq(Pids) /\ cursor \in Int
      /\ \A p \in ToSet(answer) : p <= cursor
      /\ \A p \in certain : p <= cursor => p \in ToSet(answer) \/ p = held.pid
      /\ ToSet(answer) \subseteq possible
      /\ certain \subseteq Truth /\ Truth \subseteq possible
  BY <1>1, <1>2, BeginsWalk
<1>4. held.pid = cursor /\ held.pid \in Pids \ ToSet(answer) /\ held.pid \in possible
  BY <1>1 DEF QueryInv, WalkOk
<1>5. CASE Is(held.pid, held.born)
  <2>1. /\ Goto("walk") /\ answer' = <<held.pid>> \o answer /\ UNCHANGED <<cursor, todo, held, ec, unread>>
    BY <1>5 DEF ReadKernel
  <2>2. pc' = "walk" /\ UNCHANGED <<platform, call, procs, events>> BY <2>1 DEF Goto
  <2>3. possible' = possible /\ certain' = certain /\ Truth' = Truth
    BY <1>3, <2>2, StepKeepsHistory DEF QueryInv
  <2>4. /\ answer' \in Seq(Pids) /\ Once(answer') /\ ToSet(answer') = ToSet(answer) \cup {held.pid}
    BY <1>3, <1>4, <2>1, OneMore
  <2>5. ProcsOk' BY <2>2 DEF QueryInv, ProcsOk
  <2>6. answer' \in Seq(Int) BY <2>4, PidFacts
  <2>7. QueryTypeOk' BY <1>3, <2>1, <2>2, <2>6 DEF QueryInv, QueryTypeOk, Stages, Running
  <2>8. HistoryOk' BY <1>3, <2>3 DEF HistoryOk
  <2>9. \A p \in ToSet(answer') : p <= cursor BY <1>3, <1>4, <2>4
  <2>10. WalkOk' BY <1>3, <1>4, <2>1, <2>2, <2>3, <2>4, <2>9 DEF WalkOk, Once
  <2> QED BY <2>2, <2>5, <2>7, <2>8, <2>10
          DEF QueryInv, StartOk, NextOk, ReadOk, ListOk, ListsTruthful, ParentTruthful, Done
<1>6. CASE ~Is(held.pid, held.born)
  <2>1. Goto("done") /\ ec' = "EFAULT" /\ UNCHANGED <<cursor, todo, answer>>
    BY <1>6 DEF ReadKernel, Fails
  <2> QED BY <2>1, <1>3, AnswersList
<1> QED BY <1>5, <1>6

-------------------------------------------------------------------------------
\* The parents that child_pids and parent_pid of Linux read one after another.
LEMMA NextFacts ==
  ASSUME QueryInv, PidsNumbered, pc = "next" \/ (pc = "read" /\ call.op = "children")
  PROVE  /\ Running /\ call.op = "children" /\ call.pid \in Pids /\ answer \in Seq(Pids)
         /\ todo \in Seq(Pids) /\ cursor \in Int
         /\ Once(todo) /\ Once(answer) /\ ToSet(answer) \cap ToSet(todo) = {}
         /\ ToSet(answer) \ unread \subseteq possible /\ certain \ unread \subseteq ToSet(todo) \cup ToSet(answer)
         /\ certain \subseteq Truth /\ Truth \subseteq possible
         /\ Truth = {p \in Existing : procs[p].parent = call.pid}
<1>1. Running /\ call.op = "children" BY DEF QueryInv, NextOk, Running
<1>2. Truth = {p \in Existing : procs[p].parent = call.pid} BY <1>1, TruthOfPids DEF QueryInv
<1> QED BY <1>1, <1>2 DEF QueryInv, NextOk, HistoryOk, QueryTypeOk, Running

\* One child less to look at: who is collected may be one and who is not is none for certain,
\* or the parent could not be read.
LEMMA NextChild ==
  ASSUME QueryInv, PidsNumbered, Remember, NEW ppid, NEW e,
         pc = "next" \/ (pc = "read" /\ call.op = "children"), todo # <<>>,
         Parent(ppid, e), unread \subseteq unread',
         ppid = call.pid => Head(todo) \in possible \cup unread',
         ppid # call.pid => Head(todo) \notin certain \ unread'
  PROVE  QueryInv'
<1>1. /\ Running /\ call.op = "children" /\ answer \in Seq(Pids)
      /\ todo \in Seq(Pids) /\ cursor \in Int
      /\ Once(todo) /\ Once(answer) /\ ToSet(answer) \cap ToSet(todo) = {}
      /\ ToSet(answer) \ unread \subseteq possible /\ certain \ unread \subseteq ToSet(todo) \cup ToSet(answer)
      /\ certain \subseteq Truth /\ Truth \subseteq possible
  BY NextFacts
<1>2. /\ Goto("next") /\ todo' = Tail(todo) /\ UNCHANGED cursor
      /\ answer' = answer \o (IF ppid = call.pid THEN <<Head(todo)>> ELSE <<>>)
  BY <1>1 DEF Parent, Collects
<1>3. pc' = "next" /\ UNCHANGED <<platform, call, procs, events>> BY <1>2 DEF Goto
<1>4. possible' = possible /\ certain' = certain /\ Truth' = Truth
  BY <1>1, <1>3, StepKeepsHistory DEF QueryInv
<1>5. /\ Head(todo) \in Pids /\ todo' \in Seq(Pids) /\ Once(todo')
      /\ ToSet(todo) = {Head(todo)} \cup ToSet(todo') /\ Head(todo) \notin ToSet(todo')
  BY <1>1, <1>2, OneLess
<1>6. /\ answer' \in Seq(Pids) /\ Once(answer')
      /\ ToSet(answer') = ToSet(answer) \cup (IF ppid = call.pid THEN {Head(todo)} ELSE {})
  <2>1. CASE ppid = call.pid
    <3>1. Head(todo) \notin ToSet(answer) BY <1>1, <1>5
    <3> QED BY <2>1, <3>1, <1>1, <1>2, <1>5, OneMore
  <2>2. CASE ppid # call.pid
    <3>1. answer' = answer BY <2>2, <1>1, <1>2
    <3> QED BY <2>2, <3>1, <1>1 DEF Once
  <2> QED BY <2>1, <2>2
<1>7. ToSet(answer') \ unread' \subseteq possible BY <1>1, <1>6
<1>8. ToSet(answer') \cap ToSet(todo') = {} BY <1>1, <1>5, <1>6
<1>9. certain \ unread' \subseteq ToSet(todo') \cup ToSet(answer') BY <1>1, <1>5, <1>6
<1>10. ProcsOk' BY <1>3 DEF QueryInv, ProcsOk
<1>11. answer' \in Seq(Int) BY <1>6, PidFacts
<1>12. QueryTypeOk' BY <1>1, <1>2, <1>3, <1>5, <1>11 DEF QueryInv, QueryTypeOk, Stages, Running
<1>13. HistoryOk' BY <1>1, <1>4 DEF HistoryOk
<1>14. NextOk' BY <1>1, <1>3, <1>4, <1>5, <1>6, <1>7, <1>8, <1>9 DEF NextOk, Once
<1> QED BY <1>3, <1>10, <1>12, <1>13, <1>14
        DEF QueryInv, StartOk, WalkOk, ReadOk, ListOk, ListsTruthful, ParentTruthful, Done

LEMMA ParentAnswers ==
  ASSUME QueryInv, PidsNumbered, Remember, Running, call.op = "parent", NEW ppid \in Int, NEW e,
         Parent(ppid, e),
         e = "none" /\ unread' = {} => ppid \in possible,
         e = "ESRCH" => None \in possible
  PROVE  QueryInv'
<1>1. Goto("done") /\ answer' = <<ppid>> /\ ec' = e /\ UNCHANGED <<todo, cursor>> BY DEF Parent
<1>2. todo' \in Seq(Pids) /\ cursor' \in Int BY <1>1 DEF QueryInv, QueryTypeOk
<1>3. answer' \in Seq(Int) /\ ToSet(answer') = {ppid} BY <1>1, OneAnswer
<1> QED BY <1>1, <1>2, <1>3, Finishes

LEMMA OpenStatStep ==
  ASSUME QueryInv, PidsNumbered, Remember, OpenStat
  PROVE  QueryInv'
<1>1. CASE pc = "next" /\ todo # <<>>
  <2>1. /\ Running /\ call.op = "children" /\ call.pid \in Pids /\ answer \in Seq(Pids)
        /\ todo \in Seq(Pids) /\ cursor \in Int
        /\ Once(todo) /\ Once(answer) /\ ToSet(answer) \cap ToSet(todo) = {}
        /\ ToSet(answer) \ unread \subseteq possible /\ certain \ unread \subseteq ToSet(todo) \cup ToSet(answer)
        /\ certain \subseteq Truth /\ Truth \subseteq possible
        /\ Truth = {p \in Existing : procs[p].parent = call.pid}
    BY <1>1, NextFacts
  <2>2. Subject = Head(todo) /\ Head(todo) \in Pids BY <1>1, <2>1, OneLess DEF Subject
  <2>3. None # call.pid BY <2>1, PidFacts
  <2>4. CASE Exists(Subject) /\ Goto("read")
             /\ held' = [pid |-> Subject, born |-> procs[Subject].born, parent |-> 0]
             /\ UNCHANGED <<cursor, todo, answer, ec, unread>>
    <3>1. pc' = "read" /\ UNCHANGED <<platform, call, procs, events>> BY <2>4 DEF Goto
    <3>2. possible' = possible /\ certain' = certain /\ Truth' = Truth
      BY <2>1, <3>1, StepKeepsHistory DEF QueryInv
    <3>3. ProcsOk' BY <3>1 DEF QueryInv, ProcsOk
    <3>4. QueryTypeOk' BY <2>1, <2>4, <3>1 DEF QueryInv, QueryTypeOk, Stages, Running
    <3>5. HistoryOk' BY <2>1, <3>2 DEF HistoryOk
    <3>6. NextOk' BY <2>1, <2>4, <3>1, <3>2 DEF NextOk, Once
    <3>7. held'.pid = Subject /\ Is(held.pid, held.born)'
      BY <2>4, <3>1 DEF Is, Exists
    <3>8. ReadOk' BY <1>1, <2>1, <2>2, <2>4, <3>1, <3>7 DEF ReadOk
    <3> QED BY <3>1, <3>3, <3>4, <3>5, <3>6, <3>8
            DEF QueryInv, StartOk, WalkOk, ListOk, ListsTruthful, ParentTruthful, Done
  <2>5. CASE ~Exists(Subject) /\ Parent(None, "ESRCH") /\ UNCHANGED unread
    <3>1. Head(todo) \notin certain BY <2>1, <2>2, <2>5 DEF Existing
    <3> QED BY <1>1, <2>3, <2>5, <3>1, NextChild
  <2>6. CASE Parent(None, "EMFILE") /\ unread' = unread \cup {Subject}
    BY <1>1, <2>2, <2>3, <2>6, NextChild
  <2> QED BY <2>4, <2>5, <2>6 DEF OpenStat
<1>2. CASE At("begin", "parent")
  <2>1. /\ pc = "begin" /\ call.op = "parent" /\ Running /\ call.pid \in Pids /\ Subject = call.pid
        /\ ec = "none" /\ unread = {} /\ answer = <<>> /\ todo = <<>> /\ cursor = 0
    BY <1>2, BeginsClean DEF At, Subject
  <2>2. Truth = {IF Exists(call.pid) THEN procs[call.pid].parent ELSE None} /\ Truth \subseteq possible
    BY <2>1, TruthOfPids DEF QueryInv, HistoryOk
  <2>3. CASE Exists(Subject) /\ Goto("read")
             /\ held' = [pid |-> Subject, born |-> procs[Subject].born, parent |-> 0]
             /\ UNCHANGED <<cursor, todo, answer, ec, unread>>
    <3>1. pc' = "read" /\ UNCHANGED <<platform, call, procs, events>> BY <2>3 DEF Goto
    <3>2. possible' = possible /\ certain' = certain /\ Truth' = Truth
      BY <2>1, <3>1, StepKeepsHistory DEF QueryInv
    <3>3. ProcsOk' BY <3>1 DEF QueryInv, ProcsOk
    <3>4. QueryTypeOk' BY <2>1, <2>3, <3>1 DEF QueryInv, QueryTypeOk, Stages, Running
    <3>5. HistoryOk' BY <2>1, <3>2 DEF QueryInv, HistoryOk
    <3>6. NextOk' BY <2>1, <3>1 DEF NextOk
    <3>7. held'.pid = Subject /\ Is(held.pid, held.born)'
      BY <2>3, <3>1 DEF Is, Exists
    <3>8. ReadOk' BY <2>1, <2>3, <3>1, <3>7 DEF ReadOk
    <3> QED BY <3>1, <3>3, <3>4, <3>5, <3>6, <3>8
            DEF QueryInv, StartOk, WalkOk, ListOk, ListsTruthful, ParentTruthful, Done
  <2>4. CASE ~Exists(Subject) /\ Parent(None, "ESRCH") /\ UNCHANGED unread
    BY <2>1, <2>2, <2>4, PidFacts, ParentAnswers
  <2>5. CASE Parent(None, "EMFILE") /\ unread' = unread \cup {Subject}
    BY <2>1, <2>5, PidFacts, ParentAnswers
  <2> QED BY <2>3, <2>4, <2>5 DEF OpenStat
<1> QED BY <1>1, <1>2 DEF OpenStat

LEMMA ReadStatStep ==
  ASSUME QueryInv, PidsNumbered, Remember, ReadStat
  PROVE  QueryInv'
<1> DEFINE mine == Is(held.pid, held.born)
           spaced == procs[held.pid].image \in Spaced
<1>1. PICK ppid :
        /\ Parent(ppid, ec) /\ unread \subseteq unread'
        /\ mine => ppid \in FourthWord(procs[held.pid])
        /\ mine /\ spaced => unread' = unread \cup {held.pid}
        /\ ~mine => ppid = None
  <2>1. CASE mine
    <3>1. PICK word \in FourthWord(procs[held.pid]) : Parent(word, ec) BY <2>1 DEF ReadStat
    <3> QED BY <2>1, <3>1 DEF ReadStat
  <2>2. CASE ~mine BY <2>2 DEF ReadStat
  <2> QED BY <2>1, <2>2
<1>2. pc = "read" /\ Running /\ call.op \in {"children", "parent"} /\ call.pid \in Pids
  BY DEF ReadStat, QueryInv, ReadOk, Running, QueryTypeOk
<1>3. None # call.pid BY <1>2, PidFacts
<1>4. mine /\ ~spaced => ppid = procs[held.pid].parent BY <1>1 DEF FourthWord
<1>5. CASE call.op = "children"
  <2>1. /\ todo # <<>> /\ held.pid = Head(todo) /\ (held.pid \in certain => mine)
    BY <1>2, <1>5 DEF QueryInv, ReadOk
  <2>2. /\ todo \in Seq(Pids) /\ Once(todo) /\ certain \subseteq Truth /\ Truth \subseteq possible
        /\ Truth = {p \in Existing : procs[p].parent = call.pid}
    BY <1>2, <1>5, NextFacts
  <2>3. Head(todo) \in Pids BY <2>1, <2>2, OneLess
  <2>4. ASSUME ppid = call.pid PROVE Head(todo) \in possible \cup unread'
    <3>1. mine BY <1>1, <1>3, <2>4
    <3>2. CASE spaced BY <3>1, <3>2, <1>1, <2>1
    <3>3. CASE ~spaced
      <4>1. procs[held.pid].parent = call.pid BY <3>1, <3>3, <1>4, <2>4
      <4>2. Exists(held.pid) BY <3>1 DEF Is
      <4> QED BY <4>1, <4>2, <2>1, <2>2, <2>3 DEF Existing
    <3> QED BY <3>2, <3>3
  <2>5. ASSUME ppid # call.pid PROVE Head(todo) \notin certain \ unread'
    <3>1. CASE ~mine BY <3>1, <2>1
    <3>2. CASE mine /\ spaced BY <3>2, <1>1, <2>1
    <3>3. CASE mine /\ ~spaced
      <4>1. procs[held.pid].parent # call.pid BY <3>3, <1>4, <2>5
      <4> QED BY <4>1, <2>1, <2>2
    <3> QED BY <3>1, <3>2, <3>3
  <2> QED BY <1>1, <1>2, <1>5, <2>1, <2>4, <2>5, NextChild
<1>6. CASE call.op = "parent"
  <2>1. /\ held.pid = call.pid /\ ec = "none" /\ unread = {} /\ (mine \/ None \in possible)
    BY <1>2, <1>6 DEF QueryInv, ReadOk
  <2>2. Truth = {IF Exists(call.pid) THEN procs[call.pid].parent ELSE None} /\ Truth \subseteq possible
    BY <1>2, <1>6, TruthOfPids DEF QueryInv, HistoryOk
  <2>3. procs[call.pid].parent \in Int BY <1>2, ParentFacts DEF QueryInv
  <2>4. ppid \in Int
    <3>1. CASE ~mine BY <3>1, <1>1, PidFacts
    <3>2. CASE mine /\ ~spaced BY <3>2, <1>4, <2>1, <2>3
    <3>3. CASE mine /\ spaced
      <4>1. ppid \in {0} \cup NameWords BY <3>3, <1>1 DEF FourthWord
      <4> QED BY <4>1 DEF PidsNumbered
    <3> QED BY <3>1, <3>2, <3>3
  <2>5. ASSUME unread' = {} PROVE ppid \in possible
    <3>1. CASE ~mine BY <3>1, <1>1, <2>1
    <3>2. CASE mine
      <4>1. Exists(call.pid) BY <3>2, <2>1 DEF Is
      <4>2. ~spaced BY <1>1, <3>2, <2>5
      <4>3. ppid = procs[call.pid].parent BY <3>2, <4>2, <2>1, <1>4
      <4> QED BY <4>1, <4>3, <2>2
    <3> QED BY <3>1, <3>2
  <2> QED BY <1>1, <1>2, <1>6, <2>1, <2>4, <2>5, ParentAnswers
<1> QED BY <1>2, <1>5, <1>6

LEMMA NoMorePidsStep ==
  ASSUME QueryInv, PidsNumbered, Remember, NoMorePids
  PROVE  QueryInv'
<1>1. /\ pc = "next" /\ todo = <<>> /\ Goto("done") /\ answer' = answer
      /\ UNCHANGED <<cursor, todo, ec, unread>>
  BY DEF NoMorePids, Returns
<1>2. ToSet(todo) = {} BY <1>1 DEF ToSet
<1> QED BY <1>1, <1>2, NextFacts, AnswersList

-------------------------------------------------------------------------------
(***************************************************************************)
(* macOS: the zeros behind the pids are nobody's.                          *)
(***************************************************************************)
LEMMA CountPidsStep ==
  ASSUME QueryInv, PidsNumbered, Remember, CountPids
  PROVE  QueryInv'
<1>1. /\ platform = "macos" /\ pc = "begin" /\ call.op # "parent" /\ Goto("list")
      /\ UNCHANGED <<todo, held, answer, ec, unread>>
  BY DEF CountPids
<1>0. PICK more \in 0..Slack : cursor' = Cardinality(Listed) + more BY DEF CountPids
<1>2. pc' = "list" /\ UNCHANGED <<platform, call, procs, events>> BY <1>1 DEF Goto
<1>3. /\ answer = <<>> /\ todo = <<>> /\ ec = "none" /\ Running /\ call.op \in PidOps /\ call.pid \in Pids
  BY <1>1, BeginsClean
<1>4. possible' = possible /\ certain' = certain /\ Truth' = Truth
  BY <1>2, <1>3, StepKeepsHistory DEF QueryInv
<1>5. ProcsOk' BY <1>2 DEF QueryInv, ProcsOk
<1>6. cursor' \in Int
  <2>1. call.op \in {"all", "children"} BY <1>1, <1>3 DEF PidOps
  <2>2. IsFiniteSet(Listed) BY <2>1, TruthOfPids DEF QueryInv
  <2>3. Cardinality(Listed) \in Nat /\ Slack \in Nat BY <2>2, FS_CardinalityType DEF PidsNumbered
  <2> QED BY <1>0, <2>3
<1>7. QueryTypeOk' BY <1>1, <1>2, <1>3, <1>6 DEF QueryInv, QueryTypeOk, Stages, Running
<1>8. HistoryOk' BY <1>3, <1>4 DEF QueryInv, HistoryOk
<1>9. ListOk' BY <1>1, <1>2, <1>3 DEF ListOk, PidOps
<1> QED BY <1>2, <1>5, <1>7, <1>8, <1>9
        DEF QueryInv, StartOk, WalkOk, NextOk, ReadOk, ListsTruthful, ParentTruthful, Done

LEMMA Padded ==
  ASSUME PidsNumbered, NEW s \in Seq(Pids), Once(s), NEW n \in Nat
  PROVE  LET t == s \o [i \in 1..n |-> 0]
         IN  /\ t \in Seq(Int)
             /\ \A p \in ToSet(t) : p # 0 => p \in ToSet(s)
             /\ ToSet(s) \subseteq ToSet(t)
             /\ \A i, j \in DOMAIN t : t[i] = t[j] /\ t[i] # 0 => i = j
<1> DEFINE z == [i \in 1..n |-> 0]
           t == s \o z
           m == Len(s)
<1>1. z \in Seq(Int) /\ Len(z) = n /\ \A i \in 1..n : z[i] = 0 OBVIOUS
<1>2. s \in Seq(Int) /\ m \in Nat /\ DOMAIN s = 1..m BY PidFacts
<1> HIDE DEF z
<1>3. /\ t \in Seq(Int) /\ DOMAIN t = 1..(m + n)
      /\ \A i \in 1..(m + n) : t[i] = IF i <= m THEN s[i] ELSE z[i - m]
  <2>1. \A x, y \in Seq(Int) :
          /\ x \o y \in Seq(Int) /\ Len(x \o y) = Len(x) + Len(y)
          /\ \A i \in 1..(Len(x) + Len(y)) : (x \o y)[i] = IF i <= Len(x) THEN x[i] ELSE y[i - Len(x)]
    OBVIOUS
  <2>2. t \in Seq(Int) /\ Len(t) = m + n
    BY <1>1, <1>2, <2>1
  <2>3. \A i \in 1..(m + n) : t[i] = IF i <= m THEN s[i] ELSE z[i - m]
    BY <1>1, <1>2, <2>1
  <2> HIDE DEF t
  <2> QED BY <2>2, <2>3
<1> HIDE DEF t, m
<1>4. ASSUME NEW i \in 1..(m + n), t[i] # 0 PROVE i \in 1..m /\ t[i] = s[i]
  <2>1. CASE i <= m BY <2>1, <1>2, <1>3
  <2>2. CASE ~(i <= m)
    <3>1. i - m \in 1..n BY <2>2, <1>2
    <3> QED BY <2>2, <3>1, <1>1, <1>3, <1>4
  <2> QED BY <2>1, <2>2
<1>5. \A i \in 1..m : i \in 1..(m + n) /\ t[i] = s[i] BY <1>2, <1>3
<1>6. \A p \in ToSet(t) : p # 0 => p \in ToSet(s) BY <1>2, <1>3, <1>4 DEF ToSet
<1>7. ToSet(s) \subseteq ToSet(t) BY <1>2, <1>3, <1>5 DEF ToSet
<1>8. \A i, j \in DOMAIN t : t[i] = t[j] /\ t[i] # 0 => i = j BY <1>2, <1>3, <1>4 DEF Once
<1> QED BY <1>3, <1>6, <1>7, <1>8 DEF t, z

LEMMA ListPidsStep ==
  ASSUME QueryInv, PidsNumbered, Remember, ListPids
  PROVE  QueryInv'
<1>1. /\ platform = "macos" /\ pc = "list" /\ Goto("done") /\ platform' = platform
      /\ UNCHANGED <<cursor, todo, held, ec, unread>>
  BY DEF ListPids, Goto
<1>2. PICK S \in SUBSET Listed :
        /\ Cardinality(S) = IF Cardinality(Listed) <= cursor THEN Cardinality(Listed) ELSE cursor
        /\ answer' = Listing(S) \o [i \in 1..((PidSize - 1) * Cardinality(S)) |-> 0]
  BY DEF ListPids
<1>3. call.op \in {"all", "children"} /\ Running /\ todo' \in Seq(Pids) /\ cursor' \in Int
  BY <1>1 DEF QueryInv, ListOk, Running, QueryTypeOk
<1>4. /\ Truth = Listed /\ Listed \subseteq Pids /\ IsFiniteSet(Listed)
      /\ certain \subseteq Listed /\ Listed \subseteq possible
  BY <1>3, TruthOfPids DEF QueryInv, HistoryOk
<1>5. IsFiniteSet(S) /\ S \subseteq Pids BY <1>4, FS_Subset
<1>6. /\ Listing(S) \in Seq(Pids) /\ ToSet(Listing(S)) = S /\ Once(Listing(S))
  BY <1>5, ListingLists
<1>7. (PidSize - 1) * Cardinality(S) \in Nat
  <2>1. Cardinality(S) \in Nat /\ PidSize - 1 \in Nat BY <1>5, FS_CardinalityType DEF PidsNumbered
  <2> QED BY <2>1
<1>8. /\ answer' \in Seq(Int)
      /\ \A p \in ToSet(answer') : p # 0 => p \in S
      /\ S \subseteq ToSet(answer')
      /\ \A i, j \in DOMAIN answer' : answer'[i] = answer'[j] /\ answer'[i] # 0 => i = j
  BY <1>2, <1>6, <1>7, Padded
<1>9. ~Filled' => S = Listed
  <2>1. Pidded' = S
    <3>1. 0 \notin S BY <1>5 DEF PidsNumbered
    <3> QED BY <3>1, <1>8 DEF Pidded
  <2>2. CASE Cardinality(Listed) <= cursor
    <3>1. Cardinality(S) = Cardinality(Listed) BY <1>2, <2>2
    <3> QED BY <3>1, <1>4, FS_Subset
  <2>3. CASE ~(Cardinality(Listed) <= cursor)
    <3>1. Cardinality(S) = cursor BY <1>2, <2>3
    <3> QED BY <3>1, <2>1, <1>1 DEF Filled
  <2> QED BY <2>2, <2>3
<1>10. ec' = "none" /\ ~Filled' => certain \ unread' \subseteq ToSet(answer') BY <1>4, <1>8, <1>9
<1>11. \A p \in ToSet(answer') \ unread' : p # 0 => p \in possible BY <1>4, <1>8
<1> QED BY <1>1, <1>3, <1>8, <1>10, <1>11, Finishes

-------------------------------------------------------------------------------
LEMMA QueryInvInit ==
  ASSUME PidsNumbered, Init
  PROVE  QueryInv
<1>1. /\ pc = "idle" /\ call = [op |-> "none", pid |-> 0] /\ platform \in Platforms
      /\ cursor = 0 /\ todo = <<>> /\ answer = <<>> /\ ec = "none" /\ unread = {} /\ events = 0
  BY DEF Init, PidInit, ProcessesInit
<1>2. procs \in [Pids -> Process]
  <2>1. PICK image \in Images, i \in Images, d \in Dirs :
          procs = [p \in Pids |->
                    CASE p = 1 -> [state |-> "alive", born |-> 0, parent |-> 0, image |-> image, loaded |-> 0, cwd |-> d]
                      [] p = 2 -> [state |-> "alive", born |-> 0, parent |-> 1, image |-> i, loaded |-> 0, cwd |-> d]
                      [] OTHER -> nobody]
    BY DEF Init, ProcessesInit
  <2>2. /\ [state |-> "alive", born |-> 0, parent |-> 0, image |-> image, loaded |-> 0, cwd |-> d] \in Process
        /\ [state |-> "alive", born |-> 0, parent |-> 1, image |-> i, loaded |-> 0, cwd |-> d] \in Process
        /\ nobody \in Process
    BY DEF Process, nobody, PidsNumbered
  <2>3. \A p \in Pids :
          (CASE p = 1 -> [state |-> "alive", born |-> 0, parent |-> 0, image |-> image, loaded |-> 0, cwd |-> d]
             [] p = 2 -> [state |-> "alive", born |-> 0, parent |-> 1, image |-> i, loaded |-> 0, cwd |-> d]
             [] OTHER -> nobody) \in Process
    BY <2>2
  <2> QED BY <2>1, <2>3
<1>3. ProcsOk BY <1>1, <1>2 DEF ProcsOk
<1>4. QueryTypeOk BY <1>1 DEF QueryTypeOk, Stages
<1> QED BY <1>1, <1>3, <1>4
        DEF QueryInv, StartOk, HistoryOk, Running, WalkOk, NextOk, ReadOk, ListOk,
            ListsTruthful, ParentTruthful, Done

LEMMA QueryInvStep ==
  ASSUME QueryInv, PidsNumbered, [Next]_vars
  PROVE  QueryInv'
<1>1. CASE Next
  <2>1. Remember BY <1>1 DEF Next
  <2>2. CASE Others BY <2>1, <2>2, OthersStep
  <2>3. CASE Step
    <3>1. CASE Start \/ Return BY <2>1, <3>1, StartStep, ReturnStep
    <3>2. CASE OpenFails \/ ToolhelpFails \/ Unsupported BY <2>1, <3>2, FailSteps
    <3>3. CASE \/ ToolhelpAllPids \/ ToolhelpChildPids \/ KvmAllPids \/ KvmChildPids
               \/ Kvm2AllPids \/ Kvm2ChildPids \/ OpenBsdAllPids \/ OpenBsdChildPids
               \/ DragonFlyAllPids \/ DragonFlyChildPids
      BY <2>1, <3>3, SnapshotSteps
    <3>4. CASE ToolhelpParentPid \/ KvmParentPid \/ BsdParentPid \/ BsdInfo \/ GetProc
      BY <2>1, <3>4, ParentSteps
    <3>5. CASE ReadDir \/ OpenStat \/ ReadStat \/ NoMorePids
      BY <2>1, <3>5, ReadDirStep, OpenStatStep, ReadStatStep, NoMorePidsStep
    <3>6. CASE CountPids \/ ListPids BY <2>1, <3>6, CountPidsStep, ListPidsStep
    <3>7. CASE NextProc \/ ReadKernel BY <2>1, <3>7, NextProcStep, ReadKernelStep
    <3> QED BY <2>3, <3>1, <3>2, <3>3, <3>4, <3>5, <3>6, <3>7 DEF Step
  <2> QED BY <1>1, <2>2, <2>3 DEF Next
<1>2. CASE UNCHANGED vars
  <2>1. UNCHANGED <<procs, events, query, possible, certain>> BY <1>2 DEF vars
  <2>2. ProcsOk' BY <2>1 DEF QueryInv, ProcsOk
  <2>3. QueryTypeOk' BY <2>1 DEF QueryInv, QueryTypeOk, query
  <2>4. StartOk' BY <2>1 DEF QueryInv, StartOk, query
  <2>5. HistoryOk'
    <3>1. Truth' = Truth BY <2>1 DEF Truth, Exists, ChildrenOf, query
    <3> QED BY <2>1, <3>1 DEF QueryInv, HistoryOk, Running, query
  <2>6. WalkOk' BY <2>1 DEF QueryInv, WalkOk, query, Once
  <2>7. NextOk' BY <2>1 DEF QueryInv, NextOk, query, Once
  <2>8. ReadOk' BY <2>1 DEF QueryInv, ReadOk, query, Is, Exists
  <2>9. ListOk' BY <2>1 DEF QueryInv, ListOk, query
  <2>10. ListsTruthful' /\ ParentTruthful'
    BY <2>1 DEF QueryInv, ListsTruthful, ParentTruthful, Done, Pidded, Filled, query
  <2> QED BY <2>2, <2>3, <2>4, <2>5, <2>6, <2>7, <2>8, <2>9, <2>10 DEF QueryInv
<1> QED BY <1>1, <1>2

\* The inductive invariant of the calls of pid.cpp, between any two steps of other processes.
THEOREM QueryInvariance == ASSUME PidsNumbered PROVE Spec => []QueryInv
<1>1. Init => QueryInv BY QueryInvInit
<1>2. QueryInv /\ [Next]_vars => QueryInv' BY QueryInvStep
<1> QED BY <1>1, <1>2, PTL DEF Spec

\* Whatever forks, ends and is reaped while all_pids or child_pids works: each pid it returns was
\* an answer at some moment of the call, none comes twice, and nobody is missing who belonged to
\* the answer all along, unless there was an error.  But where his parent could not be read (no
\* descriptor, no snapshot, a space in the name) a process may be there or missing wrongly, and
\* a list of macOS that fills its room may be short.
THEOREM ListsTruthfulHolds == ASSUME PidsNumbered PROVE Spec => []ListsTruthful
<1>1. QueryInv => ListsTruthful BY DEF QueryInv
<1> QED BY <1>1, QueryInvariance, PTL

\* parent_pid returns a parent that the process had at some moment of the call, and reports that
\* there is no such process only when there was none at one.
THEOREM ParentTruthfulHolds == ASSUME PidsNumbered PROVE Spec => []ParentTruthful
<1>1. QueryInv => ParentTruthful BY DEF QueryInv
<1> QED BY <1>1, QueryInvariance, PTL

-------------------------------------------------------------------------------
(***************************************************************************)
(* ExtQueries: the bytes of a command line or of an environment, each text  *)
(* with its NUL behind it, give back the texts.                            *)
(***************************************************************************)
LEMMA LeastOf ==
  ASSUME NEW S, S \subseteq Nat, S # {}
  PROVE  Min(S) \in S /\ \A y \in S : Min(S) <= y
<1>1. PICK x \in S : \A y \in S : ~(<<y, x>> \in OpToRel(<, Nat))
  BY NatLessThanWellFounded, WFMin
<1>2. \A y \in S : ~(y < x)
  BY <1>1 DEF OpToRel
<1>3. \A y \in S : x =< y
  BY <1>2
<1> QED
  BY <1>3 DEF Min

\* Where a character of a text lies, and where it ends.
LEMMA Places ==
  ASSUME NEW s \in Nat, NEW l \in Nat, NEW t \in Nat, t = s + l + 1
  PROVE  /\ \A p \in Nat : s < p /\ p <= t /\ p # t => p - s \in 1..l /\ s + (p - s) = p
         /\ \A j \in 1..l : s + j \in Nat /\ 1 <= s + j /\ s + j < t
         /\ \A k \in Nat : t <= k => \A j \in 1..l : s + j \in 1..k
         /\ t - 1 = s + l /\ s + 1 <= t /\ 1 <= t
OBVIOUS

(***************************************************************************)
(* How the first m texts lie one behind the other: text i ends at e[i],     *)
(* where its NUL is.                                                       *)
(***************************************************************************)
Laid(ts, m, b, e) ==
  /\ e \in [0..m -> Nat] /\ e[0] = 0
  /\ b \in Seq(Nat) /\ Len(b) = e[m]
  /\ \A i \in 1..m : e[i] = e[i - 1] + Len(ts[i]) + 1 /\ b[e[i]] = NUL
  /\ \A i \in 1..m : \A j \in 1..Len(ts[i]) : b[e[i - 1] + j] = ts[i][j]
  /\ \A i, j \in 0..m : i < j => e[i] < e[j]
  /\ \A p \in 1..e[m] : \E i \in 1..m : e[i - 1] < p /\ p <= e[i]

LEMMA Concatenated ==
  ASSUME NEW b \in Seq(Nat), NEW a \in Seq(Nat)
  PROVE  /\ b \o a \in Seq(Nat) /\ Len(b \o a) = Len(b) + Len(a)
         /\ \A p \in 1..Len(b) : (b \o a)[p] = b[p]
         /\ \A j \in 1..Len(a) : (b \o a)[Len(b) + j] = a[j]
OBVIOUS

LEMMA PartOf ==
  ASSUME NEW c \in Seq(Nat), NEW s \in Nat, NEW l \in Nat, s + l <= Len(c)
  PROVE  /\ SubSeq(c, s + 1, s + l) \in Seq(Nat) /\ Len(SubSeq(c, s + 1, s + l)) = l
         /\ \A j \in 1..l : SubSeq(c, s + 1, s + l)[j] = c[s + j]
<1>1. \A i \in (s + 1)..(s + l) : i \in 1..Len(c) /\ c[i] \in Nat OBVIOUS
<1>2. (s + l) - (s + 1) + 1 = l OBVIOUS
<1>3. SubSeq(c, s + 1, s + l) \in Seq(Nat) BY <1>1
<1>4. Len(SubSeq(c, s + 1, s + l)) = l BY <1>1, <1>2
<1>5. \A j \in 1..l : SubSeq(c, s + 1, s + l)[j] = c[s + j] BY <1>1, <1>2
<1> QED BY <1>3, <1>4, <1>5

\* One text more.
LEMMA LaidMore ==
  ASSUME NEW ts \in Seq(Seq(Letters)), NEW m \in 1..Len(ts), NEW b, NEW e, Laid(ts, m - 1, b, e)
  PROVE  \E f : Laid(ts, m, b \o Append(ts[m], NUL), f)
<1> DEFINE k == e[m - 1]
           l == Len(ts[m])
           a == Append(ts[m], NUL)
           c == b \o a
           f == [i \in 0..m |-> IF i = m THEN k + l + 1 ELSE e[i]]
<1>1. m \in Nat /\ m - 1 \in Nat /\ m - 1 \in 0..(m - 1) /\ Len(ts) \in Nat OBVIOUS
<1>2. e \in [0..(m - 1) -> Nat] /\ e[0] = 0 /\ k \in Nat BY <1>1 DEF Laid
<1>3. ts[m] \in Seq(Letters) /\ ts[m] \in Seq(Nat) /\ l \in Nat BY DEF Letters
<1>4. a \in Seq(Nat) /\ Len(a) = l + 1 /\ a[l + 1] = NUL /\ \A j \in 1..l : a[j] = ts[m][j]
  BY <1>3 DEF NUL
<1>5. b \in Seq(Nat) /\ Len(b) = k BY DEF Laid
<1> HIDE DEF a
<1>6. /\ c \in Seq(Nat) /\ Len(c) = k + l + 1
      /\ \A p \in 1..k : c[p] = b[p]
      /\ \A j \in 1..(l + 1) : c[k + j] = a[j]
  <2>1. Len(a) = l + 1 /\ Len(b) = k /\ k \in Nat /\ l \in Nat BY <1>2, <1>3, <1>4, <1>5
  <2> HIDE DEF k, l
  <2>2. k + (l + 1) = k + l + 1 BY <2>1
  <2>3. a \in Seq(Nat) /\ b \in Seq(Nat) BY <1>4, <1>5
  <2>4. c \in Seq(Nat) /\ Len(c) = Len(b) + Len(a) BY <2>3, Concatenated
  <2>5. \A p \in 1..Len(b) : c[p] = b[p] BY <2>3, Concatenated
  <2>6. \A j \in 1..Len(a) : c[Len(b) + j] = a[j] BY <2>3, Concatenated
  <2> HIDE DEF c
  <2> QED BY <2>1, <2>2, <2>4, <2>5, <2>6
<1> HIDE DEF c
<1>7. /\ f \in [0..m -> Nat] /\ f[0] = 0 /\ f[m] = k + l + 1
      /\ \A i \in 0..(m - 1) : f[i] = e[i]
  BY <1>1, <1>2, <1>3
<1> HIDE DEF f
<1>8. \A i \in 0..(m - 1) : e[i] <= k
  <2>1. \A i \in 0..(m - 1) : i < m - 1 => e[i] < k BY <1>1 DEF Laid
  <2> QED BY <2>1, <1>1, <1>2
<1>9. \A i \in 1..m : f[i] = f[i - 1] + Len(ts[i]) + 1 /\ c[f[i]] = NUL
  <2> SUFFICES ASSUME NEW i \in 1..m PROVE f[i] = f[i - 1] + Len(ts[i]) + 1 /\ c[f[i]] = NUL OBVIOUS
  <2>1. CASE i = m
    <3>1. f[i - 1] = k BY <2>1, <1>1, <1>7
    <3>2. l + 1 \in 1..(l + 1) BY <1>3
    <3>3. c[k + (l + 1)] = NUL BY <3>2, <1>4, <1>6
    <3>4. k + (l + 1) = k + l + 1 BY <1>2, <1>3
    <3> QED BY <2>1, <3>1, <3>3, <3>4, <1>7
  <2>2. CASE i # m
    <3>1. i \in 1..(m - 1) /\ i - 1 \in 0..(m - 1) /\ i \in 0..(m - 1) /\ 0 \in 0..(m - 1) /\ 0 < i BY <2>2, <1>1
    <3>2. e[i] = e[i - 1] + Len(ts[i]) + 1 /\ b[e[i]] = NUL BY <3>1 DEF Laid
    <3>3. e[0] < e[i] BY <3>1 DEF Laid
    <3>4. e[i] \in 1..k BY <3>1, <3>3, <1>2, <1>8
    <3> QED BY <3>1, <3>2, <3>4, <1>6, <1>7
  <2> QED BY <2>1, <2>2
<1>10. \A i \in 1..m : \A j \in 1..Len(ts[i]) : c[f[i - 1] + j] = ts[i][j]
  <2> SUFFICES ASSUME NEW i \in 1..m, NEW j \in 1..Len(ts[i]) PROVE c[f[i - 1] + j] = ts[i][j] OBVIOUS
  <2>1. CASE i = m
    <3>1. f[i - 1] = k BY <2>1, <1>1, <1>7
    <3>2. j \in 1..l /\ j \in 1..(l + 1) BY <2>1, <1>3
    <3> QED BY <2>1, <3>1, <3>2, <1>4, <1>6
  <2>2. CASE i # m
    <3>1. i \in 1..(m - 1) /\ i - 1 \in 0..(m - 1) /\ i \in 0..(m - 1) BY <2>2, <1>1
    <3>2. e[i] = e[i - 1] + Len(ts[i]) + 1 BY <3>1 DEF Laid
    <3>3. b[e[i - 1] + j] = ts[i][j] BY <3>1 DEF Laid
    <3>4. e[i - 1] + j \in 1..k
      <4> DEFINE n == Len(ts[i])
                 from == e[i - 1]
                 till == e[i]
      <4>1. n \in Nat BY <1>1
      <4>2. from \in Nat /\ till \in Nat /\ till <= k BY <3>1, <1>2, <1>8
      <4>3. k \in Nat BY <1>2
      <4>4. till = from + n + 1 BY <3>2
      <4>5. j \in 1..n OBVIOUS
      <4> HIDE DEF n, from, till, k
      <4>6. from + j \in 1..k BY <4>1, <4>2, <4>3, <4>4, <4>5
      <4> QED BY <4>6 DEF from
    <3> QED BY <3>1, <3>3, <3>4, <1>6, <1>7
  <2> QED BY <2>1, <2>2
<1>11. \A i, j \in 0..m : i < j => f[i] < f[j]
  <2> SUFFICES ASSUME NEW i \in 0..m, NEW j \in 0..m, i < j PROVE f[i] < f[j] OBVIOUS
  <2>1. i \in 0..(m - 1) BY <1>1
  <2>2. CASE j = m BY <2>1, <2>2, <1>2, <1>3, <1>7, <1>8
  <2>3. CASE j # m
    <3>1. j \in 0..(m - 1) BY <2>3, <1>1
    <3>2. e[i] < e[j] BY <2>1, <3>1 DEF Laid
    <3> QED BY <2>1, <3>1, <3>2, <1>7
  <2> QED BY <2>2, <2>3
<1>12. \A p \in 1..f[m] : \E i \in 1..m : f[i - 1] < p /\ p <= f[i]
  <2> SUFFICES ASSUME NEW p \in 1..f[m] PROVE \E i \in 1..m : f[i - 1] < p /\ p <= f[i] OBVIOUS
  <2>1. CASE p <= k
    <3>1. p \in 1..k BY <2>1, <1>2
    <3>2. PICK i \in 1..(m - 1) : e[i - 1] < p /\ p <= e[i] BY <3>1 DEF Laid
    <3>3. i \in 1..m /\ i - 1 \in 0..(m - 1) /\ i \in 0..(m - 1) BY <3>2, <1>1
    <3> QED BY <3>2, <3>3, <1>7
  <2>2. CASE p > k
    <3>1. f[m - 1] = k /\ m \in 1..m BY <1>1, <1>7
    <3>2. f[m - 1] < p /\ p <= f[m] BY <3>1, <2>2, <1>2, <1>3, <1>7
    <3> QED BY <3>1, <3>2
  <2> QED BY <2>1, <2>2, <1>2
<1>13. Laid(ts, m, c, f)
  BY <1>6, <1>7, <1>9, <1>10, <1>11, <1>12 DEF Laid
<1> QED BY <1>13 DEF c, a

Chain(h, s, n) == h = [i \in 1..n |-> IF i = 1 THEN s[i] ELSE h[i - 1] \o s[i]]

LEMMA ChainExists ==
  ASSUME NEW s, NEW n \in Nat
  PROVE  \E h : Chain(h, s, n)
<1> DEFINE bad == {m \in Nat : ~ \E h : Chain(h, s, m)}
<1>1. SUFFICES ASSUME bad # {} PROVE FALSE OBVIOUS
<1>2. PICK m \in bad : \A k \in bad : m <= k BY <1>1, LeastOf
<1>3. Chain([i \in 1..0 |-> IF i = 1 THEN s[i] ELSE s[i]], s, 0)
  <2>1. 1..0 = {} OBVIOUS
  <2> QED BY <2>1 DEF Chain
<1>4. m \in Nat /\ m # 0 BY <1>2, <1>3
<1>5. m - 1 \in Nat /\ m - 1 \notin bad BY <1>2, <1>4
<1>6. PICK h : Chain(h, s, m - 1) BY <1>5
<1> HIDE DEF bad
<1> DEFINE q == [i \in 1..m |-> IF i = m THEN (IF m = 1 THEN s[1] ELSE h[m - 1] \o s[m]) ELSE h[i]]
<1>7. \A i \in 1..m : q[i] = IF i = 1 THEN s[i] ELSE q[i - 1] \o s[i]
  <2> SUFFICES ASSUME NEW i \in 1..m PROVE q[i] = IF i = 1 THEN s[i] ELSE q[i - 1] \o s[i] OBVIOUS
  <2>1. CASE i = m
    <3>1. i # 1 => q[i - 1] = h[i - 1] BY <2>1, <1>4
    <3>2. q[i] = IF m = 1 THEN s[1] ELSE h[m - 1] \o s[m] BY <2>1
    <3> HIDE DEF q
    <3> QED BY <2>1, <3>1, <3>2
  <2>2. CASE i # m
    <3>1. i \in 1..(m - 1) /\ (i # 1 => i - 1 # m /\ i - 1 \in 1..m) BY <2>2, <1>4
    <3>2. h[i] = IF i = 1 THEN s[i] ELSE h[i - 1] \o s[i] BY <3>1, <1>6 DEF Chain
    <3>3. q[i] = h[i] BY <2>2
    <3>4. i # 1 => q[i - 1] = h[i - 1] BY <3>1
    <3> HIDE DEF q
    <3> QED BY <3>2, <3>3, <3>4
  <2> QED BY <2>1, <2>2
<1>8. q = [i \in 1..m |-> q[i]] OBVIOUS
<1> HIDE DEF q
<1>9. Chain(q, s, m) BY <1>7, <1>8 DEF Chain
<1> QED BY <1>2, <1>9 DEF bad

\* All of them, by the recursion of FlattenSeq.
LEMMA BlobLaid ==
  ASSUME NEW ts \in Seq(Seq(Letters))
  PROVE  \E e : Laid(ts, Len(ts), Blob(ts), e)
<1> DEFINE n == Len(ts)
           s == [i \in DOMAIN ts |-> Append(ts[i], NUL)]
           F(g) == g = [i \in 1..Len(s) |-> IF i = 1 THEN s[i] ELSE g[i - 1] \o s[i]]
           g == CHOOSE h : F(h)
<1>1. n \in Nat /\ DOMAIN ts = 1..n /\ Len(s) = n /\ DOMAIN s = 1..n /\ \A i \in 1..n : s[i] = Append(ts[i], NUL)
  OBVIOUS
<1>2. Blob(ts) = IF Len(s) = 0 THEN s ELSE g[Len(s)]
  BY DEF Blob, FlattenSeq
<1>3. Laid(ts, 0, <<>>, [i \in 0..0 |-> 0])
  BY DEF Laid
<1>4. CASE n = 0
  <2>1. s = <<>> BY <1>1, <1>4
  <2> QED BY <2>1, <1>1, <1>2, <1>3, <1>4
<1>5. CASE n # 0
  <2>1. PICK h : Chain(h, s, n) BY <1>1, ChainExists
  <2>2. F(g)
    <3>1. F(h) BY <2>1, <1>1 DEF Chain
    <3> HIDE DEF F
    <3> QED BY <3>1
  <2>3. \A i \in 1..n : g[i] = IF i = 1 THEN s[i] ELSE g[i - 1] \o s[i]
    BY <2>2, <1>1
  <2> HIDE DEF g
  <2> DEFINE P(m) == \E e : Laid(ts, m, g[m], e)
             short == {m \in 1..n : ~P(m)}
  <2>4. P(1)
    <3>1. 1 \in 1..n BY <1>1, <1>5
    <3> DEFINE o == [i \in 0..0 |-> 0]
    <3>0. Laid(ts, 1 - 1, <<>>, o) BY <1>3
    <3> HIDE DEF o
    <3>2. PICK e : Laid(ts, 1, <<>> \o Append(ts[1], NUL), e) BY <3>0, <3>1, LaidMore
    <3>3. <<>> \o Append(ts[1], NUL) = Append(ts[1], NUL)
      <4>1. ts[1] \in Seq(Letters) BY <3>1
      <4>2. Append(ts[1], NUL) \in Seq(Nat) BY <4>1 DEF Letters, NUL
      <4> QED BY <4>2
    <3>4. g[1] = Append(ts[1], NUL) BY <3>1, <2>3, <1>1
    <3> QED BY <3>2, <3>3, <3>4
  <2>5. P(n)
    <3> HIDE DEF P
    <3> SUFFICES ASSUME short # {} PROVE FALSE BY <1>1, <1>5
    <3>1. short \subseteq Nat OBVIOUS
    <3>2. PICK m \in short : \A k \in short : m <= k BY <3>1, LeastOf
    <3>3. m \in 2..n /\ m - 1 \in 1..n /\ m \in 1..n BY <3>2, <2>4, <1>1
    <3>4. m - 1 \notin short BY <3>2, <3>3
    <3>5. P(m - 1) BY <3>3, <3>4
    <3>6. PICK e : Laid(ts, m - 1, g[m - 1], e) BY <3>5 DEF P
    <3>7. PICK f : Laid(ts, m, g[m - 1] \o Append(ts[m], NUL), f) BY <3>3, <3>6, LaidMore
    <3>8. g[m] = g[m - 1] \o Append(ts[m], NUL)
      <4>1. m # 1 /\ m \in 1..n BY <3>3, <1>1
      <4>2. s[m] = Append(ts[m], NUL) BY <4>1, <1>1
      <4> HIDE DEF s
      <4> QED BY <4>1, <4>2, <2>3
    <3>9. P(m) BY <3>7, <3>8 DEF P
    <3> QED BY <3>2, <3>9
  <2> QED BY <2>5, <1>1, <1>2, <1>5
<1> QED BY <1>4, <1>5

\* A text in memory: c is the strings themselves, or with EOFs behind them.
Sealed(b, c) == /\ c \in Seq(Nat) /\ Len(b) <= Len(c)
                /\ \A p \in 1..Len(b) : c[p] = b[p]
                /\ \A p \in 1..Len(c) : p > Len(b) => c[p] = EOF

LEMMA CharactersOf ==
  ASSUME NEW ts \in Seq(Seq(Letters)), NEW b, NEW e, Laid(ts, Len(ts), b, e)
  PROVE  \A p \in 1..Len(b) : b[p] # EOF /\ (b[p] = NUL => \E i \in 1..Len(ts) : p = e[i])
<1> SUFFICES ASSUME NEW p \in 1..Len(b)
             PROVE  b[p] # EOF /\ (b[p] = NUL => \E i \in 1..Len(ts) : p = e[i])
  OBVIOUS
<1> DEFINE n == Len(ts)
<1>1. n \in Nat /\ Len(b) = e[n] BY DEF Laid
<1>2. PICK i \in 1..n : e[i - 1] < p /\ p <= e[i] BY <1>1 DEF Laid
<1>3. i \in 0..n /\ i - 1 \in 0..n BY <1>1
<1>4. e[i] \in Nat /\ e[i - 1] \in Nat BY <1>3 DEF Laid
<1>5. e[i] = e[i - 1] + Len(ts[i]) + 1 /\ b[e[i]] = NUL BY DEF Laid
<1>6. ts[i] \in Seq(Letters) /\ Len(ts[i]) \in Nat BY <1>1
<1>7. p \in Nat BY <1>1, <1>2, <1>4
<1>8. CASE p = e[i]
  <2>1. NUL # EOF BY DEF NUL, EOF
  <2> QED BY <1>5, <1>8, <2>1
<1>9. CASE p # e[i]
  <2>1. p - e[i - 1] \in 1..Len(ts[i]) BY <1>2, <1>4, <1>5, <1>6, <1>7, <1>9, Places
  <2>2. b[e[i - 1] + (p - e[i - 1])] = ts[i][p - e[i - 1]] BY <2>1 DEF Laid
  <2>3. e[i - 1] + (p - e[i - 1]) = p BY <1>4, <1>7
  <2>4. ts[i][p - e[i - 1]] \in Letters BY <2>1, <1>6
  <2> QED BY <2>2, <2>3, <2>4 DEF Letters
<1> QED BY <1>8, <1>9

LEMMA NulsOfTexts ==
  ASSUME NEW ts \in Seq(Seq(Letters)), NEW b, NEW e, Laid(ts, Len(ts), b, e), NEW c, Sealed(b, c)
  PROVE  Nuls(c) = {e[i] : i \in 1..Len(ts)} /\ Nuls(c) \subseteq Nat
<1> DEFINE n == Len(ts)
<1>1. n \in Nat /\ b \in Seq(Nat) /\ Len(b) = e[n] /\ e \in [0..n -> Nat] /\ e[0] = 0 BY DEF Laid
<1>2. c \in Seq(Nat) /\ DOMAIN c = 1..Len(c) /\ Len(c) \in Nat /\ Len(b) \in Nat BY <1>1 DEF Sealed
<1>3. ASSUME NEW p \in Nuls(c) PROVE \E i \in 1..n : p = e[i]
  <2>1. p \in 1..Len(c) /\ c[p] = NUL BY <1>2 DEF Nuls
  <2>2. p \in 1..Len(b) /\ b[p] = NUL
    <3>1. NUL # EOF BY DEF NUL, EOF
    <3> QED BY <2>1, <3>1, <1>2 DEF Sealed
  <2> QED BY <2>2, CharactersOf
<1>4. ASSUME NEW i \in 1..n PROVE e[i] \in Nuls(c)
  <2>1. i \in 0..n /\ 0 \in 0..n /\ n \in 0..n /\ 0 < i BY <1>1
  <2>2. e[0] < e[i] /\ e[i] \in Nat /\ e[i] <= e[n]
    <3>1. e[0] < e[i] BY <2>1 DEF Laid
    <3>2. i < n => e[i] < e[n] BY <2>1 DEF Laid
    <3>3. e[i] \in Nat BY <2>1, <1>1
    <3> QED BY <3>1, <3>2, <3>3, <1>1
  <2>3. e[i] \in 1..Len(b) BY <2>2, <1>1
  <2>4. b[e[i]] = NUL BY DEF Laid
  <2>5. c[e[i]] = NUL /\ e[i] \in 1..Len(c) BY <2>3, <2>4, <1>2 DEF Sealed
  <2> QED BY <2>5, <1>2 DEF Nuls
<1>5. Nuls(c) \subseteq Nat BY <1>2 DEF Nuls
<1> QED BY <1>3, <1>4, <1>5

LEMMA EndsInOrder ==
  ASSUME NEW ts, NEW n \in Nat, NEW b, NEW e, Laid(ts, n, b, e), NEW i \in 0..n, NEW j \in 0..n
  PROVE  e[i] \in Nat /\ (e[i] <= e[j] <=> i <= j)
<1>1. e[i] \in Nat /\ e[j] \in Nat BY DEF Laid
<1>2. i < j => e[i] < e[j] BY DEF Laid
<1>3. j < i => e[j] < e[i] BY DEF Laid
<1> QED BY <1>1, <1>2, <1>3

LEMMA NulBehind ==
  ASSUME NEW ts \in Seq(Seq(Letters)), NEW b, NEW e, Laid(ts, Len(ts), b, e), NEW c, Sealed(b, c),
         NEW i \in 1..Len(ts)
  PROVE  NulFrom(c, e[i - 1] + 1) = e[i] /\ StringAt(c, e[i - 1] + 1) = ts[i]
<1> DEFINE n == Len(ts)
           I == {j \in Nuls(c) : j >= e[i - 1] + 1}
<1>1. n \in Nat /\ i \in 0..n /\ i - 1 \in 0..n /\ n \in 0..n BY DEF Laid
<1>2. e[i] \in Nat /\ e[i - 1] \in Nat /\ e[i] = e[i - 1] + Len(ts[i]) + 1
  BY <1>1, EndsInOrder DEF Laid
<1>3. ts[i] \in Seq(Letters) /\ Len(ts[i]) \in Nat BY <1>1
<1>4. Nuls(c) = {e[k] : k \in 1..n} /\ Nuls(c) \subseteq Nat BY NulsOfTexts
<1>5. e[i] \in I BY <1>2, <1>3, <1>4
<1>6. Min(I) \in I /\ \A y \in I : Min(I) <= y BY <1>4, <1>5, LeastOf
<1>7. PICK k \in 1..n : Min(I) = e[k] BY <1>4, <1>6
<1>8. k \in 0..n /\ e[k] \in Nat BY <1>1, <1>7, EndsInOrder
<1>9. k >= i
  <2>1. e[i - 1] + 1 <= e[k] BY <1>6, <1>7
  <2>2. ~(e[k] <= e[i - 1]) BY <2>1, <1>2, <1>8
  <2>3. ~(k <= i - 1) BY <2>2, <1>1, <1>8, EndsInOrder
  <2> QED BY <2>3, <1>1, <1>8
<1>10. e[k] <= e[i] BY <1>5, <1>6, <1>7
<1>11. k <= i BY <1>10, <1>1, <1>8, EndsInOrder
<1>12. k = i BY <1>9, <1>11, <1>1, <1>8
<1>13. NulFrom(c, e[i - 1] + 1) = e[i] BY <1>5, <1>7, <1>12 DEF NulFrom
<1>14. StringAt(c, e[i - 1] + 1) = SubSeq(c, e[i - 1] + 1, e[i] - 1) BY <1>13 DEF StringAt
<1>15. c \in Seq(Nat) /\ b \in Seq(Nat) /\ Len(b) = e[n] /\ Len(b) <= Len(c) /\ Len(c) \in Nat
  BY DEF Sealed, Laid
<1>16. e[i] <= Len(b) BY <1>1, <1>15, EndsInOrder
<1>17. \A j \in 1..Len(ts[i]) : c[e[i - 1] + j] = ts[i][j]
  <2> SUFFICES ASSUME NEW j \in 1..Len(ts[i]) PROVE c[e[i - 1] + j] = ts[i][j] OBVIOUS
  <2>1. b[e[i - 1] + j] = ts[i][j] BY DEF Laid
  <2>2. j \in Nat /\ 1 <= j /\ j <= Len(ts[i]) BY <1>3
  <2>3. e[i - 1] + j \in 1..Len(b)
    <3>1. Len(b) \in Nat BY <1>15
    <3> QED BY <3>1, <1>2, <1>3, <1>16, Places
  <2> QED BY <2>1, <2>3 DEF Sealed
<1> DEFINE s == e[i - 1]
           l == Len(ts[i])
           t == ts[i]
<1>18. SubSeq(c, s + 1, s + l) = t
  <2>1. s \in Nat /\ l \in Nat /\ s + l <= Len(c)
    <3>1. e[i] = s + l + 1 /\ e[i] <= Len(b) /\ Len(b) <= Len(c) /\ Len(b) \in Nat /\ Len(c) \in Nat
      BY <1>2, <1>15, <1>16
    <3>2. s \in Nat /\ l \in Nat BY <1>2, <1>3
    <3> HIDE DEF s, l
    <3> QED BY <3>1, <3>2
  <2>2. t \in Seq(Letters) /\ Len(t) = l /\ \A j \in 1..l : c[s + j] = t[j] BY <1>3, <1>17
  <2> HIDE DEF s, l, t
  <2>0. c \in Seq(Nat) /\ Len(c) \in Nat BY <1>15
  <2>3. Len(SubSeq(c, s + 1, s + l)) = l /\ SubSeq(c, s + 1, s + l) \in Seq(Nat) BY <2>0, <2>1, PartOf
  <2>4. \A j \in 1..l : SubSeq(c, s + 1, s + l)[j] = c[s + j] BY <2>0, <2>1, PartOf
  <2> DEFINE u == SubSeq(c, s + 1, s + l)
  <2>5. u \in Seq(Nat) /\ Len(u) = l /\ \A j \in 1..l : u[j] = t[j] BY <2>2, <2>3, <2>4
  <2> HIDE DEF u
  <2>6. u = t BY <2>1, <2>2, <2>5
  <2> QED BY <2>6 DEF u
<1>19. e[i] - 1 = s + l BY <1>2, <1>3
<1> QED BY <1>13, <1>14, <1>18, <1>19

LEMMA CountedBy ==
  ASSUME NEW S, NEW k \in Nat, NEW f \in Bijection(1..k, S)
  PROVE  Cardinality(S) = k
<1>1. ExistsBijection(1..k, S) BY DEF ExistsBijection
<1>2. IsFiniteSet(1..k) /\ Cardinality(1..k) = k BY FS_Interval
<1> QED BY <1>1, <1>2, FS_Bijection

LEMMA NulNumber ==
  ASSUME NEW ts \in Seq(Seq(Letters)), NEW b, NEW e, Laid(ts, Len(ts), b, e), NEW c, Sealed(b, c)
  PROVE  /\ Cardinality(Nuls(c)) = Len(ts)
         /\ \A k \in 1..Len(ts) : NthNul(c, k) = e[k]
<1> DEFINE n == Len(ts)
           Upto(i) == {j \in Nuls(c) : j <= i}
<1>1. n \in Nat /\ e \in [0..n -> Nat] BY DEF Laid
<1>2. Nuls(c) = {e[i] : i \in 1..n} /\ Nuls(c) \subseteq Nat BY NulsOfTexts
<1>3. ASSUME NEW k \in 0..n PROVE Upto(e[k]) = {e[i] : i \in 1..k}
  <2>1. ASSUME NEW i \in 1..n PROVE e[i] <= e[k] <=> i <= k
    <3>1. i \in 0..n BY <1>1
    <3> HIDE DEF n
    <3> QED BY <3>1, <1>1, EndsInOrder DEF n
  <2>2. \A i \in 1..k : i \in 1..n /\ i <= k BY <1>1
  <2>3. \A i \in 1..n : i <= k => i \in 1..k BY <1>1
  <2> QED BY <2>1, <2>2, <2>3, <1>2
<1>4. ASSUME NEW k \in 0..n PROVE Cardinality({e[i] : i \in 1..k}) = k
  <2> DEFINE f == [i \in 1..k |-> e[i]]
             S == {e[i] : i \in 1..k}
  <2>1. \A i, j \in 1..k : e[i] = e[j] => i = j
    <3> SUFFICES ASSUME NEW i \in 1..k, NEW j \in 1..k, e[i] = e[j] PROVE i = j OBVIOUS
    <3>1. i \in 0..n /\ j \in 0..n BY <1>1
    <3>2. e[i] <= e[j] /\ e[j] <= e[i] BY <3>1, <1>1, EndsInOrder
    <3>3. i <= j /\ j <= i BY <3>1, <3>2, <1>1, EndsInOrder
    <3> QED BY <3>3
  <2>2. f \in [1..k -> S] OBVIOUS
  <2>3. \A y \in S : \E i \in 1..k : f[i] = y OBVIOUS
  <2>4. \A i, j \in 1..k : f[i] = f[j] => i = j BY <2>1
  <2> HIDE DEF f, S
  <2>5. f \in Bijection(1..k, S) BY <2>2, <2>3, <2>4, Zenon DEF Bijection, Injection, Surjection, IsInjective
  <2>6. k \in Nat BY <1>1
  <2>7. Cardinality(S) = k BY <2>5, <2>6, CountedBy
  <2> QED BY <2>7 DEF S
<1>5. Cardinality(Nuls(c)) = n
  <2>1. n \in 0..n BY <1>1
  <2> QED BY <2>1, <1>2, <1>4
<1>6. ASSUME NEW k \in 1..n PROVE NthNul(c, k) = e[k]
  <2>1. ASSUME NEW i \in Nuls(c) PROVE Cardinality(Upto(i)) = k <=> i = e[k]
    <3>1. PICK j \in 1..n : i = e[j] BY <1>2
    <3>2. j \in 0..n /\ k \in 0..n BY <1>1
    <3>3. Cardinality(Upto(i)) = j BY <3>1, <3>2, <1>3, <1>4
    <3>4. e[j] = e[k] => j = k
      <4>1. ASSUME e[j] = e[k] PROVE j = k
        <5>1. e[j] <= e[k] /\ e[k] <= e[j] BY <4>1, <3>2, <1>1
        <5>2. j <= k /\ k <= j BY <5>1, <3>2, <1>1, EndsInOrder
        <5> QED BY <5>2
      <4> QED BY <4>1
    <3> QED BY <3>1, <3>3, <3>4
  <2>2. e[k] \in Nuls(c) BY <1>2
  <2> QED BY <2>1, <2>2 DEF NthNul
<1> QED BY <1>5, <1>6

\* What cmd makes of /proc/<pid>/cmdline is the arguments.
Parsed(s) == [n \in 1..Cardinality(Nuls(s)) |-> StringAt(s, Starts(s)[n])]
LEMMA CommandLineParsed ==
  ASSUME NEW ts \in Seq(Seq(Letters))
  PROVE  Trimmed(Blob(ts)) = Blob(ts) /\ Parsed(Blob(ts)) = ts
<1> DEFINE n == Len(ts)
           b == Blob(ts)
<1>1. PICK e : Laid(ts, n, b, e) BY BlobLaid
<1> HIDE DEF b
<1>2. n \in Nat /\ b \in Seq(Nat) /\ e \in [0..n -> Nat] /\ e[0] = 0 BY <1>1 DEF Laid
<1>3. Trimmed(b) = b
  <2>1. \A p \in 1..Len(b) : b[p] # EOF BY <1>1, CharactersOf
  <2>2. b # <<>> => Last(b) # EOF BY <2>1, <1>2 DEF Last
  <2> QED BY <2>2 DEF Trimmed
<1>4. Sealed(b, b) BY <1>2 DEF Sealed
<1>5. Cardinality(Nuls(b)) = n /\ \A k \in 1..n : NthNul(b, k) = e[k] BY <1>1, <1>4, NulNumber
<1>6. ASSUME NEW k \in 1..n PROVE StringAt(b, Starts(b)[k]) = ts[k]
  <2> DEFINE r == [i \in 1..n |-> NthNul(b, i) + 1]
  <2>1. Starts(b) = <<1>> \o r BY <1>5 DEF Starts
  <2>2. r \in Seq(Nat) /\ Len(r) = n /\ \A i \in 1..n : r[i] = e[i] + 1
    <3>1. \A i \in 1..n : i \in 0..n BY <1>2
    <3>2. \A i \in 1..n : e[i] \in Nat BY <3>1, <1>2
    <3>3. \A i \in 1..n : NthNul(b, i) + 1 = e[i] + 1 /\ e[i] + 1 \in Nat BY <3>2, <1>5
    <3> QED BY <3>3, <1>2
  <2> HIDE DEF r
  <2>3. (<<1>> \o r)[k] = e[k - 1] + 1
    <3>1. CASE k = 1
      <4>1. (<<1>> \o r)[1] = 1 BY <2>2, <1>2
      <4> QED BY <3>1, <4>1, <1>2
    <3>2. CASE k # 1
      <4>1. k - 1 \in 1..n /\ k \in Nat /\ k > 1 BY <3>2, <1>2
      <4>2. (<<1>> \o r)[k] = r[k - 1] BY <4>1, <2>2, <1>2
      <4> QED BY <4>1, <4>2, <2>2
    <3> QED BY <3>1, <3>2
  <2>4. StringAt(b, e[k - 1] + 1) = ts[k] BY <1>1, <1>4, NulBehind
  <2> QED BY <2>1, <2>3, <2>4
<1>7. Parsed(b) = [k \in 1..n |-> ts[k]] BY <1>5, <1>6 DEF Parsed
<1>8. ts = [k \in 1..n |-> ts[k]] OBVIOUS
<1> QED BY <1>3, <1>7, <1>8 DEF b

\* The end that the loop over the environment finds on Linux is behind its last text.
LEMMA EndFound ==
  ASSUME NEW ts \in Seq(Seq(Letters)), platform = "linux", buf = Append(Blob(ts), EOF)
  PROVE  find_end = Len(Blob(ts)) + 1 /\ Len(buf) = Len(Blob(ts)) + 1 /\ Sealed(Blob(ts), buf)
<1> DEFINE b == Blob(ts)
           I == {i \in 1..Len(buf) : buf[i] = EOF}
<1>1. PICK e : Laid(ts, Len(ts), b, e) BY BlobLaid
<1>2. \A p \in 1..Len(b) : b[p] # EOF BY <1>1, CharactersOf
<1>3. b \in Seq(Nat) /\ EOF \in Nat BY <1>1 DEF Laid, EOF
<1> HIDE DEF b
<1>4. /\ buf \in Seq(Nat) /\ Len(buf) = Len(b) + 1 /\ Len(b) \in Nat
      /\ \A p \in 1..Len(b) : buf[p] = b[p]
      /\ buf[Len(b) + 1] = EOF
  BY <1>3 DEF b
<1>5. I = {Len(b) + 1} BY <1>2, <1>4
<1>6. Min(I) = Len(b) + 1
  <2> HIDE DEF I
  <2>1. Min({Len(b) + 1}) = Len(b) + 1 BY <1>4 DEF Min
  <2> QED BY <2>1, <1>5
<1>7. find_end = Min(I) BY <1>5 DEF find_end, SelectInSeq
<1>8. Sealed(b, buf) BY <1>4 DEF Sealed
<1> QED BY <1>4, <1>6, <1>7, <1>8 DEF b

-------------------------------------------------------------------------------
(***************************************************************************)
(* The inductive invariant of cmd, env, cwd and exe.  What is read on the   *)
(* way and what is returned is described for the calls during which only    *)
(* one answer, of one program, was right: seen = {v}.                      *)
(***************************************************************************)
\* What the process of a pid is.
ProcessTypes == [state : {"none", "alive", "zombie"}, born : Nat, parent : Pids \cup {0, 1},
                 image : Images \cup {0}, loaded : Nat, cwd : Dirs \cup {<<>>}]
\* Nobody was born, or ran a program, later than now; who exists runs a program and is in a directory.
ProcessesOk ==
  /\ events \in Nat /\ procs \in [Pids -> ProcessTypes]
  /\ \A p \in Pids : /\ procs[p].born <= events /\ procs[p].loaded <= events
                     /\ Exists(p) => procs[p].image \in Images /\ procs[p].cwd \in Dirs

Asking == pc \notin {"idle", "done", "overrun"}

\* What is asked and on which system, at each place of a query.
Placed ==
  /\ platform \in Platforms
  /\ pc \in {"idle", "begin", "read", "split", "walk", "argv", "text", "user", "memory", "params", "done", "overrun"}
  /\ pc # "idle" => call.op \in Ops /\ call.pid \in Pids
  /\ pc # "done" => ec = "none"
  /\ pc \in {"idle", "begin", "read", "split"} => answer = <<>>
  /\ pc \in {"idle", "begin"} => buf = <<>> /\ offset = 0
  /\ pc \in {"read", "split"} => platform = "linux" /\ call.op \in {"cmd", "env"}
  /\ pc = "walk" => call.op = "env"
  /\ pc = "overrun" => call.op \in {"cmd", "env"}
  /\ pc = "text" => platform \in Bsd /\ call.op \in {"cwd", "exe"}
  /\ pc = "user" => platform = "sun" /\ call.op \in {"cmd", "env"}
  /\ pc = "memory" => platform \in {"windows", "sun"} /\ (call.op = "cwd" => platform = "windows")

\* While the query runs, what is true now is among what is remembered.
Remembered == IsFiniteSet(seen) /\ (Asking => Now \in seen) /\ (pc # "idle" => seen # {})

\* While only one answer was right and the process is still the one whose file was opened, it runs
\* the program it ran then, and what has been read is the beginning of that answer's bytes.
ExtReadOk ==
  pc = "read" => /\ held.born \in Int /\ held.born <= events
                 /\ buf \in Seq(Nat) /\ offset \in Nat /\ (buf = <<>> => offset = 0)
                 /\ \A v : seen = {v} =>
                      /\ Is(call.pid, held.born) => procs[call.pid].loaded = held.loaded
                      /\ offset \in 0..Len(Blob(v.is)) /\ buf = SubSeq(Blob(v.is), 1, offset)
\* A whole file was read; a command line without a character is that of a process without one.
SplitOk == pc = "split" => /\ \A v : seen = {v} => buf = Blob(v.is)
                           /\ call.op = "cmd" /\ buf = <<>> => Unknown \in RightAnswers
\* The loop has passed the first k texts.
PassedTo(ts, k, e) == Laid(ts, Len(ts), Blob(ts), e) /\ answer = SubSeq(ts, 1, k) /\ mark = e[k] + 1
Passed(ts) == \E k \in 0..Len(ts) : \E e : PassedTo(ts, k, e)
ExtWalkOk == pc = "walk" /\ platform = "linux" =>
            \A v : seen = {v} => /\ v.is \in Seq(Seq(Letters)) /\ buf = Append(Blob(v.is), EOF)
                                 /\ Passed(v.is)
\* Windows: the length read is that of the directory.
CwdOk  == pc = "memory" /\ call.op = "cwd" => \A v : seen = {v} => size = Len(v.is)
\* What is returned, and that the loop on Linux ends.
DoneOk == pc = "done" /\ ec = "none" /\ (call.op = "env" => platform = "linux") =>
            /\ \A v : seen = {v} => answer = v.is
            /\ call.op \in {"cwd", "exe"} /\ platform # "windows" => answer \in RightAnswers
OverOk == pc = "overrun" /\ platform = "linux" =>
            /\ call.op = "env" => \A v : seen # {v}
            /\ call.op = "cmd" => Unknown \in RightAnswers

Answering == ExtReadOk /\ SplitOk /\ ExtWalkOk /\ CwdOk /\ DoneOk /\ OverOk
ExtInv == ProcessesOk /\ Placed /\ Remembered /\ Answering

LEMMA TruthTypes ==
  ASSUME TextsGiven, ProcessesOk, Placed, pc # "idle"
  PROVE  /\ call.op \in {"cmd", "env"} => ExtTruth \in Seq(Seq(Letters))
         /\ call.op \in {"cwd", "exe"} => ExtTruth \in Seq(Letters)
<1>1. call.op \in Ops /\ call.pid \in Pids BY DEF Placed
<1>2. Alive(call.pid) => procs[call.pid].image \in Images /\ procs[call.pid].cwd \in Dirs
  BY <1>1 DEF ProcessesOk, Alive, Exists
<1>3. <<>> \in Seq(Letters) /\ <<>> \in Seq(Seq(Letters)) OBVIOUS
<1> QED BY <1>1, <1>2, <1>3 DEF ExtTruth, Of, Unknown, TextsGiven, Ops

LEMMA EmptyBlob == Blob(<<>>) = <<>>
<1>1. [i \in DOMAIN <<>> |-> Append(<<>>[i], NUL)] = <<>> OBVIOUS
<1>2. FlattenSeq(<<>>) = <<>> BY DEF FlattenSeq
<1>3. Blob(<<>>) = FlattenSeq([i \in DOMAIN <<>> |-> Append(<<>>[i], NUL)]) BY DEF Blob
<1> QED BY <1>1, <1>2, <1>3

\* A step of the query but its first and last: nobody changed meanwhile.
LEMMA Quietly ==
  ASSUME ExtInv, ExtRemember, UNCHANGED <<platform, call, procs, events>>, Asking, pc' # "idle"
  PROVE  /\ seen' = seen /\ ProcessesOk' /\ Remembered' /\ Now' = Now /\ Now \in seen
         /\ \A v : seen = {v} => v = Now /\ v.is = ExtTruth
         /\ ExtTruth \in RightAnswers
<1>1. Now' = Now /\ ExtTruth' = ExtTruth BY DEF Now, ExtTruth, Program, Alive
<1>2. Now \in seen /\ IsFiniteSet(seen) /\ seen # {} BY DEF ExtInv, Remembered, Asking
<1>3. seen' = seen BY <1>1, <1>2 DEF ExtRemember, Asking
<1>4. ProcessesOk' BY DEF ExtInv, ProcessesOk, Exists
<1>5. Remembered' BY <1>1, <1>2, <1>3 DEF Remembered
<1>6. Now.is = ExtTruth BY DEF Now
<1>7. ExtTruth \in RightAnswers BY <1>2, <1>6 DEF RightAnswers
<1> QED BY <1>1, <1>2, <1>3, <1>4, <1>5, <1>6, <1>7

-------------------------------------------------------------------------------
(* Steps that many queries have.                                            *)
LEMMA FailStep ==
  ASSUME ExtInv, ExtRemember, Asking, NEW e, e # "none", ExtFails(e)
  PROVE  ExtInv'
<1>1. UNCHANGED <<platform, call, procs, events>> /\ pc' = "done" /\ ec' = e BY DEF ExtFails, Goto
<1>2. seen' = seen /\ ProcessesOk' /\ Remembered' BY <1>1, Quietly
<1>3. Placed' BY <1>1 DEF ExtInv, Placed, Asking
<1>4. Answering' BY <1>1 DEF Answering, ExtReadOk, SplitOk, ExtWalkOk, CwdOk, DoneOk, OverOk
<1> QED BY <1>2, <1>3, <1>4 DEF ExtInv

LEMMA ExtReturnStep ==
  ASSUME ExtInv, ExtRemember, Asking, NEW x, ExtReturns(x),
         call.op = "env" => platform = "linux",
         \A v : seen = {v} => x = v.is,
         call.op \in {"cwd", "exe"} /\ platform # "windows" => x \in RightAnswers
  PROVE  ExtInv'
<1>1. UNCHANGED <<platform, call, procs, events>> /\ pc' = "done" /\ answer' = x BY DEF ExtReturns, Goto
<1>2. seen' = seen /\ ProcessesOk' /\ Remembered' BY <1>1, Quietly
<1>3. Placed' BY <1>1 DEF ExtInv, Placed, Asking
<1>4. RightAnswers' = RightAnswers BY <1>2 DEF RightAnswers
<1>5. Answering' BY <1>1, <1>2, <1>4 DEF Answering, ExtReadOk, SplitOk, ExtWalkOk, CwdOk, DoneOk, OverOk
<1> QED BY <1>2, <1>3, <1>5 DEF ExtInv

LEMMA TruthStep ==
  ASSUME ExtInv, ExtRemember, Asking, ExtReturns(ExtTruth), call.op # "env"
  PROVE  ExtInv'
<1>1. UNCHANGED <<platform, call, procs, events>> /\ pc' # "idle" BY DEF ExtReturns, Goto
<1>2. (\A v : seen = {v} => ExtTruth = v.is) /\ ExtTruth \in RightAnswers BY <1>1, Quietly
<1> QED BY <1>2, ExtReturnStep

\* Nothing is claimed of what is read on the way but on Linux and of a directory on Windows.
LEMMA OnTheWay ==
  ASSUME ExtInv, ExtRemember, Asking, UNCHANGED <<platform, call, procs, events>>, Placed',
         \/ pc' \in {"argv", "text", "user", "params"}
         \/ pc' = "memory" /\ call.op # "cwd"
         \/ pc' = "walk" /\ platform # "linux"
         \/ pc' \in {"done", "overrun"} /\ platform # "linux" /\ call.op = "env"
  PROVE  ExtInv'
<1>1. ProcessesOk' /\ Remembered' BY Quietly
<1>2. platform' = platform /\ call' = call OBVIOUS
<1>3. Answering' BY <1>2 DEF Answering, ExtReadOk, SplitOk, ExtWalkOk, CwdOk, DoneOk, OverOk
<1> QED BY <1>1, <1>3 DEF ExtInv

-------------------------------------------------------------------------------
(* The systems that ask the kernel.                                         *)
LEMMA LinkStep == ASSUME ExtInv, ExtRemember, Link PROVE ExtInv'
<1>1. Asking /\ pc = "begin" /\ call.op \in {"cwd", "exe"} BY DEF Link, ExtAt, Asking
<1>2. CASE Alive(call.pid)
  <2>1. ExtReturns(ExtTruth) /\ call.op # "env" BY <1>1, <1>2 DEF Link
  <2> QED BY <1>1, <2>1, TruthStep
<1>3. CASE ~Alive(call.pid)
  <2>1. ExtFails("ENOENT") BY <1>3 DEF Link
  <2> QED BY <1>1, <2>1, FailStep
<1> QED BY <1>2, <1>3

LEMMA KernelAnswers ==
  ASSUME ExtInv, ExtRemember, Asking, call.op # "env", NEW e, e # "none", ExtReturns(ExtTruth) \/ ExtFails(e)
  PROVE  ExtInv'
BY TruthStep, FailStep

LEMMA KvmFailsStep == ASSUME ExtInv, ExtRemember, KvmFails PROVE ExtInv'
<1>1. Asking /\ ExtFails("EMFILE") BY DEF KvmFails, ExtAt, Asking
<1> QED BY <1>1, FailStep

LEMMA KvmProcStep == ASSUME ExtInv, ExtRemember, KvmProc PROVE ExtInv'
<1>1. Asking BY DEF KvmProc, ExtAt, Asking
<1>2. CASE ~Exists(call.pid)
  <2>1. ExtFails("ESRCH") BY <1>2 DEF KvmProc
  <2> QED BY <1>1, <2>1, FailStep
<1>3. CASE Exists(call.pid)
  <2>1. Goto("argv") /\ UNCHANGED <<offset, size, buf, answer, ec, mark>> BY <1>3 DEF KvmProc
  <2>2. UNCHANGED <<platform, call, procs, events>> /\ pc' = "argv" BY <2>1 DEF Goto
  <2>3. Placed' BY <2>1, <2>2, <1>1 DEF ExtInv, Placed, Asking
  <2> QED BY <1>1, <2>2, <2>3, OnTheWay
<1> QED BY <1>2, <1>3

LEMMA KvmArgvStep == ASSUME ExtInv, ExtRemember, KvmArgv PROVE ExtInv'
<1>1. Asking /\ call.op # "env" BY DEF KvmArgv, ExtAt, Asking
<1>2. ExtReturns(ExtTruth) \/ ExtFails("ESRCH") BY DEF KvmArgv
<1> QED BY <1>1, <1>2, KernelAnswers

\* The texts of an environment, but on Linux.
LEMMA EnvironmentStep ==
  ASSUME ExtInv, ExtRemember, Asking, call.op = "env", platform # "linux", Goto("walk"),
         UNCHANGED <<held, offset, size, answer, ec>>
  PROVE  ExtInv'
<1>1. UNCHANGED <<platform, call, procs, events>> /\ pc' = "walk" BY DEF Goto
<1>2. Placed' BY <1>1 DEF ExtInv, Placed, Asking
<1> QED BY <1>1, <1>2, OnTheWay

LEMMA KvmEnvvStep == ASSUME ExtInv, ExtRemember, KvmEnvv PROVE ExtInv'
<1>1. Asking /\ call.op = "env" /\ platform # "linux" BY DEF KvmEnvv, ExtAt, Asking, Bsd
<1>2. ExtFails("ESRCH") \/ (Goto("walk") /\ UNCHANGED <<held, offset, size, answer, ec>>) BY DEF KvmEnvv
<1> QED BY <1>1, <1>2, FailStep, EnvironmentStep

LEMMA AskLengthStep == ASSUME ExtInv, ExtRemember, AskLength PROVE ExtInv'
<1>1. Asking /\ platform \in Bsd /\ call.op \in {"cwd", "exe"} BY DEF AskLength, BySysctl, ExtAt, Asking
<1>2. CASE Alive(call.pid)
  <2>1. Goto("text") /\ UNCHANGED <<held, offset, buf, answer, ec, mark>> BY <1>2 DEF AskLength
  <2>2. UNCHANGED <<platform, call, procs, events>> /\ pc' = "text" BY <2>1 DEF Goto
  <2>3. Placed' BY <2>1, <2>2, <1>1 DEF ExtInv, Placed, Asking
  <2> QED BY <1>1, <2>2, <2>3, OnTheWay
<1>3. CASE ~Alive(call.pid)
  <2>1. ExtFails("ESRCH") BY <1>3 DEF AskLength
  <2> QED BY <1>1, <2>1, FailStep
<1> QED BY <1>2, <1>3

LEMMA AskTextStep == ASSUME ExtInv, ExtRemember, AskText PROVE ExtInv'
<1>1. Asking /\ call.op # "env" BY DEF AskText, ExtInv, Placed, Asking
<1>2. ExtReturns(ExtTruth) \/ ExtFails("ESRCH") \/ ExtFails("ENOMEM") BY DEF AskText
<1> QED BY <1>1, <1>2, TruthStep, FailStep

LEMMA AskCwdStep == ASSUME ExtInv, ExtRemember, AskCwd PROVE ExtInv'
<1>1. Asking /\ call.op # "env" BY DEF AskCwd, ExtAt, Asking
<1>2. ExtReturns(ExtTruth) \/ ExtFails("ESRCH") BY DEF AskCwd
<1> QED BY <1>1, <1>2, KernelAnswers

LEMMA NoExeStep == ASSUME ExtInv, ExtRemember, NoExe PROVE ExtInv'
<1>1. Asking /\ ExtFails("ENOTSUP") BY DEF NoExe, ExtAt, Asking
<1> QED BY <1>1, FailStep

LEMMA SunProcStep == ASSUME ExtInv, ExtRemember, SunProc PROVE ExtInv'
<1>1. Asking /\ platform = "sun" /\ call.op \in {"cmd", "env"} BY DEF SunProc, ExtAt, Asking
<1>2. CASE ~Exists(call.pid)
  <2>1. ExtFails("ESRCH") BY <1>2 DEF SunProc
  <2> QED BY <1>1, <2>1, FailStep
<1>3. CASE Exists(call.pid)
  <2>1. Goto("user") /\ UNCHANGED <<offset, size, buf, answer, ec, mark>> BY <1>3 DEF SunProc
  <2>2. UNCHANGED <<platform, call, procs, events>> /\ pc' = "user" BY <2>1 DEF Goto
  <2>3. Placed' BY <2>1, <2>2, <1>1 DEF ExtInv, Placed, Asking
  <2> QED BY <1>1, <2>2, <2>3, OnTheWay
<1> QED BY <1>2, <1>3

LEMMA SunUserStep == ASSUME ExtInv, ExtRemember, SunUser PROVE ExtInv'
<1>1. Asking /\ platform = "sun" /\ call.op \in {"cmd", "env"} BY DEF SunUser, ExtInv, Placed, Asking
<1>2. CASE ~Addressed
  <2>1. ExtFails("EFAULT") BY <1>2 DEF SunUser
  <2> QED BY <1>1, <2>1, FailStep
<1>3. CASE Addressed
  <2>1. Goto("memory") /\ UNCHANGED <<held, offset, size, buf, answer, ec, mark>> BY <1>3 DEF SunUser
  <2>2. UNCHANGED <<platform, call, procs, events>> /\ pc' = "memory" BY <2>1 DEF Goto
  <2>3. Placed' BY <2>1, <2>2, <1>1 DEF ExtInv, Placed, Asking
  <2>4. call.op # "cwd" BY <1>1
  <2> QED BY <1>1, <2>2, <2>3, <2>4, OnTheWay
<1> QED BY <1>2, <1>3

LEMMA SunCmdStep == ASSUME ExtInv, ExtRemember, SunCmd PROVE ExtInv'
<1>1. Asking /\ call.op # "env" BY DEF SunCmd, ExtAt, Asking
<1>2. ExtReturns(ExtTruth) \/ ExtFails("EFAULT") BY DEF SunCmd
<1> QED BY <1>1, <1>2, KernelAnswers

LEMMA SunEnvStep == ASSUME ExtInv, ExtRemember, SunEnv PROVE ExtInv'
<1>1. Asking /\ call.op = "env" /\ platform # "linux" BY DEF SunEnv, ExtAt, Asking
<1>2. ExtFails("EFAULT") \/ (Goto("walk") /\ UNCHANGED <<held, offset, size, answer, ec>>) BY DEF SunEnv
<1> QED BY <1>1, <1>2, FailStep, EnvironmentStep

-------------------------------------------------------------------------------
(* Windows, macOS, and the rest.                                            *)
LEMMA ModuleFileNameStep == ASSUME ExtInv, ExtRemember, ModuleFileName PROVE ExtInv'
<1>1. Asking /\ call.op # "env" /\ ExtReturns(ExtTruth) BY DEF ModuleFileName, ExtAt, Asking
<1> QED BY <1>1, TruthStep

LEMMA OpenProcessStep == ASSUME ExtInv, ExtRemember, OpenProcess PROVE ExtInv'
<1>1. Asking BY DEF OpenProcess, Asking
<1>2. CASE Exists(call.pid)
  <2>1. Goto("params") /\ UNCHANGED <<offset, size, buf, answer, ec, mark>> BY <1>2 DEF OpenProcess
  <2>2. UNCHANGED <<platform, call, procs, events>> /\ pc' = "params" BY <2>1 DEF Goto
  <2>3. Placed' BY <2>1, <2>2, <1>1 DEF ExtInv, Placed, Asking
  <2> QED BY <1>1, <2>2, <2>3, OnTheWay
<1>3. CASE ~Exists(call.pid)
  <2>1. ExtFails("ERROR_INVALID_PARAMETER") BY <1>3 DEF OpenProcess
  <2> QED BY <1>1, <2>1, FailStep
<1> QED BY <1>2, <1>3

LEMMA ReadParamsStep == ASSUME ExtInv, ExtRemember, ReadParams PROVE ExtInv'
<1>1. Asking /\ platform = "windows" /\ pc = "params" /\ call.op \in {"cmd", "env", "cwd"} BY DEF ReadParams, ExtAt, Asking
<1>2. CASE Readable
  <2>1. Goto("memory") /\ size' = Len(ExtTruth) /\ UNCHANGED <<held, offset, buf, answer, ec, mark>>
    BY <1>2 DEF ReadParams
  <2>2. UNCHANGED <<platform, call, procs, events>> /\ pc' = "memory" BY <2>1 DEF Goto
  <2>3. Placed' BY <2>1, <2>2, <1>1 DEF ExtInv, Placed, Asking
  <2>4. seen' = seen /\ ProcessesOk' /\ Remembered' /\ \A v : seen = {v} => v.is = ExtTruth BY <1>1, <2>2, Quietly
  <2>5. CwdOk' BY <2>1, <2>4 DEF CwdOk
  <2>6. Answering' BY <2>2, <2>5 DEF Answering, ExtReadOk, SplitOk, ExtWalkOk, DoneOk, OverOk
  <2> QED BY <2>3, <2>4, <2>6 DEF ExtInv
<1>3. CASE ~Readable
  <2>1. ExtFails("ERROR_PARTIAL_COPY") BY <1>3 DEF ReadParams
  <2> QED BY <1>1, <2>1, FailStep
<1> QED BY <1>2, <1>3

LEMMA ReadCmdStep == ASSUME ExtInv, ExtRemember, ReadCmd PROVE ExtInv'
<1>1. Asking /\ call.op # "env" BY DEF ReadCmd, ExtAt, Asking
<1>2. ExtReturns(ExtTruth) \/ ExtFails("ERROR_PARTIAL_COPY") BY DEF ReadCmd
<1> QED BY <1>1, <1>2, KernelAnswers

LEMMA WholeText ==
  ASSUME NEW T, NEW t \in Seq(T)
  PROVE  SubSeq(t, 1, Len(t)) = t
OBVIOUS

LEMMA ReadCwdStep == ASSUME ExtInv, ExtRemember, TextsGiven, ReadCwd PROVE ExtInv'
<1>1. Asking /\ pc = "memory" /\ call.op = "cwd" /\ platform = "windows" BY DEF ReadCwd, ExtAt, Asking, ExtInv, Placed
<1>2. ExtTruth \in Seq(Letters) BY <1>1, TruthTypes DEF ExtInv
<1>3. CASE ExtFails("ERROR_PARTIAL_COPY") BY <1>1, <1>3, FailStep
<1>4. CASE ExtFails("ERROR_INVALID_NAME") BY <1>1, <1>4, FailStep
<1>5. CASE ExtReturns(SubSeq(ExtTruth, 1, size))
  <2>1. UNCHANGED <<platform, call, procs, events>> /\ pc' # "idle" BY <1>5 DEF ExtReturns, Goto
  <2>2. \A v : seen = {v} => v.is = ExtTruth /\ size = Len(ExtTruth)
    <3>1. \A v : seen = {v} => v.is = ExtTruth BY <1>1, <2>1, Quietly
    <3>2. \A v : seen = {v} => size = Len(v.is) BY <1>1 DEF ExtInv, Answering, CwdOk
    <3> QED BY <3>1, <3>2
  <2>3. \A v : seen = {v} => SubSeq(ExtTruth, 1, size) = v.is BY <2>2, <1>2, WholeText
  <2> QED BY <1>1, <1>5, <2>3, ExtReturnStep
<1> QED BY <1>3, <1>4, <1>5 DEF ReadCwd

LEMMA ReadEnvStep == ASSUME ExtInv, ExtRemember, ReadEnv PROVE ExtInv'
<1>1. Asking /\ call.op = "env" /\ platform # "linux" BY DEF ReadEnv, ExtAt, Asking
<1>2. ExtFails("ERROR_PARTIAL_COPY") \/ (Goto("walk") /\ UNCHANGED <<held, offset, size, answer, ec>>) BY DEF ReadEnv
<1> QED BY <1>1, <1>2, FailStep, EnvironmentStep

LEMMA ImageNameStep == ASSUME ExtInv, ExtRemember, ImageName PROVE ExtInv'
<1>1. Asking /\ call.op # "env" BY DEF ImageName, ExtAt, Asking
<1>2. ExtReturns(ExtTruth) \/ ExtFails("ERROR_GEN_FAILURE") BY DEF ImageName
<1> QED BY <1>1, <1>2, KernelAnswers

LEMMA MacStep == ASSUME ExtInv, ExtRemember, MacCmd \/ MacEnv \/ MacPath \/ ExtUnsupported PROVE ExtInv'
<1>1. Asking BY DEF MacCmd, MacEnv, MacPath, ExtUnsupported, ExtAt, Asking
<1>2. CASE MacCmd
  <2>1. ExtFails("EINVAL") \/ ExtFails("ESRCH") BY <1>2 DEF MacCmd
  <2> QED BY <1>1, <2>1, FailStep
<1>3. CASE MacEnv
  <2>1. call.op = "env" /\ platform = "macos" BY <1>3 DEF MacEnv, ExtAt
  <2>2. CASE ExtFails("ESRCH") BY <1>1, <2>2, FailStep
  <2>3. CASE ExtReturns(<<>>)
    <3>1. UNCHANGED <<platform, call, procs, events>> /\ pc' = "done" BY <2>3 DEF ExtReturns, Goto
    <3>2. Placed' BY <3>1, <2>1, <2>3, <1>1 DEF ExtInv, Placed, Asking, ExtReturns
    <3> QED BY <1>1, <2>1, <3>1, <3>2, OnTheWay
  <2> QED BY <1>3, <2>2, <2>3 DEF MacEnv
<1>4. CASE MacPath
  <2>1. call.op # "env" /\ (ExtReturns(ExtTruth) \/ ExtFails("ESRCH")) BY <1>4 DEF MacPath, ExtAt
  <2> QED BY <1>1, <2>1, KernelAnswers
<1>5. CASE ExtUnsupported
  <2>1. ExtFails("ENOTSUP") BY <1>5 DEF ExtUnsupported
  <2> QED BY <1>1, <2>1, FailStep
<1> QED BY <1>2, <1>3, <1>4, <1>5

-------------------------------------------------------------------------------
(* Linux reads a file chunk by chunk.                                       *)
LEMMA LinuxOpenStep == ASSUME ExtInv, ExtRemember, TextsGiven, LinuxOpen PROVE ExtInv'
<1>1. Asking /\ platform = "linux" /\ pc = "begin" /\ call.op \in {"cmd", "env"} BY DEF LinuxOpen, ExtAt, Asking
<1>2. /\ UNCHANGED <<platform, call, procs, events>> /\ pc' = "read"
      /\ UNCHANGED <<offset, size, buf, answer, ec, mark>> /\ (Held \/ held' = noone)
  BY DEF LinuxOpen, Goto
<1>3. Placed' BY <1>1, <1>2 DEF ExtInv, Placed
<1>4. seen' = seen /\ ProcessesOk' /\ Remembered' /\ Now \in seen /\ \A v : seen = {v} => v.is = ExtTruth
  BY <1>1, <1>2, Quietly
<1>5. call.pid \in Pids /\ buf = <<>> /\ offset = 0 BY <1>1 DEF ExtInv, Placed
<1>6. procs[call.pid].born \in Nat /\ procs[call.pid].born <= events /\ events \in Nat
  BY <1>5 DEF ExtInv, ProcessesOk, ProcessTypes
<1>7. held'.born \in Int /\ held'.born <= events /\ (Is(call.pid, held'.born) => procs[call.pid].loaded = held'.loaded)
  <2>1. CASE held' = [born |-> procs[call.pid].born, loaded |-> procs[call.pid].loaded]
    BY <2>1, <1>6
  <2>2. CASE held' = noone BY <2>2, <1>6 DEF noone, Is
  <2>3. \/ held' = [born |-> procs[call.pid].born, loaded |-> procs[call.pid].loaded]
        \/ held' = noone
    BY <1>2 DEF Held, Target
  <2> QED BY <2>1, <2>2, <2>3
<1>8. \A v : seen = {v} => 0 \in 0..Len(Blob(v.is)) /\ <<>> = SubSeq(Blob(v.is), 1, 0)
  <2> SUFFICES ASSUME NEW v, seen = {v} PROVE 0 \in 0..Len(Blob(v.is)) /\ <<>> = SubSeq(Blob(v.is), 1, 0)
    OBVIOUS
  <2>1. v.is \in Seq(Seq(Letters)) BY <1>1, <1>4, TruthTypes DEF ExtInv
  <2>2. PICK e : Laid(v.is, Len(v.is), Blob(v.is), e) BY <2>1, BlobLaid
  <2>3. Blob(v.is) \in Seq(Nat) BY <2>2 DEF Laid
  <2> QED BY <2>3
<1>9. ExtReadOk' BY <1>2, <1>4, <1>5, <1>7, <1>8 DEF ExtReadOk, Is, Exists
<1>10. Answering' BY <1>2, <1>9 DEF Answering, SplitOk, ExtWalkOk, CwdOk, DoneOk, OverOk
<1> QED BY <1>3, <1>4, <1>10 DEF ExtInv

\* The next chunk of a file.
LEMMA ChunkOf ==
  ASSUME NEW C \in Seq(Nat), NEW o \in 0..Len(C), NEW N \in Nat \ {0}
  PROVE  LET c == SubSeq(C, o + 1, Min({Len(C), o + N})) IN
         /\ o + Len(c) \in 0..Len(C)
         /\ SubSeq(C, 1, o) \o c = SubSeq(C, 1, o + Len(c))
         /\ Len(c) < N => o + Len(c) = Len(C)
<1> DEFINE m == IF Len(C) <= o + N THEN Len(C) ELSE o + N
           c == SubSeq(C, o + 1, m)
<1>1. Len(C) \in Nat /\ o \in Nat /\ o <= Len(C) OBVIOUS
<1>2. Min({Len(C), o + N}) = m BY <1>1 DEF Min
<1>3. m \in Nat /\ o <= m /\ m <= Len(C) /\ m - o \in Nat /\ (m - o < N => m = Len(C)) BY <1>1
<1> HIDE DEF m
<1> DEFINE l == m - o
<1>4. o + l = m /\ l \in Nat BY <1>1, <1>3
<1> HIDE DEF l
<1>5. SubSeq(C, o + 1, o + l) \in Seq(Nat) /\ Len(SubSeq(C, o + 1, o + l)) = l
      /\ \A j \in 1..l : SubSeq(C, o + 1, o + l)[j] = C[o + j]
  BY <1>1, <1>3, <1>4, PartOf
<1>6. c \in Seq(Nat) /\ Len(c) = l /\ \A j \in 1..l : c[j] = C[o + j] BY <1>4, <1>5
<1> DEFINE a == SubSeq(C, 1, o)
           d == SubSeq(C, 1, m)
<1>7. a \in Seq(Nat) /\ Len(a) = o /\ \A j \in 1..o : a[j] = C[j] BY <1>1
<1>8. d \in Seq(Nat) /\ Len(d) = m /\ \A j \in 1..m : d[j] = C[j] BY <1>1, <1>3
<1> HIDE DEF a, c, d
<1>9. a \o c \in Seq(Nat) /\ Len(a \o c) = m BY <1>4, <1>6, <1>7, Concatenated
<1>10. \A j \in 1..m : (a \o c)[j] = d[j]
  <2> SUFFICES ASSUME NEW j \in 1..m PROVE (a \o c)[j] = d[j] OBVIOUS
  <2>1. CASE j <= o
    <3>1. j \in 1..o BY <2>1, <1>1
    <3>2. (a \o c)[j] = a[j] BY <3>1, <1>6, <1>7, Concatenated
    <3> QED BY <3>1, <3>2, <1>7, <1>8
  <2>2. CASE j > o
    <3>1. j - o \in 1..l /\ o + (j - o) = j BY <2>2, <1>1, <1>3, <1>4
    <3>2. (a \o c)[o + (j - o)] = c[j - o] BY <3>1, <1>6, <1>7, Concatenated
    <3> QED BY <3>1, <3>2, <1>6, <1>8
  <2>3. j <= o \/ j > o
    <3>1. j \in Int /\ o \in Int BY <1>1, <1>3
    <3> QED BY <3>1
  <2> QED BY <2>1, <2>2, <2>3, Zenon
<1> DEFINE u == a \o c
<1>11. u = d
  <2>1. u \in Seq(Nat) /\ Len(u) = m /\ \A j \in 1..m : u[j] = d[j] BY <1>9, <1>10
  <2> HIDE DEF u
  <2> QED BY <2>1, <1>3, <1>8
<1>12. o + Len(c) = m BY <1>4, <1>6
<1>13. Len(c) < N => m = Len(C) BY <1>3, <1>6 DEF l
<1> HIDE DEF u
<1>14. /\ o + Len(c) \in 0..Len(C)
       /\ SubSeq(C, 1, o) \o c = SubSeq(C, 1, o + Len(c))
       /\ Len(c) < N => o + Len(c) = Len(C)
  BY <1>1, <1>3, <1>11, <1>12, <1>13 DEF u, a, d
<1>15. c = SubSeq(C, o + 1, Min({Len(C), o + N})) BY <1>2 DEF c
<1> QED BY <1>14, <1>15

\* The first chunk of a file has a character if the file has one.
LEMMA FirstChunk ==
  ASSUME NEW C \in Seq(Nat), NEW o \in Nat, NEW N \in Nat \ {0}
  PROVE  LET c == SubSeq(C, o + 1, Min({Len(C), o + N})) IN
         c \in Seq(Nat) /\ (o = 0 /\ c = <<>> => C = <<>>)
<1> DEFINE m == IF Len(C) <= o + N THEN Len(C) ELSE o + N
           c == SubSeq(C, o + 1, m)
<1>1. Min({Len(C), o + N}) = m /\ m \in Nat /\ m <= Len(C) BY DEF Min
<1>2. ASSUME o + 1 <= m PROVE c \in Seq(Nat) /\ Len(c) # 0
  <2> DEFINE l == m - o
  <2>1. l \in Nat /\ l # 0 /\ o + l = m BY <1>1, <1>2
  <2> HIDE DEF l, m
  <2>2. SubSeq(C, o + 1, o + l) \in Seq(Nat) /\ Len(SubSeq(C, o + 1, o + l)) = l
    BY <1>1, <2>1, PartOf
  <2> QED BY <2>1, <2>2
<1>3. ASSUME ~(o + 1 <= m) PROVE c = <<>>
  <2> HIDE DEF m
  <2> QED BY <1>1, <1>3
<1>4. ASSUME o = 0, ~(o + 1 <= m) PROVE C = <<>>
  <2>1. Len(C) \in Nat /\ (Len(C) = 0 => C = <<>>) OBVIOUS
  <2>2. m \in {Len(C), N} BY <1>4, <2>1
  <2>3. Len(C) = 0
    <3>1. m = 0 BY <1>1, <1>4
    <3> QED BY <3>1, <2>2
  <2> QED BY <2>1, <2>3
<1> HIDE DEF c, m
<1>5. c \in Seq(Nat) /\ (o = 0 /\ c = <<>> => C = <<>>)
  <2>1. <<>> \in Seq(Nat) /\ Len(<<>>) = 0 OBVIOUS
  <2>2. CASE o + 1 <= m
    <3>1. c \in Seq(Nat) /\ c # <<>> BY <2>1, <2>2, <1>2
    <3> QED BY <3>1
  <2>3. CASE ~(o + 1 <= m)
    <3>1. c = <<>> /\ (o = 0 => C = <<>>) BY <2>3, <1>3, <1>4
    <3> QED BY <3>1, <2>1
  <2> QED BY <2>2, <2>3
<1>6. c = SubSeq(C, o + 1, Min({Len(C), o + N})) BY <1>1 DEF c
<1> QED BY <1>5, <1>6

\* Only no texts at all have no bytes.
LEMMA NoBytes ==
  ASSUME NEW ts \in Seq(Seq(Letters))
  PROVE  Blob(ts) \in Seq(Nat) /\ (Blob(ts) = <<>> => ts = <<>>)
<1> DEFINE n == Len(ts)
           b == Blob(ts)
<1>1. PICK e : Laid(ts, n, b, e) BY BlobLaid
<1>2. n \in Nat OBVIOUS
<1> HIDE DEF n, b
<1>3. b \in Seq(Nat) /\ Len(b) = e[n] /\ e[0] = 0 BY <1>1 DEF Laid
<1>4. e[n] <= e[0] <=> n <= 0 BY <1>1, <1>2, EndsInOrder
<1>5. b = <<>> => n = 0 BY <1>2, <1>3, <1>4
<1>6. n = 0 => ts = <<>> BY DEF n
<1> QED BY <1>3, <1>5, <1>6 DEF b

LEMMA ContentTypes ==
  ASSUME ExtInv, TextsGiven, pc = "read"
  PROVE  Content \in Seq(Nat) /\ (call.op = "cmd" /\ Content = <<>> => ExtTruth = Unknown)
<1>1. call.op \in {"cmd", "env"} /\ call.pid \in Pids BY DEF ExtInv, Placed
<1>2. Alive(call.pid) => procs[call.pid].image \in Images
  BY <1>1 DEF ExtInv, ProcessesOk, Alive, Exists
<1>3. CASE ~Alive(call.pid) BY <1>3 DEF Content, ExtTruth
<1>4. CASE Alive(call.pid)
  <2>1. /\ ArgsOf[Target.image] \in Seq(Seq(Letters)) /\ EnvOf[Target.image] \in Seq(Seq(Letters))
    BY <1>2, <1>4 DEF TextsGiven, Target
  <2>2. /\ Blob(ArgsOf[Target.image]) \in Seq(Nat) /\ Blob(EnvOf[Target.image]) \in Seq(Nat)
        /\ Blob(ArgsOf[Target.image]) = <<>> => ArgsOf[Target.image] = <<>>
    BY <2>1, NoBytes
  <2>3. call.op = "cmd" => Content = Blob(ArgsOf[Target.image]) BY <1>4 DEF Content
  <2>4. call.op = "cmd" => ExtTruth = ArgsOf[Target.image] BY <1>4 DEF ExtTruth, Of, Target, Ops
  <2>5. call.op = "env" => Content \in {Blob(EnvOf[Target.image]), <<>>} BY <1>4 DEF Content
  <2>6. <<>> \in Seq(Nat) OBVIOUS
  <2> QED BY <1>1, <2>2, <2>3, <2>4, <2>5, <2>6 DEF Unknown
<1> QED BY <1>3, <1>4

LEMMA ContentIs ==
  ASSUME ExtInv, TextsGiven, pc = "read", Is(call.pid, held.born), Now \in seen, NEW v, seen = {v}
  PROVE  Content = Blob(v.is) /\ v.is \in Seq(Seq(Letters)) /\ Blob(v.is) \in Seq(Nat)
<1>1. call.op \in {"cmd", "env"} /\ call.pid \in Pids BY DEF ExtInv, Placed
<1>2. v.is = ExtTruth BY DEF Now
<1>3. ExtTruth \in Seq(Seq(Letters)) BY <1>1, TruthTypes DEF ExtInv
<1>4. PICK e : Laid(v.is, Len(v.is), Blob(v.is), e) BY <1>2, <1>3, BlobLaid
<1>5. Target.loaded = held.loaded BY DEF ExtInv, Answering, ExtReadOk, Target
<1>6. CASE ~Alive(call.pid)
  <2>1. ExtTruth = <<>> BY <1>6 DEF ExtTruth, Unknown
  <2>2. Content = <<>> BY <1>6 DEF Content
  <2> QED BY <2>1, <2>2, <1>2, <1>3, <1>4, EmptyBlob DEF Laid
<1>7. CASE Alive(call.pid)
  <2>1. ExtTruth = Of(procs[call.pid], call.op) BY <1>1, <1>7 DEF ExtTruth, Ops
  <2>2. Content = Blob(ExtTruth)
    <3>1. CASE call.op = "cmd" BY <3>1, <2>1, <1>7 DEF Content, Of, Target
    <3>2. CASE call.op = "env" BY <3>2, <2>1, <1>5, <1>7 DEF Content, Of, Target
    <3> QED BY <3>1, <3>2, <1>1
  <2> QED BY <2>2, <1>2, <1>3, <1>4 DEF Laid
<1> QED BY <1>6, <1>7

LEMMA LinuxReadStep == ASSUME ExtInv, ExtRemember, TextsGiven, LinuxRead PROVE ExtInv'
<1>1. Asking /\ platform = "linux" /\ pc = "read" BY DEF LinuxRead, Asking
<1>2. CASE ~Is(call.pid, held.born)
  <2>1. ExtFails("EBADF") \/ ExtFails("ESRCH") BY <1>2 DEF LinuxRead
  <2> QED BY <1>1, <2>1, FailStep
<1>3. CASE Is(call.pid, held.born)
  <2>1. /\ buf' = buf \o Chunk /\ offset' = offset + Len(Chunk)
        /\ Goto(IF Short(Chunk) THEN "split" ELSE "read")
        /\ UNCHANGED <<held, size, answer, ec, mark>>
    BY <1>3 DEF LinuxRead
  <2>2. UNCHANGED <<platform, call, procs, events>> /\ pc' = IF Short(Chunk) THEN "split" ELSE "read"
    BY <2>1 DEF Goto
  <2>3. pc' \in {"split", "read"} /\ call.op \in {"cmd", "env"} BY <2>2, <1>1 DEF ExtInv, Placed
  <2>4. Placed' BY <1>1, <2>1, <2>2, <2>3 DEF ExtInv, Placed
  <2>5. seen' = seen /\ ProcessesOk' /\ Remembered' /\ Now \in seen /\ ExtTruth \in RightAnswers
    BY <1>1, <2>2, <2>3, Quietly
  <2>6. ASSUME NEW v, seen = {v}
        PROVE  /\ offset' \in 0..Len(Blob(v.is)) /\ buf' = SubSeq(Blob(v.is), 1, offset')
               /\ pc' = "split" => buf' = Blob(v.is)
               /\ procs[call.pid].loaded = held.loaded
    <3>1. Content = Blob(v.is) /\ Blob(v.is) \in Seq(Nat) BY <1>1, <1>3, <2>5, <2>6, ContentIs
    <3>2. /\ offset \in 0..Len(Blob(v.is)) /\ buf = SubSeq(Blob(v.is), 1, offset)
          /\ procs[call.pid].loaded = held.loaded
      BY <1>1, <1>3, <2>6 DEF ExtInv, Answering, ExtReadOk
    <3> DEFINE C == Blob(v.is)
    <3>3. Chunk = SubSeq(C, offset + 1, Min({Len(C), offset + ChunkLen})) BY <3>1 DEF Chunk
    <3>4. C \in Seq(Nat) /\ offset \in 0..Len(C) /\ ChunkLen \in Nat \ {0} BY <3>1, <3>2 DEF TextsGiven
    <3>5. buf = SubSeq(C, 1, offset) BY <3>2
    <3> HIDE DEF C
    <3>6. /\ offset + Len(Chunk) \in 0..Len(C)
          /\ SubSeq(C, 1, offset) \o Chunk = SubSeq(C, 1, offset + Len(Chunk))
          /\ Len(Chunk) < ChunkLen => offset + Len(Chunk) = Len(C)
      BY <3>3, <3>4, ChunkOf
    <3>7. offset' \in 0..Len(C) /\ buf' = SubSeq(C, 1, offset') BY <2>1, <3>5, <3>6
    <3>8. pc' = "split" => offset' = Len(C) BY <2>1, <2>2, <3>6 DEF Short
    <3>9. pc' = "split" => buf' = C BY <3>4, <3>7, <3>8, WholeText
    <3> QED BY <3>2, <3>7, <3>9 DEF C
  <2>7. held'.born \in Int /\ held'.born <= events' BY <1>1, <2>1, <2>2 DEF ExtInv, Answering, ExtReadOk
  <2>11. buf \in Seq(Nat) /\ offset \in Nat /\ (buf = <<>> => offset = 0)
    BY <1>1 DEF ExtInv, Answering, ExtReadOk
  <2>12. Content \in Seq(Nat) /\ (call.op = "cmd" /\ Content = <<>> => ExtTruth = Unknown)
    BY <1>1, ContentTypes
  <2>13. Chunk \in Seq(Nat) /\ (offset = 0 /\ Chunk = <<>> => Content = <<>>)
    BY <2>11, <2>12, FirstChunk DEF Chunk, TextsGiven
  <2>14. /\ buf' \in Seq(Nat) /\ offset' \in Nat
         /\ buf' = <<>> => buf = <<>> /\ Chunk = <<>>
    <3>1. \A x, y \in Seq(Nat) : x \o y \in Seq(Nat) /\ (x \o y = <<>> => x = <<>> /\ y = <<>>)
      BY Concatenated
    <3> QED BY <3>1, <2>1, <2>11, <2>13
  <2>15. buf' = <<>> => offset' = 0
    <3>1. Chunk = <<>> => Len(Chunk) = 0 OBVIOUS
    <3> QED BY <3>1, <2>1, <2>11, <2>14
  <2>16. call.op = "cmd" /\ buf' = <<>> => Unknown \in RightAnswers
    BY <2>5, <2>11, <2>12, <2>13, <2>14
  <2>8. ExtReadOk' BY <2>1, <2>2, <2>5, <2>6, <2>7, <2>14, <2>15 DEF ExtReadOk
  <2>9. SplitOk' BY <2>2, <2>5, <2>6, <2>16 DEF SplitOk, RightAnswers
  <2>10. Answering' BY <2>3, <2>8, <2>9 DEF Answering, ExtWalkOk, CwdOk, DoneOk, OverOk
  <2> QED BY <2>4, <2>5, <2>10 DEF ExtInv
<1> QED BY <1>2, <1>3

LEMMA LinuxCmdStep == ASSUME ExtInv, ExtRemember, TextsGiven, LinuxCmd PROVE ExtInv'
<1>1. Asking /\ platform = "linux" /\ pc = "split" /\ call.op = "cmd" BY DEF LinuxCmd, ExtAt, Asking
<1>2. /\ UNCHANGED <<platform, call, procs, events, ec>> /\ pc' = "done"
      /\ answer' = Parsed(Trimmed(buf))
  BY DEF LinuxCmd, Goto, Parsed
<1>3. Placed' BY <1>1, <1>2 DEF ExtInv, Placed
<1>4. seen' = seen /\ ProcessesOk' /\ Remembered' /\ \A v : seen = {v} => v.is = ExtTruth BY <1>1, <1>2, Quietly
<1>5. ASSUME NEW v, seen = {v} PROVE answer' = v.is
  <2>1. v.is \in Seq(Seq(Letters)) BY <1>1, <1>4, <1>5, TruthTypes DEF ExtInv
  <2>2. buf = Blob(v.is) BY <1>1, <1>5 DEF ExtInv, Answering, SplitOk
  <2> QED BY <1>2, <2>1, <2>2, CommandLineParsed
<1>6. DoneOk' BY <1>1, <1>2, <1>4, <1>5 DEF DoneOk
<1>7. Answering' BY <1>2, <1>6 DEF Answering, ExtReadOk, SplitOk, ExtWalkOk, CwdOk, OverOk
<1> QED BY <1>3, <1>4, <1>7 DEF ExtInv

LEMMA LinuxCmdEmptyStep == ASSUME ExtInv, ExtRemember, LinuxCmdEmpty PROVE ExtInv'
<1>1. /\ Asking /\ platform = "linux" /\ pc = "split" /\ call.op = "cmd" /\ buf = <<>>
  BY DEF LinuxCmdEmpty, ExtAt, Asking
<1>2. /\ UNCHANGED <<platform, call, procs, events, ec>> /\ pc' = "overrun"
  BY DEF LinuxCmdEmpty, Goto
<1>3. Placed' BY <1>1, <1>2 DEF ExtInv, Placed
<1>4. seen' = seen /\ ProcessesOk' /\ Remembered' BY <1>1, <1>2, Quietly
<1>5. Unknown \in RightAnswers BY <1>1 DEF ExtInv, Answering, SplitOk
<1>6. OverOk' BY <1>1, <1>2, <1>4, <1>5 DEF OverOk, RightAnswers
<1>7. Answering' BY <1>2, <1>6 DEF Answering, ExtReadOk, SplitOk, ExtWalkOk, CwdOk, DoneOk
<1> QED BY <1>3, <1>4, <1>7 DEF ExtInv

LEMMA LinuxEnvStep == ASSUME ExtInv, ExtRemember, TextsGiven, LinuxEnv PROVE ExtInv'
<1>1. Asking /\ platform = "linux" /\ pc = "split" /\ call.op = "env" BY DEF LinuxEnv, ExtAt, Asking
<1>2. /\ UNCHANGED <<platform, call, procs, events, ec, answer>> /\ pc' = "walk"
      /\ buf' = Append(buf, EOF) /\ mark' = 1
  BY DEF LinuxEnv, Goto
<1>3. Placed' BY <1>1, <1>2 DEF ExtInv, Placed
<1>4. seen' = seen /\ ProcessesOk' /\ Remembered' /\ \A v : seen = {v} => v.is = ExtTruth BY <1>1, <1>2, Quietly
<1>5. ASSUME NEW v, seen = {v}
      PROVE  v.is \in Seq(Seq(Letters)) /\ buf' = Append(Blob(v.is), EOF) /\ Passed(v.is)'
  <2>1. v.is \in Seq(Seq(Letters)) BY <1>1, <1>4, <1>5, TruthTypes DEF ExtInv
  <2>2. buf = Blob(v.is) BY <1>1, <1>5 DEF ExtInv, Answering, SplitOk
  <2>3. PICK e : Laid(v.is, Len(v.is), Blob(v.is), e) BY <2>1, BlobLaid
  <2>4. e[0] = 0 BY <2>3 DEF Laid
  <2>5. answer' = <<>> BY <1>1, <1>2 DEF ExtInv, Placed
  <2>6. SubSeq(v.is, 1, 0) = <<>> /\ 0 \in 0..Len(v.is) BY <2>1
  <2>7. mark' = e[0] + 1 BY <1>2, <2>4
  <2> QED BY <1>2, <2>1, <2>2, <2>3, <2>5, <2>6, <2>7 DEF Passed, PassedTo
<1>6. ExtWalkOk' BY <1>4, <1>5 DEF ExtWalkOk
<1>7. Answering' BY <1>2, <1>6 DEF Answering, ExtReadOk, SplitOk, CwdOk, DoneOk, OverOk
<1> QED BY <1>3, <1>4, <1>7 DEF ExtInv

\* One turn of the loop over the environment.
LEMMA OneMoreText ==
  ASSUME NEW T, NEW t \in Seq(T), NEW k \in 0..Len(t)
  PROVE  /\ k < Len(t) => k + 1 \in 1..Len(t) /\ Append(SubSeq(t, 1, k), t[k + 1]) = SubSeq(t, 1, k + 1)
         /\ k = Len(t) => SubSeq(t, 1, k) = t
<1>1. ASSUME k < Len(t) PROVE k + 1 \in 1..Len(t) /\ Append(SubSeq(t, 1, k), t[k + 1]) = SubSeq(t, 1, k + 1)
  <2> DEFINE a == Append(SubSeq(t, 1, k), t[k + 1])
             b == SubSeq(t, 1, k + 1)
  <2>1. k \in Nat /\ Len(t) \in Nat /\ k + 1 \in 1..Len(t) BY <1>1
  <2>2. SubSeq(t, 1, k) \in Seq(T) /\ Len(SubSeq(t, 1, k)) = k BY <2>1
  <2>3. a \in Seq(T) /\ Len(a) = k + 1 /\ \A j \in 1..(k + 1) : a[j] = t[j] BY <2>1, <2>2
  <2>4. b \in Seq(T) /\ Len(b) = k + 1 /\ \A j \in 1..(k + 1) : b[j] = t[j] BY <2>1
  <2> HIDE DEF a, b
  <2>5. a = b BY <2>1, <2>3, <2>4
  <2> QED BY <2>1, <2>5 DEF a, b
<1> QED BY <1>1, WholeText

LEMMA TurnOfLoop ==
  ASSUME NEW ts \in Seq(Seq(Letters)), platform = "linux", buf = Append(Blob(ts), EOF), Passed(ts), Walk
  PROVE  \/ pc' = "done" /\ answer' = ts
         \/ pc' = "walk" /\ Passed(ts)'
<1> DEFINE n == Len(ts)
           b == Blob(ts)
<1>0. PICK k \in 0..n : \E e : PassedTo(ts, k, e) BY DEF Passed
<1>1. PICK e : Laid(ts, n, b, e) /\ answer = SubSeq(ts, 1, k) /\ mark = e[k] + 1 BY <1>0 DEF PassedTo
<1>2. find_end = Len(b) + 1 /\ Len(buf) = Len(b) + 1 /\ Sealed(b, buf) BY EndFound
<1>3. n \in Nat /\ k \in Nat /\ n \in 0..n /\ Len(b) = e[n] BY <1>1 DEF Laid
<1> HIDE DEF n, b
<1>4. e[k] \in Nat /\ e[n] \in Nat /\ e[k] <= e[n] /\ (e[n] <= e[k] <=> n <= k)
  <2>1. Laid(ts, n, b, e) BY <1>1
  <2>2. e[k] \in Nat /\ (e[k] <= e[n] <=> k <= n) BY <2>1, <1>3, EndsInOrder
  <2>3. e[n] \in Nat /\ (e[n] <= e[k] <=> n <= k) BY <2>1, <1>3, EndsInOrder
  <2> QED BY <2>2, <2>3, <1>3
<1>5. CASE k = n
  <2>1. mark = find_end BY <1>1, <1>2, <1>3, <1>5
  <2>2. pc' = "done" /\ answer' = answer BY <2>1 DEF Walk, Goto
  <2>3. answer = ts BY <1>1, <1>5, OneMoreText DEF n
  <2> QED BY <2>2, <2>3
<1>6. CASE k # n
  <2>1. k < Len(ts) /\ k < n BY <1>3, <1>6 DEF n
  <2>2. k + 1 \in 1..n /\ k + 1 \in 0..n /\ (k + 1) - 1 = k /\ Append(SubSeq(ts, 1, k), ts[k + 1]) = SubSeq(ts, 1, k + 1)
    BY <2>1, <1>3, OneMoreText DEF n
  <2>3. NulFrom(buf, e[(k + 1) - 1] + 1) = e[k + 1] /\ StringAt(buf, e[(k + 1) - 1] + 1) = ts[k + 1]
    BY <2>2, <1>1, <1>2, NulBehind DEF n
  <2>4. NulFrom(buf, mark) = e[k + 1] /\ StringAt(buf, mark) = ts[k + 1] BY <2>2, <2>3, <1>1
  <2>5. e[k + 1] \in Nat /\ ~(e[k + 1] <= e[k])
    <3>1. Laid(ts, n, b, e) BY <1>1
    <3>2. e[k + 1] \in Nat /\ (e[k + 1] <= e[k] <=> k + 1 <= k) BY <3>1, <2>2, <1>3, EndsInOrder
    <3> QED BY <3>2, <1>3
  <2>6. e[k] < e[n] BY <2>1, <1>3, <1>4
  <2>7. mark # find_end /\ ~(mark > Len(buf)) /\ NulFrom(buf, mark) # 0 BY <2>4, <2>5, <2>6, <1>1, <1>2, <1>3, <1>4
  <2>8. pc' = "walk" /\ answer' = Append(answer, StringAt(buf, mark)) /\ mark' = NulFrom(buf, mark) + 1
    BY <2>7 DEF Walk, Goto
  <2>9. answer' = SubSeq(ts, 1, k + 1) /\ mark' = e[k + 1] + 1 BY <2>2, <2>4, <2>8, <1>1
  <2>10. Passed(ts)' BY <2>2, <2>9, <1>1 DEF Passed, PassedTo, n, b
  <2> QED BY <2>8, <2>10
<1> QED BY <1>5, <1>6

LEMMA WalkStep == ASSUME ExtInv, ExtRemember, TextsGiven, Walk PROVE ExtInv'
<1>1. Asking /\ pc = "walk" /\ call.op = "env" BY DEF Walk, Asking, ExtInv, Placed
<1>2. /\ UNCHANGED <<platform, call, procs, events>> /\ pc' \in {"walk", "done", "overrun"}
      /\ UNCHANGED <<held, offset, size, buf, ec>>
  BY DEF Walk, Goto
<1>3. Placed' BY <1>1, <1>2 DEF ExtInv, Placed
<1>4. CASE platform # "linux" BY <1>1, <1>2, <1>3, <1>4, OnTheWay
<1>5. CASE platform = "linux"
  <2>1. seen' = seen /\ ProcessesOk' /\ Remembered' BY <1>1, <1>2, Quietly
  <2>2. ASSUME NEW v, seen = {v}
        PROVE  /\ v.is \in Seq(Seq(Letters)) /\ buf' = Append(Blob(v.is), EOF)
               /\ (pc' = "done" /\ answer' = v.is) \/ (pc' = "walk" /\ Passed(v.is)')
    <3>1. v.is \in Seq(Seq(Letters)) /\ buf = Append(Blob(v.is), EOF) /\ Passed(v.is)
      BY <1>1, <1>5, <2>2 DEF ExtInv, Answering, ExtWalkOk
    <3> QED BY <3>1, <1>2, <1>5, TurnOfLoop
  <2>3. ExtWalkOk' BY <2>1, <2>2 DEF ExtWalkOk
  <2>4. DoneOk' BY <2>1, <2>2, <1>1, <1>2 DEF DoneOk
  <2>5. OverOk' BY <2>1, <2>2, <1>1, <1>2 DEF OverOk
  <2>6. Answering' BY <1>2, <2>3, <2>4, <2>5 DEF Answering, ExtReadOk, SplitOk, CwdOk
  <2> QED BY <1>3, <2>1, <2>6 DEF ExtInv
<1> QED BY <1>4, <1>5

-------------------------------------------------------------------------------
(* The beginning and the end of a call, and the other processes.            *)
LEMMA ExtStartStep == ASSUME ExtInv, ExtRemember, ExtStart PROVE ExtInv'
<1>1. /\ pc = "idle" /\ pc' = "begin" /\ call'.op \in Ops /\ call'.pid \in Pids
      /\ UNCHANGED <<platform, procs, events, held, offset, size, buf, answer, ec, mark>>
  BY DEF ExtStart
<1>2. seen' = {Now'} BY <1>1 DEF ExtRemember
<1>3. ProcessesOk' BY <1>1 DEF ExtInv, ProcessesOk, Exists
<1>4. Placed' BY <1>1 DEF ExtInv, Placed
<1>5. Remembered' BY <1>1, <1>2, FS_Singleton DEF Remembered
<1>6. Answering' BY <1>1 DEF Answering, ExtReadOk, SplitOk, ExtWalkOk, CwdOk, DoneOk, OverOk
<1> QED BY <1>3, <1>4, <1>5, <1>6 DEF ExtInv

LEMMA ReturningStep == ASSUME ExtInv, ExtRemember, ExtReturn PROVE ExtInv'
<1>1. /\ pc = "done" /\ pc' = "idle" /\ buf' = <<>> /\ answer' = <<>> /\ offset' = 0 /\ ec' = "none"
      /\ UNCHANGED <<platform, procs, events>>
  BY DEF ExtReturn
<1>2. seen' = {Now'} BY <1>1 DEF ExtRemember
<1>3. ProcessesOk' BY <1>1 DEF ExtInv, ProcessesOk, Exists
<1>4. Placed' BY <1>1 DEF ExtInv, Placed
<1>5. Remembered' BY <1>1, <1>2, FS_Singleton DEF Remembered, Asking
<1>6. Answering' BY <1>1 DEF Answering, ExtReadOk, SplitOk, ExtWalkOk, CwdOk, DoneOk, OverOk
<1> QED BY <1>3, <1>4, <1>5, <1>6 DEF ExtInv

LEMMA ProcessesStep ==
  ASSUME TextsGiven, ProcessesOk, NEW w \in BOOLEAN, ProcessStep(w)
  PROVE  /\ ProcessesOk' /\ events' = events + 1
         /\ \A x \in Pids, h \in Int : h <= events /\ Is(x, h)' =>
              /\ Is(x, h)
              /\ \/ procs'[x].loaded = procs[x].loaded
                 \/ Alive(x) /\ Alive(x)' /\ procs'[x].loaded # procs[x].loaded
<1> DEFINE Kept(x, h) == h <= events /\ Is(x, h)' =>
                           /\ Is(x, h)
                           /\ \/ procs'[x].loaded = procs[x].loaded
                              \/ Alive(x) /\ Alive(x)' /\ procs'[x].loaded # procs[x].loaded
           Goal == ProcessesOk' /\ \A x \in Pids, h \in Int : Kept(x, h)
<1>1. /\ events \in Nat /\ procs \in [Pids -> ProcessTypes] /\ events' = events + 1
      /\ \A p \in Pids : /\ procs[p].born <= events /\ procs[p].loaded <= events
                         /\ Exists(p) => procs[p].image \in Images /\ procs[p].cwd \in Dirs
  BY DEF ProcessesOk, ProcessStep
<1>2. nobody \in ProcessTypes /\ nobody.state = "none" /\ nobody.born = 0 /\ nobody.loaded = 0
  BY DEF nobody, ProcessTypes
<1>3. ASSUME NEW p \in Pids, NEW r \in ProcessTypes, Becomes(p, r), r.born <= events', r.loaded <= events',
             r.state # "none" => r.image \in Images /\ r.cwd \in Dirs,
             \A h \in Int : h <= events /\ r.state # "none" /\ r.born = h =>
               /\ Is(p, h)
               /\ r.loaded = procs[p].loaded \/ (Alive(p) /\ r.state = "alive" /\ r.loaded # procs[p].loaded)
      PROVE  Goal
  <2>1. procs' = [procs EXCEPT ![p] = r] BY <1>3 DEF Becomes
  <2>2. procs' \in [Pids -> ProcessTypes] /\ procs'[p] = r /\ \A x \in Pids : x # p => procs'[x] = procs[x]
    BY <2>1, <1>1
  <2>3. events' \in Nat /\ events <= events' BY <1>1
  <2>4. ASSUME NEW x \in Pids
        PROVE  /\ procs'[x].born <= events' /\ procs'[x].loaded <= events'
               /\ procs'[x].state # "none" => procs'[x].image \in Images /\ procs'[x].cwd \in Dirs
    <3>1. CASE x = p BY <3>1, <2>2, <1>3
    <3>2. CASE x # p
      <4>1. procs'[x] = procs[x] /\ procs[x] \in ProcessTypes BY <3>2, <2>2, <1>1
      <4>2. procs[x].born \in Nat /\ procs[x].loaded \in Nat BY <4>1 DEF ProcessTypes
      <4> QED BY <4>1, <4>2, <2>3, <1>1 DEF Exists
    <3> QED BY <3>1, <3>2
  <2>5. ProcessesOk' BY <2>2, <2>3, <2>4 DEF ProcessesOk, Exists
  <2>6. ASSUME NEW x \in Pids, NEW h \in Int PROVE Kept(x, h)
    <3>1. CASE x = p BY <3>1, <2>2, <1>3 DEF Is, Exists, Alive
    <3>2. CASE x # p BY <3>2, <2>2 DEF Is, Exists, Alive
    <3> QED BY <3>1, <3>2
  <2> QED BY <2>5, <2>6
<1> SUFFICES Goal BY <1>1
<1> HIDE DEF Goal, Kept
<1>4. PICK p \in Pids : \/ \E q \in Pids : Fork(p, q)
                        \/ Exit(p) \/ Reap(p) \/ Vanish(p)
                        \/ \E i \in Images : Exec(p, i)
                        \/ \E d \in Dirs : ChDir(p, d)
  BY DEF ProcessStep
<1>5. /\ procs[p] \in ProcessTypes /\ procs[p].born \in Nat /\ procs[p].loaded \in Nat
      /\ procs[p].born <= events /\ procs[p].loaded <= events /\ events' \in Nat /\ events < events'
      /\ procs[p].born <= events' /\ procs[p].loaded <= events'
  BY <1>1 DEF ProcessTypes
<1>6. CASE \E q \in Pids : Fork(p, q)
  <2>1. PICK q \in Pids : Fork(p, q) BY <1>6
  <2> DEFINE r == [procs[p] EXCEPT !.parent = p, !.born = events + 1]
  <2>2. Becomes(q, r) /\ Alive(p) BY <2>1 DEF Fork
  <2>3. r \in ProcessTypes /\ r.born = events + 1 /\ r.loaded = procs[p].loaded /\ r.image = procs[p].image
        /\ r.cwd = procs[p].cwd
    BY <1>1, <1>5 DEF ProcessTypes
  <2>4. procs[p].image \in Images /\ procs[p].cwd \in Dirs BY <2>2, <1>1 DEF Alive, Exists
  <2> HIDE DEF r
  <2>5. \A h \in Int : h <= events => r.born # h BY <2>3, <1>1
  <2>6. r.born <= events' /\ r.loaded <= events' BY <2>3, <1>1, <1>5
  <2> QED BY <2>2, <2>3, <2>4, <2>5, <2>6, <1>3
<1>7. CASE Reap(p) \/ Vanish(p)
  <2>1. Becomes(p, nobody) BY <1>7 DEF Reap, Vanish
  <2>2. nobody.born <= events' /\ nobody.loaded <= events' BY <1>2, <1>5
  <2> QED BY <2>1, <2>2, <1>2, <1>3
<1>8. CASE \E i \in Images : Exec(p, i)
  <2>1. PICK i \in Images : Exec(p, i) BY <1>8
  <2> DEFINE r == [procs[p] EXCEPT !.image = i, !.loaded = events + 1]
  <2>2. Becomes(p, r) /\ Alive(p) BY <2>1 DEF Exec
  <2>3. /\ r \in ProcessTypes /\ r.born = procs[p].born /\ r.loaded = events + 1 /\ r.image = i
        /\ r.cwd = procs[p].cwd /\ r.state = procs[p].state
    BY <1>1, <1>5 DEF ProcessTypes
  <2>4. procs[p].image \in Images /\ procs[p].cwd \in Dirs BY <2>2, <1>1 DEF Alive, Exists
  <2> HIDE DEF r
  <2>5. r.loaded # procs[p].loaded /\ r.loaded <= events' /\ r.born <= events' BY <2>3, <1>1, <1>5
  <2>6. \A h \in Int : r.state # "none" /\ r.born = h => Is(p, h) BY <2>3 DEF Is, Exists
  <2>7. r.state = "alive" BY <2>2, <2>3 DEF Alive
  <2> QED BY <2>2, <2>3, <2>4, <2>5, <2>6, <2>7, <1>3
<1>9. CASE \E d \in Dirs : ChDir(p, d)
  <2>1. PICK d \in Dirs : ChDir(p, d) BY <1>9
  <2> DEFINE r == [procs[p] EXCEPT !.cwd = d]
  <2>2. Becomes(p, r) /\ Alive(p) BY <2>1 DEF ChDir
  <2>3. /\ r \in ProcessTypes /\ r.born = procs[p].born /\ r.loaded = procs[p].loaded /\ r.cwd = d
        /\ r.image = procs[p].image /\ r.state = procs[p].state
    BY <1>1, <1>5 DEF ProcessTypes
  <2>4. procs[p].image \in Images BY <2>2, <1>1 DEF Alive, Exists
  <2> HIDE DEF r
  <2>5. \A h \in Int : r.state # "none" /\ r.born = h => Is(p, h) BY <2>3 DEF Is, Exists
  <2> QED BY <2>2, <2>3, <2>4, <2>5, <1>3, <1>5
<1>10. CASE Exit(p)
  <2>1. /\ Alive(p)
        /\ procs' = [q \in Pids |-> IF q = p THEN [procs[p] EXCEPT !.state = "zombie"]
                                     ELSE IF q \in ChildrenOf(p) THEN [procs[q] EXCEPT !.parent = 1]
                                     ELSE procs[q]]
    BY <1>10 DEF Exit
  <2>2. ASSUME NEW x \in Pids
        PROVE  /\ procs'[x] \in ProcessTypes /\ procs'[x].born = procs[x].born /\ procs'[x].loaded = procs[x].loaded
               /\ procs'[x].image = procs[x].image /\ procs'[x].cwd = procs[x].cwd
               /\ procs'[x].state = "none" <=> procs[x].state = "none"
    <3>1. procs[x] \in ProcessTypes BY <1>1
    <3>2. CASE x = p
      <4>1. procs'[x] = [procs[x] EXCEPT !.state = "zombie"] BY <2>1, <3>2
      <4> QED BY <4>1, <3>1, <3>2, <2>1 DEF ProcessTypes, Alive
    <3>3. CASE x # p /\ x \in ChildrenOf(p)
      <4>1. procs'[x] = [procs[x] EXCEPT !.parent = 1] BY <2>1, <3>3
      <4> QED BY <4>1, <3>1 DEF ProcessTypes
    <3>4. CASE x # p /\ x \notin ChildrenOf(p)
      <4>1. procs'[x] = procs[x] BY <2>1, <3>4
      <4> QED BY <4>1, <3>1
    <3> QED BY <3>2, <3>3, <3>4
  <2>3. procs' = [q \in Pids |-> procs'[q]] BY <2>1
  <2>4. procs' \in [Pids -> ProcessTypes] BY <2>2, <2>3
  <2>5. \A x \in Pids : procs[x].born \in Nat /\ procs[x].loaded \in Nat BY <1>1 DEF ProcessTypes
  <2>6. \A x \in Pids : procs[x].born <= events' /\ procs[x].loaded <= events' BY <2>5, <1>1
  <2>7. ProcessesOk' BY <2>2, <2>4, <2>6, <1>1, <1>5 DEF ProcessesOk, Exists
  <2>8. \A x \in Pids, h \in Int : Kept(x, h) BY <2>2 DEF Kept, Is, Exists
  <2> QED BY <2>7, <2>8 DEF Goal
<1> QED BY <1>4, <1>6, <1>7, <1>8, <1>9, <1>10

LEMMA ExtOthersStep == ASSUME ExtInv, ExtRemember, TextsGiven, ExtOthers PROVE ExtInv'
<1>1. UNCHANGED extQuery /\ ProcessStep(platform = "windows") /\ (platform = "windows") \in BOOLEAN BY DEF ExtOthers
<1>2. UNCHANGED <<platform, pc, call, held, offset, size, buf, answer, ec, mark>> BY <1>1 DEF extQuery
<1>3. /\ ProcessesOk' /\ events' = events + 1
      /\ \A x \in Pids, h \in Int : h <= events /\ Is(x, h)' =>
           /\ Is(x, h)
           /\ \/ procs'[x].loaded = procs[x].loaded
              \/ Alive(x) /\ Alive(x)' /\ procs'[x].loaded # procs[x].loaded
  BY <1>1, ProcessesStep DEF ExtInv
<1>4. Placed' BY <1>2 DEF ExtInv, Placed
<1>5. CASE pc = "idle"
  <2>1. seen' = {Now'} BY <1>2, <1>5 DEF ExtRemember
  <2>2. Remembered' BY <2>1, <1>2, <1>5, FS_Singleton DEF Remembered, Asking
  <2>3. Answering' BY <1>2, <1>5 DEF Answering, ExtReadOk, SplitOk, ExtWalkOk, CwdOk, DoneOk, OverOk
  <2> QED BY <2>2, <2>3, <1>3, <1>4 DEF ExtInv
<1>6. CASE pc \in {"done", "overrun"}
  <2>1. seen' = seen BY <1>2, <1>6 DEF ExtRemember
  <2>2. Remembered' BY <2>1, <1>2, <1>6 DEF ExtInv, Remembered, Asking
  <2>3. RightAnswers' = RightAnswers BY <2>1 DEF RightAnswers
  <2>4. Answering' BY <2>1, <2>3, <1>2, <1>6 DEF ExtInv, Answering, ExtReadOk, SplitOk, ExtWalkOk, CwdOk, DoneOk, OverOk
  <2> QED BY <2>2, <2>4, <1>3, <1>4 DEF ExtInv
<1>7. CASE pc \notin {"idle", "done", "overrun"}
  <2>1. seen' = seen \cup {Now'} BY <1>2, <1>7 DEF ExtRemember
  <2>2. Now \in seen /\ IsFiniteSet(seen) BY <1>7 DEF ExtInv, Remembered, Asking
  <2>3. Remembered' BY <2>1, <2>2, <1>2, FS_AddElement DEF Remembered
  <2>4. \A v : seen' = {v} => seen = {v} /\ Now' = Now BY <2>1, <2>2
  <2>5. ASSUME pc = "read" PROVE ExtReadOk'
    <3>1. held.born \in Int /\ held.born <= events /\ events \in Nat /\ call.pid \in Pids /\ call.op \in Ops
      BY <2>5 DEF ExtInv, Answering, ExtReadOk, ProcessesOk, Placed
    <3>2. held.born <= events' BY <3>1, <1>3
    <3>3. ASSUME NEW v, seen' = {v}, Is(call.pid, held.born)' PROVE procs'[call.pid].loaded = held.loaded
      <4>1. seen = {v} /\ Now' = Now BY <3>3, <2>4
      <4>2. Is(call.pid, held.born) /\ (\/ procs'[call.pid].loaded = procs[call.pid].loaded
                                        \/ Alive(call.pid) /\ Alive(call.pid)' /\ procs'[call.pid].loaded # procs[call.pid].loaded)
        BY <3>1, <3>3, <1>2, <1>3 DEF Is, Exists, Alive
      <4>3. procs[call.pid].loaded = held.loaded BY <4>1, <4>2, <2>5 DEF ExtInv, Answering, ExtReadOk
      <4>4. Program' = Program BY <4>1 DEF Now
      <4>5. Alive(call.pid) /\ Alive(call.pid)' => procs'[call.pid].loaded = procs[call.pid].loaded
        BY <4>4, <3>1, <1>2 DEF Program
      <4> QED BY <4>2, <4>3, <4>5
    <3>4. \A v : seen' = {v} => offset \in 0..Len(Blob(v.is)) /\ buf = SubSeq(Blob(v.is), 1, offset)
      BY <2>4, <2>5 DEF ExtInv, Answering, ExtReadOk
    <3>5. buf \in Seq(Nat) /\ offset \in Nat /\ (buf = <<>> => offset = 0)
      BY <2>5 DEF ExtInv, Answering, ExtReadOk
    <3> QED BY <3>1, <3>2, <3>3, <3>4, <3>5, <1>2 DEF ExtReadOk, Is, Exists
  <2>6. ExtReadOk' BY <2>5, <1>2 DEF ExtReadOk
  <2>11. RightAnswers \subseteq RightAnswers' BY <2>1 DEF RightAnswers
  <2>7. SplitOk' BY <2>4, <2>11, <1>2 DEF ExtInv, Answering, SplitOk
  <2>8. ExtWalkOk' BY <2>4, <1>2 DEF ExtInv, Answering, ExtWalkOk, Passed, PassedTo
  <2>9. CwdOk' BY <2>4, <1>2 DEF ExtInv, Answering, CwdOk
  <2>10. Answering' BY <2>6, <2>7, <2>8, <2>9, <1>2, <1>7 DEF Answering, DoneOk, OverOk
  <2> QED BY <2>3, <2>10, <1>3, <1>4 DEF ExtInv
<1> QED BY <1>5, <1>6, <1>7

-------------------------------------------------------------------------------
LEMMA ExtInvInit == ASSUME TextsGiven, ExtInit PROVE ExtInv
<1>1. ProcessesOk
  <2>1. PICK image \in Images, i \in Images, d \in Dirs :
          procs = [p \in Pids |->
                 CASE p = 1 -> [state |-> "alive", born |-> 0, parent |-> 0, image |-> image, loaded |-> 0, cwd |-> d]
                   [] p = 2 -> [state |-> "alive", born |-> 0, parent |-> 1, image |-> i, loaded |-> 0, cwd |-> d]
                   [] OTHER -> nobody]
    BY DEF ExtInit, ProcessesInit
  <2>2. events = 0 BY DEF ExtInit, ProcessesInit
  <2>3. ASSUME NEW p \in Pids
        PROVE  /\ procs[p] \in ProcessTypes /\ procs[p].born <= 0 /\ procs[p].loaded <= 0
               /\ procs[p].state # "none" => procs[p].image \in Images /\ procs[p].cwd \in Dirs
    <3>1. CASE p = 1
      <4>1. procs[p] = [state |-> "alive", born |-> 0, parent |-> 0, image |-> image, loaded |-> 0, cwd |-> d]
        BY <3>1, <2>1
      <4> QED BY <4>1 DEF ProcessTypes
    <3>2. CASE p # 1 /\ p = 2
      <4>1. procs[p] = [state |-> "alive", born |-> 0, parent |-> 1, image |-> i, loaded |-> 0, cwd |-> d]
        BY <3>2, <2>1
      <4> QED BY <4>1 DEF ProcessTypes
    <3>3. CASE p # 1 /\ p # 2
      <4>1. procs[p] = nobody BY <3>3, <2>1
      <4> QED BY <4>1 DEF ProcessTypes, nobody
    <3> QED BY <3>1, <3>2, <3>3
  <2>4. procs = [p \in Pids |-> procs[p]] BY <2>1
  <2>5. procs \in [Pids -> ProcessTypes] BY <2>3, <2>4
  <2> QED BY <2>2, <2>3, <2>5 DEF ProcessesOk, Exists
<1>2. Placed BY DEF ExtInit, Placed
<1>3. Remembered BY FS_EmptySet DEF ExtInit, Remembered, Asking
<1>4. Answering BY DEF ExtInit, Answering, ExtReadOk, SplitOk, ExtWalkOk, CwdOk, DoneOk, OverOk
<1> QED BY <1>1, <1>2, <1>3, <1>4 DEF ExtInv

LEMMA ExtInvNext == ASSUME ExtInv, TextsGiven, ExtNext PROVE ExtInv'
<1>1. ExtRemember BY DEF ExtNext
<1>2. CASE ExtOthers BY <1>1, <1>2, ExtOthersStep
<1>3. CASE ExtStep
  <2>1. CASE ExtStart \/ ExtReturn \/ Walk \/ LinuxOpen \/ LinuxRead \/ LinuxCmd \/ LinuxCmdEmpty \/ LinuxEnv \/ Link
    BY <2>1, <1>1, ExtStartStep, ReturningStep, WalkStep, LinuxOpenStep, LinuxReadStep, LinuxCmdStep,
       LinuxCmdEmptyStep, LinuxEnvStep, LinkStep
  <2>2. CASE KvmFails \/ KvmProc \/ KvmArgv \/ KvmEnvv \/ AskCwd \/ AskLength \/ AskText \/ NoExe
    BY <2>2, <1>1, KvmFailsStep, KvmProcStep, KvmArgvStep, KvmEnvvStep, AskCwdStep, AskLengthStep, AskTextStep, NoExeStep
  <2>3. CASE SunProc \/ SunUser \/ SunCmd \/ SunEnv
    BY <2>3, <1>1, SunProcStep, SunUserStep, SunCmdStep, SunEnvStep
  <2>4. CASE ModuleFileName \/ OpenProcess \/ ReadParams \/ ReadCmd \/ ReadCwd \/ ReadEnv \/ ImageName
    BY <2>4, <1>1, ModuleFileNameStep, OpenProcessStep, ReadParamsStep, ReadCmdStep, ReadCwdStep, ReadEnvStep, ImageNameStep
  <2>5. CASE MacCmd \/ MacEnv \/ MacPath \/ ExtUnsupported BY <2>5, <1>1, MacStep
  <2> QED BY <2>1, <2>2, <2>3, <2>4, <2>5, <1>3 DEF ExtStep
<1> QED BY <1>2, <1>3 DEF ExtNext

LEMMA ExtInvStep == ASSUME ExtInv, TextsGiven, [ExtNext]_extVars PROVE ExtInv'
<1>1. CASE ExtNext BY <1>1, ExtInvNext
<1>2. CASE UNCHANGED extVars
  <2>1. /\ UNCHANGED <<procs, events, seen, platform, pc, call, held, offset, size, buf, answer, ec, mark>>
    BY <1>2 DEF extVars, extQuery
  <2>2. ProcessesOk' BY <2>1 DEF ExtInv, ProcessesOk, Exists
  <2>3. Placed' BY <2>1 DEF ExtInv, Placed
  <2>4. Now' = Now BY <2>1 DEF Now, ExtTruth, Program, Alive
  <2>5. Remembered' BY <2>1, <2>4 DEF ExtInv, Remembered, Asking
  <2>6. ExtReadOk' BY <2>1 DEF ExtInv, Answering, ExtReadOk, Is, Exists
  <2>7. Answering' BY <2>1, <2>6 DEF ExtInv, Answering, SplitOk, ExtWalkOk, Passed, PassedTo, CwdOk, DoneOk, OverOk, RightAnswers
  <2> QED BY <2>2, <2>3, <2>5, <2>7 DEF ExtInv
<1> QED BY <1>1, <1>2

LEMMA InvIsTruthful == ASSUME ExtInv PROVE AnswersTruthful /\ LoopEnds
<1>1. ASSUME Undisturbed, pc # "idle" PROVE \E v : seen = {v}
  <2>1. IsFiniteSet(seen) /\ Cardinality(seen) = 1 BY <1>1 DEF ExtInv, Remembered, Undisturbed
  <2> QED BY <2>1, FS_Singleton
<1>2. AnswersTruthful
  <2> SUFFICES ASSUME pc = "done", ec = "none", call.op = "env" => platform = "linux"
               PROVE  /\ Undisturbed => answer \in RightAnswers
                      /\ call.op \in {"cwd", "exe"} /\ platform # "windows" => answer \in RightAnswers
    BY DEF AnswersTruthful, Answered
  <2>1. /\ \A v : seen = {v} => answer = v.is
        /\ call.op \in {"cwd", "exe"} /\ platform # "windows" => answer \in RightAnswers
    BY DEF ExtInv, Answering, DoneOk
  <2>2. \A v : seen = {v} => v.is \in RightAnswers BY DEF RightAnswers
  <2> QED BY <2>1, <2>2, <1>1
<1>3. LoopEnds
  <2>1. pc = "overrun" => call.op \in {"cmd", "env"} /\ pc # "idle" BY DEF ExtInv, Placed
  <2>2. OverOk BY DEF ExtInv, Answering
  <2>3. ASSUME pc = "overrun", platform = "linux", call.op = "env" PROVE ~Undisturbed
    BY <2>1, <2>2, <2>3, <1>1 DEF OverOk
  <2>4. ASSUME pc = "overrun", platform = "linux", call.op = "cmd" PROVE Unknown \in RightAnswers
    BY <2>2, <2>4 DEF OverOk
  <2> QED BY <2>1, <2>3, <2>4 DEF LoopEnds
<1> QED BY <1>2, <1>3

\* What cmd, env, cwd and exe return without an error is the process's own, complete and in order,
\* unless it changed meanwhile; a directory or a program path it had in any case; and on Linux the
\* loop over the environment ends and cmd stays inside a command line that is there all the time.
THEOREM AnswersTruthfulHolds == ASSUME TextsGiven PROVE ExtSpec => [](AnswersTruthful /\ LoopEnds)
<1>1. ExtInit => ExtInv BY ExtInvInit
<1>2. ExtInv /\ [ExtNext]_extVars => ExtInv' BY ExtInvStep
<1>3. ExtInv => AnswersTruthful /\ LoopEnds BY InvIsTruthful
<1> QED BY <1>1, <1>2, <1>3, PTL DEF ExtSpec

-------------------------------------------------------------------------------
(***************************************************************************)
(* Both.                                                                   *)
(***************************************************************************)
BothInv == /\ topic = "pid" => QueryInv
           /\ topic = "ext" => ExtInv

LEMMA AllInitInv == ASSUME PidsNumbered, TextsGiven, AllInit PROVE BothInv
BY QueryInvInit, ExtInvInit DEF AllInit, BothInv

LEMMA AllStep == ASSUME PidsNumbered, TextsGiven, BothInv, [AllNext]_allVars PROVE BothInv'
<1>1. CASE topic = "pid" /\ topic' = topic /\ Next BY <1>1, QueryInvStep DEF BothInv
<1>2. CASE topic = "ext" /\ topic' = topic /\ ExtNext BY <1>2, ExtInvStep DEF BothInv
<1>3. CASE UNCHANGED allVars
  <2>1. topic' = topic /\ UNCHANGED vars /\ UNCHANGED extVars
    BY <1>3 DEF allVars, pidOnly, extOnly, vars, query, extVars, extQuery
  <2>2. topic = "pid" => QueryInv' BY <2>1, QueryInvStep DEF BothInv
  <2>3. topic = "ext" => ExtInv' BY <2>1, ExtInvStep DEF BothInv
  <2> QED BY <2>1, <2>2, <2>3 DEF BothInv
<1> QED BY <1>1, <1>2, <1>3 DEF AllNext

\* What a program is told of other processes was true while it asked: the lists of pids and the
\* parent, and the command line, the environment, the directory and the program's path, which are
\* complete and in order unless the process changed meanwhile; and on Linux the loop over the
\* environment ends.  The exceptions are those of ListsTruthful, of which the code tells nobody,
\* and of AnswersTruthful: env elsewhere than on Linux, a directory that Windows has cut.
THEOREM QueriesTruthfulHolds == ASSUME PidsNumbered, TextsGiven PROVE AllSpec => []QueriesTruthful
<1>1. AllInit => BothInv BY AllInitInv
<1>2. BothInv /\ [AllNext]_allVars => BothInv' BY AllStep
<1>3. BothInv => QueriesTruthful BY InvIsTruthful DEF BothInv, QueryInv, QueriesTruthful
<1> QED BY <1>1, <1>2, <1>3, PTL DEF AllSpec
===============================================================================
