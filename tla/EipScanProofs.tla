------------------------------ MODULE EipScanProofs ------------------------------
(***************************************************************************)
(* A proof about the EtherNet/IP scan, for any tags, lists, records and    *)
(* sizes, with links that are put and tags that move between the lists.    *)
(***************************************************************************)
EXTENDS EipScan, SequenceTheorems, WellFoundedInduction, TLAPS

\* What is known of the buffers and of the tags with a write half taken.
Keyed(f) == f = [t \in Tags |-> f[t]]
Buffers == /\ Keyed(buf) /\ Keyed(last)
           /\ doWrite \subseteq Tags /\ isWriting \subseteq Tags
           /\ bound \in [Records -> Tags]

\* A buffer that is to be written holds the value last staged.
Staged == \A t \in doWrite \cup isWriting : buf[t] = last[t]

\* A request not yet answered carries it, or the tag is to be written again.
Carried == pc = "transfer" => \A k \in DOMAIN req : req[k].writing =>
             req[k].value = last[req[k].tag] \/ req[k].tag \in doWrite

\* A request reads no tag whose write half is taken, so an answer to a read
\* meets a staged value only where `do_write` is still set.
ReadsApart == pc \in {"transfer", "apply"} =>
                \A k \in DOMAIN req : ~req[k].writing => req[k].tag \notin isWriting

\* The lists hold every tag, and the answers are applied place by place.
IsSeq(s) == s \in Seq(Tags)
ListsHold(f) == /\ f \in [Lists -> Seq(Tags)]
                /\ \A t \in Tags : \E l \in Lists : \E k \in 1 .. Len(f[l]) : f[l][k] = t
InPlace == /\ ListsHold(lists)
           /\ IsSeq(snap) /\ pos \in Nat /\ cur \in Lists
           /\ DOMAIN req \subseteq Nat /\ left \subseteq DOMAIN req
           /\ pc \in {"transfer", "apply"} => left # {}

ScanInv == Buffers /\ Staged /\ Carried /\ ReadsApart /\ InPlace
--------------------------------------------------------------------------------
USE EipAssumption

\* What `Min` and the sequence operators return.
Below == {ss \in Nat \X Nat : ss[1] < ss[2]}

\* The order of the numbers is well-founded.
LEMMA BelowIsWellFounded == IsWellFoundedOn(Below, Nat)
BY NatLessThanWellFounded, Zenon DEF OpToRel, Below

\* A set of numbers that is not empty holds its least one: the place a request
\* is answered at, and the place a pass stops at, is a place of the list.
LEMMA MinIsMember ==
  ASSUME NEW S \in SUBSET Nat, S # {}
  PROVE  Min(S) \in S /\ \A y \in S : Min(S) <= y
<1>1. PICK x \in S : \A y \in S : ~(<<y, x>> \in Below)
  BY BelowIsWellFounded, WFMin
<1>2. ASSUME NEW y \in S PROVE x <= y
  <2>1. y \in Nat /\ x \in Nat
    OBVIOUS
  <2>2. y < x => <<y, x>> \in Below
    BY <2>1 DEF Below
  <2> QED BY <1>1, <2>1, <2>2
<1> QED BY <1>1, <1>2, Zenon DEF Min

\* A set of numbers that is bounded holds its greatest one.
LEMMA MaxIsMember ==
  ASSUME NEW n \in Nat, NEW S \in SUBSET (0 .. n), S # {}
  PROVE  Max(S) \in S
<1> DEFINE R == {n - x : x \in S}
<1>1. R \in SUBSET Nat /\ R # {}
  <2>1. \A x \in S : n - x \in Nat
    OBVIOUS
  <2>2. \E x \in S : n - x \in R
    OBVIOUS
  <2>3. R \in SUBSET Nat
    BY <2>1
  <2> QED BY <2>2, <2>3
<1>2. PICK m \in R : \A z \in R : ~(<<z, m>> \in Below)
  BY <1>1, BelowIsWellFounded, WFMin
<1>3. PICK x \in S : m = n - x
  OBVIOUS
<1>4. ASSUME NEW y \in S PROVE x >= y
  <2>1. n - y \in R /\ n - y \in Nat /\ m \in Nat /\ x \in Int /\ y \in Int
    BY <1>1
  <2>2. n - y < m => <<n - y, m>> \in Below
    BY <2>1 DEF Below
  <2> QED BY <1>2, <1>3, <2>1, <2>2
<1> QED BY <1>3, <1>4, Zenon DEF Max

\* What is taken out of a sequence leaves the others in it.
LEMMA RemovedFromSeq ==
  ASSUME NEW S, NEW s \in Seq(S), NEW i \in 1 .. Len(s)
  PROVE  /\ RemoveAt(s, i) \in Seq(S)
         /\ \A k \in 1 .. Len(s) : k # i =>
              \E j \in 1 .. Len(RemoveAt(s, i)) : RemoveAt(s, i)[j] = s[k]
<1> DEFINE a == SubSeq(s, 1, i - 1)
           b == SubSeq(s, i + 1, Len(s))
<1>0. Len(s) \in Nat /\ i \in Nat /\ \A k \in 1 .. Len(s) : s[k] \in S
  BY ElementOfSeq
<1>1. a \in Seq(S) /\ Len(a) = i - 1 /\ \A k \in 1 .. i - 1 : a[k] = s[k]
  BY <1>0
<1>2. /\ b \in Seq(S) /\ Len(b) = Len(s) - i
      /\ \A k \in 1 .. Len(s) - i : b[k] = s[i + k]
  BY <1>0
<1>3. RemoveAt(s, i) = a \o b
  BY DEF RemoveAt
<1> HIDE DEF a, b
<1>4. /\ a \o b \in Seq(S) /\ Len(a \o b) = Len(a) + Len(b)
      /\ \A k \in 1 .. Len(a) + Len(b) :
           (a \o b)[k] = IF k <= Len(a) THEN a[k] ELSE b[k - Len(a)]
  <2>1. a \in Seq(S) /\ b \in Seq(S)
    BY <1>1, <1>2
  <2> QED BY ONLY <2>1, ConcatProperties
<1>5. ASSUME NEW k \in 1 .. Len(s), k # i
      PROVE  \E j \in 1 .. Len(a \o b) : (a \o b)[j] = s[k]
  <2>1. CASE k < i
    <3>1. k \in 1 .. i - 1 /\ k \in 1 .. Len(a) + Len(b) /\ k <= Len(a)
      BY <1>0, <1>1, <1>2, <2>1
    <3> QED BY <1>1, <1>4, <3>1
  <2>2. CASE k > i
    <3>1. /\ k - 1 \in 1 .. Len(a) + Len(b) /\ ~(k - 1 <= Len(a))
          /\ (k - 1) - Len(a) = k - i /\ k - i \in 1 .. Len(s) - i /\ i + (k - i) = k
      BY <1>0, <1>1, <1>2, <2>2
    <3> QED BY <1>2, <1>4, <3>1
  <2> QED BY <1>0, <1>5, <2>1, <2>2
<1> QED BY <1>3, <1>4, <1>5

\* A tag moves to a faster list, and no other leaves its own (`Plc::add_tag`).
LEMMA MovedIsHeld ==
  ASSUME ListsHold(lists), NEW t \in Tags, NEW l \in Lists
  PROVE  ListsHold(AddTag(t, l))
<1> DEFINE h == CHOOSE k \in Lists : \E j \in DOMAIN lists[k] : lists[k][j] = t
           i == CHOOSE j \in DOMAIN lists[h] : lists[h][j] = t
<1>0. \A k \in Lists : lists[k] \in Seq(Tags) /\ DOMAIN lists[k] = 1 .. Len(lists[k])
  BY LenProperties DEF ListsHold
<1>1. h \in Lists /\ i \in 1 .. Len(lists[h]) /\ lists[h][i] = t
  <2>1. \E k \in Lists : \E j \in DOMAIN lists[k] : lists[k][j] = t
    BY <1>0 DEF ListsHold
  <2>2. h \in Lists /\ \E j \in DOMAIN lists[h] : lists[h][j] = t
    BY <2>1
  <2>3. i \in DOMAIN lists[h] /\ lists[h][i] = t
    BY <2>2
  <2> HIDE DEF h, i
  <2> QED BY <1>0, <2>2, <2>3
<1>2. CASE Period[h] <= Period[l]
  BY <1>2 DEF AddTag
<1>3. CASE ~(Period[h] <= Period[l])
  <2>1. AddTag(t, l) = [lists EXCEPT ![h] = RemoveAt(@, i), ![l] = Append(@, t)]
    BY <1>3 DEF AddTag
  <2> HIDE DEF h, i
  <2>2. h # l
    BY <1>1, <1>3 DEF EipAssumption
  <2>3. AddTag(t, l) = [k \in Lists |-> IF k = h THEN RemoveAt(lists[h], i)
                                        ELSE IF k = l THEN Append(lists[l], t) ELSE lists[k]]
    BY <1>1, <2>1, <2>2 DEF ListsHold
  <2> DEFINE f == AddTag(t, l)
  <2>4. /\ f = [k \in Lists |-> f[k]] /\ f[h] = RemoveAt(lists[h], i)
        /\ f[l] = Append(lists[l], t) /\ \A k \in Lists \ {h, l} : f[k] = lists[k]
    BY <1>1, <2>2, <2>3
  <2> HIDE DEF f
  <2>5. /\ f[h] \in Seq(Tags)
        /\ \A k \in 1 .. Len(lists[h]) : k # i =>
              \E j \in 1 .. Len(f[h]) : f[h][j] = lists[h][k]
    <3>1. lists[h] \in Seq(Tags) /\ i \in 1 .. Len(lists[h])
      BY <1>0, <1>1
    <3>2. /\ RemoveAt(lists[h], i) \in Seq(Tags)
          /\ \A k \in 1 .. Len(lists[h]) : k # i =>
               \E j \in 1 .. Len(RemoveAt(lists[h], i)) : RemoveAt(lists[h], i)[j] = lists[h][k]
      BY <3>1, RemovedFromSeq
    <3> QED BY <2>4, <3>2
  <2>6. /\ f[l] \in Seq(Tags) /\ Len(f[l]) = Len(lists[l]) + 1 /\ Len(lists[l]) \in Nat
        /\ f[l][Len(lists[l]) + 1] = t
        /\ \A k \in 1 .. Len(lists[l]) : f[l][k] = lists[l][k]
    <3>1. lists[l] \in Seq(Tags)
      BY <1>0
    <3>2. /\ Append(lists[l], t) \in Seq(Tags)
          /\ Len(Append(lists[l], t)) = Len(lists[l]) + 1
          /\ Append(lists[l], t)[Len(lists[l]) + 1] = t
          /\ \A k \in 1 .. Len(lists[l]) : Append(lists[l], t)[k] = lists[l][k]
      BY <3>1, AppendProperties
    <3> QED BY <2>4, <3>1, <3>2, LenProperties
  <2>7. f \in [Lists -> Seq(Tags)]
    <3>1. \A k \in Lists : f[k] \in Seq(Tags)
      BY <1>0, <2>4, <2>5, <2>6
    <3> QED BY <2>4, <3>1
  <2>8. ASSUME NEW x \in Tags PROVE \E m \in Lists : \E k \in 1 .. Len(f[m]) : f[m][k] = x
    <3>1. CASE x = t
      <4>1. Len(lists[l]) + 1 \in 1 .. Len(f[l])
        BY <2>6
      <4> QED BY <2>6, <3>1, <4>1
    <3>2. CASE x # t
      <4>0. PICK m \in Lists : \E k \in 1 .. Len(lists[m]) : lists[m][k] = x
        BY DEF ListsHold
      <4>1. PICK k \in 1 .. Len(lists[m]) : lists[m][k] = x
        BY <4>0
      <4>2. CASE m = h
        BY <1>1, <2>5, <3>2, <4>1, <4>2
      <4>3. CASE m = l
        <5>1. k \in 1 .. Len(f[l])
          BY <2>6, <4>1, <4>3
        <5> QED BY <2>6, <4>1, <4>3, <5>1
      <4>4. CASE m # h /\ m # l
        BY <2>4, <4>1, <4>4
      <4> QED BY <4>2, <4>3, <4>4
    <3> QED BY <3>1, <3>2
  <2> QED BY <2>7, <2>8 DEF ListsHold, f
<1> QED BY <1>2, <1>3

\* The driver starts with nothing staged and with sequences for lists.
LEMMA ScanInit == Init => ScanInv
<1> SUFFICES ASSUME Init PROVE ScanInv
    OBVIOUS
<1>1. Buffers /\ Staged /\ Carried /\ ReadsApart
  BY DEF Init, Buffers, Keyed, Staged, Carried, ReadsApart
<1>2. ListsHold(lists)
  <2>1. \A l \in Lists : DOMAIN InitialLists[l] = 1 .. Len(InitialLists[l])
    BY LenProperties DEF EipAssumption
  <2>2. \A t \in Tags : \E l \in Lists : \E k \in DOMAIN InitialLists[l] : InitialLists[l][k] = t
    BY ListsAssumption
  <2> QED BY <2>1, <2>2 DEF Init, ListsHold, EipAssumption
<1>3. InPlace
  BY <1>2 DEF Init, InPlace, IsSeq, Lists, EipAssumption
<1> QED BY <1>1, <1>3 DEF ScanInv

--------------------------------------------------------------------------------
(***************************************************************************)
(* The records' steps.                                                     *)
(***************************************************************************)
\* A pass stages a value, the value last staged from then on, or nothing.
LEMMA PassKeeps ==
  ASSUME ScanInv, NEW r \in Records, NEW v, NEW undefined, NEW wanted,
         WritePass(r, v, undefined, wanted), UNCHANGED <<topology, place, request>>
  PROVE  ScanInv'
<1>1. CASE Stage(r, v)
  <2> DEFINE t == bound[r]
  <2>1. /\ t \in Tags
        /\ buf' = [buf EXCEPT ![t] = v] /\ last' = [last EXCEPT ![t] = v]
        /\ doWrite' = doWrite \cup {t} /\ isWriting' = isWriting
    BY <1>1 DEF Stage, ScanInv, Buffers
  <2>2. /\ \A x \in Tags : buf'[x] = IF x = t THEN v ELSE buf[x]
        /\ \A x \in Tags : last'[x] = IF x = t THEN v ELSE last[x]
        /\ Keyed(buf') /\ Keyed(last')
    BY <2>1 DEF ScanInv, Buffers, Keyed
  <2>3. Buffers'
    BY <2>1, <2>2 DEF ScanInv, Buffers, Keyed, topology
  <2>4. Staged'
    BY <2>1, <2>2 DEF ScanInv, Buffers, Staged
  <2>5. Carried'
    <3>1. \A x : x # t => last'[x] = last[x]
      BY <2>1 DEF ScanInv, Buffers, Keyed
    <3> QED BY <2>1, <3>1 DEF ScanInv, Carried, place, request
  <2>6. ReadsApart' /\ InPlace'
    BY <2>1 DEF ScanInv, ReadsApart, InPlace, place, request, topology
  <2> QED BY <2>3, <2>4, <2>5, <2>6 DEF ScanInv
<1>2. CASE NothingStaged
  BY <1>2 DEF NothingStaged, ScanInv, Buffers, Keyed, Staged, Carried, ReadsApart, InPlace, data,
     topology, place, request
<1> QED BY <1>1, <1>2 DEF WritePass

\* Steps beside the buffers, the lists and the request.
LEMMA AsideKeeps ==
  ASSUME ScanInv, UNCHANGED <<data, last, bound, lists, place, request>>
  PROVE  ScanInv'
BY DEF ScanInv, Buffers, Keyed, Staged, Carried, ReadsApart, InPlace, data, place, request

\* A link that is put binds a record, and may move its tag to a faster list.
LEMMA PutLinkKeeps ==
  ASSUME ScanInv, NEW r \in Records, NEW t \in Tags, NEW l \in Lists, PutLink(r, t, l)
  PROVE  ScanInv'
<1>1. /\ UNCHANGED <<data, last, place, request>>
      /\ bound' = [bound EXCEPT ![r] = t] /\ lists' = AddTag(t, l)
  BY DEF PutLink, history
<1>2. ListsHold(lists')
  BY <1>1, MovedIsHeld DEF ScanInv, InPlace
<1>3. Buffers' /\ Staged' /\ Carried' /\ ReadsApart'
  BY <1>1 DEF ScanInv, Buffers, Keyed, Staged, Carried, ReadsApart, data, place, request
<1>4. InPlace'
  BY <1>1, <1>2 DEF ScanInv, InPlace, place, request
<1> QED BY <1>3, <1>4 DEF ScanInv

--------------------------------------------------------------------------------
(***************************************************************************)
(* The scan thread's steps.                                                *)
(***************************************************************************)
\* Where the thread goes, its copy of the list's tags is a sequence.
LEMMA GoToPlace ==
  ASSUME ScanInv, NEW at, NEW l \in Lists, GoTo(at, l)
  PROVE  pc' = at /\ IsSeq(snap') /\ pos' \in Nat /\ cur' \in Lists
BY DEF ScanInv, InPlace, ListsHold, IsSeq, GoTo

\* The list the thread starts at, and the one it goes on to, exist.
LEMMA FirstAndNext ==
  ASSUME ScanInv
  PROVE  1 \in Lists /\ (cur < ListCount => cur + 1 \in Lists)
BY DEF ScanInv, InPlace, Lists, EipAssumption

\* Outside a transfer a step keeps the invariant that takes no write half.
LEMMA OutsideKeeps ==
  ASSUME ScanInv, UNCHANGED <<buf, last, bound, lists>>,
         doWrite' \subseteq doWrite, isWriting' \subseteq isWriting,
         pc' \notin {"transfer", "apply"}, IsSeq(snap'), pos' \in Nat, cur' \in Lists,
         (UNCHANGED <<req, left>>) \/ Forget
  PROVE  ScanInv'
<1>1. Buffers' /\ Staged'
  BY DEF ScanInv, Buffers, Keyed, Staged
<1>2. Carried' /\ ReadsApart'
  BY DEF Carried, ReadsApart
<1>3. InPlace'
  BY DEF ScanInv, InPlace, Forget
<1> QED BY <1>1, <1>2, <1>3 DEF ScanInv

\* The thread's moves between its phases touch no buffer.
LEMMA MovesKeep ==
  ASSUME ScanInv, Connect \/ Probe \/ ListCleared \/ Restart \/ ListNotDue \/ ListDue
  PROVE  ScanInv'
<1>1. UNCHANGED <<data, last, bound, lists, request>>
  BY DEF Connect, Probe, ListCleared, Restart, ListNotDue, ListDue, topology, history
<1>2. /\ pc' \notin {"transfer", "apply"}
      /\ IsSeq(snap') /\ pos' \in Nat /\ cur' \in Lists
  <2>1. CASE ListDue
    BY <2>1 DEF ListDue, ScanInv, InPlace, ListsHold, IsSeq
  <2>2. CASE ~ListDue
    <3>1. \E at \in {"probe", "lists", "clear", "connect"}, l \in Lists : GoTo(at, l)
      BY <2>2, FirstAndNext DEF Connect, Probe, ListCleared, Restart, ListNotDue, NextList, Disconnect
    <3> QED BY <3>1, GoToPlace
  <2> QED BY <2>1, <2>2
<1> QED BY <1>1, <1>2, OutsideKeeps DEF data, request

\* A scan that finds no connection gives up the writes, tag by tag.
LEMMA ClearKeeps == ASSUME ScanInv, Clear PROVE ScanInv'
<1>1. /\ UNCHANGED <<buf, last, bound, lists, req, left, snap, cur>>
      /\ doWrite' \subseteq doWrite /\ isWriting' \subseteq isWriting
      /\ pc' = "clear" /\ pos' = pos + 1
  BY DEF Clear, Scanning, WritesWithout, topology, request
<1> QED BY <1>1, OutsideKeeps DEF ScanInv, InPlace

\* A transfer that fails gives up its writes and the connection.
LEMMA FailureKeeps == ASSUME ScanInv, TransferFails \/ AnswerShort PROVE ScanInv'
<1>1. /\ UNCHANGED <<buf, last, bound, lists, doWrite>>
      /\ isWriting' \subseteq isWriting /\ Forget /\ GoTo("clear", 1)
  BY DEF TransferFails, AnswerShort, ReleaseWrites, Disconnect, topology, history
<1>2. pc' = "clear" /\ IsSeq(snap') /\ pos' \in Nat /\ cur' \in Lists
  BY <1>1, GoToPlace, FirstAndNext
<1> QED BY <1>1, <1>2, OutsideKeeps

\* A request takes the write half of each tag it writes, carries the value staged
\* in it, and gives the half back when not even the first tag fits.
LEMMA BuildKeeps == ASSUME ScanInv, Build PROVE ScanInv'
<1> DEFINE looked == TagsAt(Taken \cup (IF Refused = {} THEN {} ELSE {Min(Refused)}))
           writing == isWriting \cup (doWrite \cap looked)
<1>1. /\ doWrite' = doWrite \ looked
      /\ isWriting' = writing \ GivenBack(looked)
      /\ UNCHANGED <<buf, last, bound, lists>>
      /\ left' = Taken
  BY DEF Build, topology, history
<1>2. Taken \subseteq Nat /\ Resume \in Nat
  <2>1. Wanted \subseteq Nat
    BY DEF Wanted, ScanInv, InPlace
  <2>2. Refused # {} => Min(Refused) \in Nat
    BY <2>1, MinIsMember DEF Refused
  <2>3. Len(snap) + 1 \in Nat
    BY DEF ScanInv, InPlace, IsSeq
  <2> QED BY <2>1, <2>2, <2>3 DEF Taken, Resume
<1>3. CASE Taken = {}
  <2>1. Forget \/ (req' = <<>> /\ left' = {})
    BY <1>1, <1>3 DEF Build
  <2>2. pc' = "lists" /\ IsSeq(snap') /\ pos' \in Nat /\ cur' \in Lists
    <3>1. \E l \in Lists : GoTo("lists", l)
      BY <1>3, FirstAndNext DEF Build, NextList
    <3> QED BY <3>1, GoToPlace
  <2>3. Buffers' /\ Staged'
    BY <1>1 DEF ScanInv, Buffers, Keyed, Staged
  <2>4. Carried' /\ ReadsApart'
    BY <2>2 DEF Carried, ReadsApart
  <2>5. InPlace'
    BY <1>1, <2>1, <2>2 DEF ScanInv, InPlace, Forget
  <2> QED BY <2>3, <2>4, <2>5 DEF ScanInv
<1>4. CASE Taken # {}
  <2>1. /\ pc' = "transfer" /\ pos' = Resume /\ UNCHANGED <<cur, snap>>
        /\ req' = [k \in Taken |-> [tag |-> snap[k], writing |-> snap[k] \in writing,
                                    value |-> buf[snap[k]]]]
    BY <1>4 DEF Build
  <2>2. isWriting' = writing
    BY <1>1, <1>4 DEF GivenBack
  <2>3. Buffers' /\ Staged'
    BY <1>1, <2>2 DEF ScanInv, Buffers, Keyed, Staged
  <2>4. Carried'
    <3>1. \A t \in writing : buf[t] = last[t]
      BY DEF ScanInv, Staged
    <3> QED BY <1>1, <2>1, <3>1 DEF Carried
  <2>5. ReadsApart'
    BY <2>1, <2>2 DEF ReadsApart
  <2>6. InPlace'
    BY <1>1, <1>2, <1>4, <2>1 DEF ScanInv, InPlace
  <2> QED BY <2>3, <2>4, <2>5, <2>6 DEF ScanInv
<1> QED BY <1>3, <1>4

\* An answer that comes changes the thread's phase only.
LEMMA TransferKeeps == ASSUME ScanInv, Transfer PROVE ScanInv'
<1>1. /\ UNCHANGED <<data, last, bound, lists, cur, snap, pos, req, left>>
      /\ pc = "transfer" /\ pc' = "apply"
  BY DEF Transfer, Scanning, topology, history
<1> QED BY <1>1 DEF ScanInv, Buffers, Keyed, Staged, Carried, ReadsApart, InPlace, data

\* The answer to a read overwrites a buffer only where no write is pending.
LEMMA ApplyKeeps == ASSUME ScanInv, Apply PROVE ScanInv'
<1> DEFINE k == Min(left)
           t == req[k].tag
<1>1. k \in DOMAIN req /\ k \in left /\ pc = "apply"
  BY MinIsMember DEF Apply, Scanning, ScanInv, InPlace
<1>2. /\ UNCHANGED <<last, bound, lists, doWrite, cur, snap, pos>>
      /\ isWriting' \subseteq isWriting
      /\ \/ left = {k} /\ Forget /\ pc' = "build"
         \/ left # {k} /\ left' = left \ {k} /\ UNCHANGED <<pc, req>>
  BY DEF Apply, ApplyWrite, ApplyRead, topology
<1>3. \/ buf' = buf
      \/ /\ t \notin doWrite \cup isWriting
         /\ \E v : buf' = [buf EXCEPT ![t] = v]
  BY <1>1 DEF Apply, ApplyWrite, ApplyRead, ScanInv, ReadsApart
<1> HIDE DEF k, t
<1>4. Keyed(buf') /\ \A x \in doWrite \cup isWriting : buf'[x] = buf[x]
  BY <1>3 DEF ScanInv, Buffers, Keyed
<1>5. Buffers' /\ Staged'
  BY <1>2, <1>4 DEF ScanInv, Buffers, Keyed, Staged
<1>6. Carried' /\ ReadsApart'
  BY <1>1, <1>2 DEF ScanInv, Carried, ReadsApart, Forget
<1>7. InPlace'
  BY <1>1, <1>2 DEF ScanInv, InPlace, Forget
<1> QED BY <1>5, <1>6, <1>7 DEF ScanInv

--------------------------------------------------------------------------------
\* Every step keeps the invariant.
LEMMA ScanStep == ScanInv /\ [Next]_vars => ScanInv'
<1> SUFFICES ASSUME ScanInv, [Next]_vars PROVE ScanInv'
    OBVIOUS
<1>1. ASSUME NEW r \in Records, NEW v \in Values, Put(r, v) PROVE ScanInv'
  BY <1>1, PassKeeps DEF Put
<1>2. ASSUME NEW r \in Records, ProcessPeriodic(r) PROVE ScanInv'
  BY <1>2, PassKeeps DEF ProcessPeriodic, Unasked
<1>3. ASSUME NEW r \in Records, ProcessRequested(r) PROVE ScanInv'
  <2>1. UNCHANGED <<topology, place, request>>
    BY <1>3 DEF ProcessRequested, Unasked
  <2>2. CASE WritePass(r, val[r], udf, asked)
    BY <2>1, <2>2, PassKeeps
  <2>3. CASE UNCHANGED <<data, history>>
    BY <2>1, <2>3, AsideKeeps DEF topology, history
  <2> QED BY <1>3, <2>2, <2>3 DEF ProcessRequested
<1>4. ASSUME NEW r \in Records, ProcessOnce(r) PROVE ScanInv'
  <2>1. UNCHANGED <<topology, place, request>>
    BY <1>4 DEF ProcessOnce, Unasked
  <2>2. CASE WritePass(r, val[r], udf, asked)
    BY <2>1, <2>2, PassKeeps
  <2>3. CASE UNCHANGED <<data, history>>
    BY <2>1, <2>3, AsideKeeps DEF topology, history
  <2> QED BY <1>4, <2>2, <2>3 DEF ProcessOnce
<1>5. ASSUME NEW r \in Records, CompleteWrite(r) \/ TakePulse(r) PROVE ScanInv'
  BY <1>5, AsideKeeps DEF CompleteWrite, TakePulse, topology, history
<1>6. CASE TellNext \/ Check
  BY <1>6, AsideKeeps DEF TellNext, Check, topology, history
<1>7. ASSUME NEW t \in Tags, NEW v \in Values, PlcChanges(t, v) PROVE ScanInv'
  BY <1>7, AsideKeeps DEF PlcChanges, topology, history
<1>8. CASE UNCHANGED vars
  BY <1>8, AsideKeeps DEF vars, topology, history
<1>9. CASE Connect \/ Probe \/ Leaving \/ Restart \/ ListNotDue \/ ListDue \/ Transferring
  BY <1>9, MovesKeep, ClearKeeps, FailureKeeps, BuildKeeps, TransferKeeps, ApplyKeeps
  DEF Leaving, Transferring, Answered
<1> QED BY <1>1, <1>2, <1>3, <1>4, <1>5, <1>6, <1>7, <1>8, <1>9, PutLinkKeeps
    DEF Next, ScanThread, Running, RecordPass, Telling, Environment

\* What is sent to the PLC is the last value put (`build_multi_request` takes
\* the write half under the lock that stages the data, `apply_response` keeps a
\* value read out of a buffer staged meanwhile), for any tags, records and sizes.
THEOREM WritesAreLatest == Spec => []WritesCarryLatest
<1>1. ScanInv => WritesCarryLatest
  BY DEF ScanInv, Staged, Carried, WritesCarryLatest
<1> QED BY <1>1, ScanInit, ScanStep, PTL DEF Spec
--------------------------------------------------------------------------------
(***************************************************************************)
(* Types.                                                                  *)
(***************************************************************************)
TagTypes == /\ plc \in [Tags -> Values] /\ buf \in [Tags -> Values]
            /\ valid \subseteq Tags /\ doWrite \subseteq Tags /\ isWriting \subseteq Tags
            /\ usable \subseteq Tags /\ unsent \subseteq Tags

LinkTypes == /\ bound \in [Records -> Tags] /\ listener \in [Records -> Nat]
             /\ options.periodic \subseteq Outputs /\ options.forced \subseteq Outputs

\* The request is for places of the list's copy; it is gone when it is answered.
RequestTypes ==
  /\ pc \in {"connect", "probe", "clear", "lists", "build", "transfer", "apply"}
  /\ pos \in 1 .. Len(snap) + 1
  /\ pc \notin {"transfer", "apply"} => req = <<>> /\ left = {}
  /\ pc \in {"transfer", "apply"} =>
       /\ DOMAIN req \subseteq 1 .. Len(snap)
       /\ \A k \in DOMAIN req : req[k].tag \in Tags /\ req[k].value \in Values
  /\ pc = "apply" => \A k \in left : reply[k] \in Values \cup {Bad}

\* A check is always one of an output's.
TellingTypes == checking => notes # <<>> /\ Head(notes)[1] \in Outputs

RecordTypes == /\ val \in [Records -> Values]
               /\ udf \subseteq Records /\ invalid \subseteq Records
               /\ writeDone \subseteq Outputs /\ ending \subseteq Outputs
               /\ once \subseteq Outputs /\ requested \subseteq Outputs /\ pulsed \subseteq Inputs

Types == TagTypes /\ LinkTypes /\ RequestTypes /\ TellingTypes /\ RecordTypes

\* The parts, with the places of the lists, make the type invariant.
LEMMA TypesMakeTypeOK == ScanInv /\ Types => TypeOK
BY DEF ScanInv, InPlace, ListsHold, IsSeq, Types, TagTypes, LinkTypes, RequestTypes,
       TellingTypes, RecordTypes, TypeOK

\* An IOC starts with everything in its type.
LEMMA TypesInit == Init => Types
<1> SUFFICES ASSUME Init PROVE Types
    OBVIOUS
<1>1. TagTypes /\ RecordTypes /\ TellingTypes
  BY DEF Init, TagTypes, RecordTypes, TellingTypes, Outputs, EipAssumption
<1>2. LinkTypes
  BY DEF Init, LinkTypes, EipAssumption
<1>3. RequestTypes
  BY DEF Init, RequestTypes
<1> QED BY <1>1, <1>2, <1>3 DEF Types

\* An output's pass stages a value of its type in its tag (`write_begin`).
LEMMA PassTypes ==
  ASSUME Types, NEW r \in Outputs, NEW v \in Values, NEW undefined, NEW wanted,
         WritePass(r, v, undefined, wanted), UNCHANGED <<plc, usable>>
  PROVE  /\ TagTypes' /\ writeDone' \subseteq Outputs /\ invalid' \subseteq Records
         /\ r \in Records
<1>1. r \in Records /\ bound[r] \in Tags
  BY DEF Types, LinkTypes, Outputs
<1>2. invalid' \subseteq Records
  BY <1>1 DEF WritePass, Types, RecordTypes
<1>3. CASE Stage(r, v)
  BY <1>1, <1>2, <1>3 DEF Stage, Types, TagTypes, RecordTypes
<1>4. CASE NothingStaged
  BY <1>1, <1>2, <1>4 DEF NothingStaged, data, Types, TagTypes, RecordTypes
<1> QED BY <1>3, <1>4 DEF WritePass

\* The records' steps and the link puts keep the types.
LEMMA RecordStepTypes ==
  ASSUME ScanInv, Types, NEW r \in Records,
         \/ RecordPass(r) \/ CompleteWrite(r) \/ ProcessPeriodic(r)
         \/ (\E v \in Values : Put(r, v))
         \/ (\E t \in Tags, l \in Lists : PutLink(r, t, l))
  PROVE  Types'
<1> USE DEF Types, topology, place, request, telling
<1>1. ASSUME NEW v \in Values, Put(r, v) PROVE Types'
  <2>1. r \in Outputs /\ WritePass(r, v, {}, asked \cup {r}) /\ UNCHANGED <<plc, usable>>
    BY <1>1 DEF Put
  <2>2. TagTypes' /\ writeDone' \subseteq Outputs /\ invalid' \subseteq Records
    BY <2>1, PassTypes
  <2>3. UNCHANGED <<topology, place, request, telling, ending, once, requested, pulsed>>
        /\ val' = [val EXCEPT ![r] = v] /\ udf' = udf \ {r}
    BY <1>1 DEF Put
  <2> QED BY <2>2, <2>3 DEF LinkTypes, RequestTypes, TellingTypes, RecordTypes
<1>2. CASE ProcessPeriodic(r)
  <2>1. /\ r \in Outputs /\ val[r] \in Values
        /\ WritePass(r, val[r], udf, asked) /\ UNCHANGED <<plc, usable>>
    BY <1>2 DEF ProcessPeriodic, Unasked, LinkTypes, RecordTypes
  <2>2. TagTypes' /\ writeDone' \subseteq Outputs /\ invalid' \subseteq Records
    BY <2>1, PassTypes
  <2>3. UNCHANGED <<topology, place, request, telling, val, udf, ending, pulsed, once, requested>>
    BY <1>2 DEF ProcessPeriodic, Unasked
  <2> QED BY <2>2, <2>3 DEF LinkTypes, RequestTypes, TellingTypes, RecordTypes
<1>3. CASE ProcessRequested(r)
  <2>1. r \in Outputs /\ val[r] \in Values /\ UNCHANGED <<plc, usable>>
    BY <1>3 DEF ProcessRequested, Unasked, RecordTypes
  <2>2. TagTypes' /\ writeDone' \subseteq Outputs /\ invalid' \subseteq Records
    <3>1. CASE WritePass(r, val[r], udf, asked)
      BY <2>1, <3>1, PassTypes
    <3>2. CASE UNCHANGED <<data, writeDone, invalid, history>>
      BY <2>1, <3>2 DEF data, history, TagTypes, RecordTypes
    <3> QED BY <1>3, <3>1, <3>2 DEF ProcessRequested
  <2>3. UNCHANGED <<topology, place, request, telling, val, udf, ending, pulsed, once>>
        /\ requested' = requested \ {r}
    BY <1>3 DEF ProcessRequested, Unasked
  <2> QED BY <2>2, <2>3 DEF LinkTypes, RequestTypes, TellingTypes, RecordTypes
<1>4. CASE ProcessOnce(r)
  <2>1. r \in Outputs /\ val[r] \in Values /\ UNCHANGED <<plc, usable>>
    BY <1>4 DEF ProcessOnce, Unasked, RecordTypes
  <2>2. TagTypes' /\ writeDone' \subseteq Outputs /\ invalid' \subseteq Records
    <3>1. CASE WritePass(r, val[r], udf, asked)
      BY <2>1, <3>1, PassTypes
    <3>2. CASE UNCHANGED <<data, writeDone, pact, invalid, history>>
      BY <2>1, <3>2 DEF data, history, TagTypes, RecordTypes
    <3> QED BY <1>4, <3>1, <3>2 DEF ProcessOnce
  <2>3. UNCHANGED <<topology, place, request, telling, val, udf, ending, pulsed, requested>>
        /\ once' = once \ {r}
    BY <1>4 DEF ProcessOnce, Unasked
  <2> QED BY <2>2, <2>3 DEF LinkTypes, RequestTypes, TellingTypes, RecordTypes
<1>5. CASE CompleteWrite(r)
  BY <1>5 DEF CompleteWrite, data, history, TagTypes, LinkTypes, RequestTypes, TellingTypes,
              RecordTypes
<1>6. CASE TakePulse(r)
  <2>1. val' \in [Records -> Values] /\ udf' \subseteq Records /\ invalid' \subseteq Records
    BY <1>6 DEF TakePulse, RecordTypes, TagTypes, LinkTypes
  <2> QED BY <1>6, <2>1 DEF TakePulse, data, history, TagTypes, LinkTypes, RequestTypes,
                            TellingTypes, RecordTypes
<1>7. ASSUME NEW t \in Tags, NEW l \in Lists, PutLink(r, t, l) PROVE Types'
  <2>1. bound' \in [Records -> Tags] /\ listener' \in [Records -> Nat]
    BY <1>7 DEF PutLink, LinkTypes
  <2>2. /\ UNCHANGED <<plc, data, usable, options, place, request, telling, val, udf, invalid,
                       writeDone, ending, once, requested, history>>
        /\ pulsed' = pulsed \ {r}
    BY <1>7 DEF PutLink
  <2> QED BY <2>1, <2>2 DEF data, history, TagTypes, LinkTypes, RequestTypes, TellingTypes,
                            RecordTypes
<1> QED BY <1>1, <1>2, <1>3, <1>4, <1>5, <1>6, <1>7 DEF RecordPass

\* Telling the records and their checks keep the types.
LEMMA TellingStepTypes == ASSUME Types, Telling PROVE Types'
<1> USE DEF Types, topology, place, request
<1>1. CASE TellNext
  <2>1. UNCHANGED <<plc, data, usable, topology, place, request, val, udf, invalid, once,
                    requested, history>>
    BY <1>1 DEF TellNext
  <2>2. /\ writeDone' \subseteq Outputs /\ ending' \subseteq Outputs /\ pulsed' \subseteq Inputs
        /\ TellingTypes'
    BY <1>1 DEF TellNext, RecordTypes, TellingTypes
  <2> QED BY <2>1, <2>2 DEF data, history, TagTypes, LinkTypes, RequestTypes, RecordTypes
<1>2. CASE Check
  <2>1. UNCHANGED <<plc, data, usable, topology, place, request, invalid, writeDone, ending,
                    pulsed, unsent>> /\ ~checking'
    BY <1>2 DEF Check
  <2> DEFINE r == Head(notes)[1]
  <2>2. r \in Outputs /\ r \in Records /\ bound[r] \in Tags
    BY <1>2 DEF Check, TellingTypes, LinkTypes, Outputs
  <2>3. Follow(r) \/ UNCHANGED <<val, udf, once, requested>>
    BY <1>2 DEF Check
  <2> HIDE DEF r
  <2>4. /\ val' \in [Records -> Values] /\ udf' \subseteq Records
        /\ once' \subseteq Outputs /\ requested' \subseteq Outputs
    BY <2>2, <2>3 DEF Follow, RecordTypes, TagTypes
  <2> QED BY <2>1, <2>4 DEF data, TagTypes, LinkTypes, RequestTypes, TellingTypes, RecordTypes
<1> QED BY <1>1, <1>2 DEF Telling

\* The places the thread goes to are within the list.
LEMMA GoToTypes ==
  ASSUME ScanInv, NEW at \in {"probe", "lists", "clear", "connect"}, NEW l \in Lists,
         GoTo(at, l), req' = <<>>, left' = {}
  PROVE  RequestTypes'
<1>1. snap' \in Seq(Tags) /\ pos' = 1 /\ pc' = at
  BY GoToPlace DEF GoTo, IsSeq
<1>2. pos' \in 1 .. Len(snap') + 1
  <2>1. Len(snap') \in Nat
    BY <1>1, LenProperties
  <2> QED BY <1>1, <2>1
<1> QED BY <1>1, <1>2 DEF RequestTypes

\* The thread's moves between its phases keep the types.
LEMMA MoveTypes ==
  ASSUME ScanInv, Types, Connect \/ Probe \/ ListCleared \/ Restart \/ ListNotDue \/ ListDue
  PROVE  Types'
<1>1. UNCHANGED <<plc, data, unsent, bound, listener, options, request, telling, records>>
  BY DEF Connect, Probe, ListCleared, Restart, ListNotDue, ListDue, topology, history
<1>2. usable' \subseteq Tags
  <2>1. CASE Probe
    <3>1. {snap[k] : k \in DOMAIN snap} \subseteq Tags
      BY ElementOfSeq, LenProperties DEF ScanInv, InPlace, IsSeq
    <3> QED BY <2>1, <3>1 DEF Probe, Types, TagTypes
  <2>2. CASE ~Probe
    BY <2>2 DEF Connect, ListCleared, Restart, ListNotDue, ListDue, Types, TagTypes
  <2> QED BY <2>1, <2>2
<1>3. RequestTypes'
  <2>1. pc \in {"connect", "probe", "clear", "lists"} /\ req = <<>> /\ left = {}
    BY DEF Connect, Probe, ListCleared, Restart, ListNotDue, ListDue, Scanning, Types, RequestTypes
  <2>2. req' = <<>> /\ left' = {}
    BY <1>1, <2>1 DEF request
  <2>3. CASE ListDue
    <3>1. pc' = "build" /\ pos' = 1 /\ snap' \in Seq(Tags)
      BY <2>3 DEF ListDue, ScanInv, InPlace, ListsHold
    <3>2. pos' \in 1 .. Len(snap') + 1
      <4>1. Len(snap') \in Nat
        BY <3>1, LenProperties
      <4> QED BY <3>1, <4>1
    <3> QED BY <2>2, <3>1, <3>2 DEF RequestTypes
  <2>4. CASE ~ListDue
    <3>1. \E at \in {"probe", "lists", "clear", "connect"}, l \in Lists : GoTo(at, l)
      BY <2>4, FirstAndNext DEF Connect, Probe, ListCleared, Restart, ListNotDue, NextList, Disconnect
    <3> QED BY <2>2, <3>1, GoToTypes
  <2> QED BY <2>3, <2>4
<1> QED BY <1>1, <1>2, <1>3 DEF Types, TagTypes, LinkTypes, TellingTypes, RecordTypes, data,
                                telling, records

\* Giving up a tag's value and its write keeps the types.
LEMMA ClearTypes == ASSUME ScanInv, Types, Clear PROVE Types'
<1>1. /\ UNCHANGED <<plc, buf, usable, bound, listener, options, pc, snap, request, checking, records>>
      /\ doWrite' \subseteq doWrite /\ isWriting' \subseteq isWriting /\ valid' \subseteq valid
      /\ unsent' \subseteq unsent /\ pos' = pos + 1 /\ pos <= Len(snap) /\ notes = <<>>
      /\ pc = "clear"
  BY DEF Clear, Scanning, WritesWithout, topology
<1>2. pos' \in 1 .. Len(snap') + 1
  <2>1. Len(snap) \in Nat
    BY LenProperties DEF ScanInv, InPlace, IsSeq
  <2> QED BY <1>1, <2>1 DEF Types, RequestTypes
<1>3. RequestTypes'
  BY <1>1, <1>2 DEF Types, RequestTypes, request
<1>4. TellingTypes'
  BY <1>1 DEF Types, TellingTypes
<1> QED BY <1>1, <1>3, <1>4 DEF Types, TagTypes, LinkTypes, RecordTypes, records

\* What the PLC holds when it has carried out the writes.
LEMMA CarriedOutTypes ==
  ASSUME ScanInv, Types, pc = "transfer", NEW bad
  PROVE  CarriedOut(bad) \in [Tags -> Values]
<1> DEFINE done(t) == {k \in DOMAIN req \ bad : req[k].tag = t /\ req[k].writing}
<1>1. ASSUME NEW t \in Tags, done(t) # {} PROVE req[Max(done(t))].value \in Values
  <2>1. Len(snap) \in Nat /\ done(t) \in SUBSET (0 .. Len(snap))
    BY LenProperties DEF ScanInv, InPlace, IsSeq, Types, RequestTypes
  <2>2. Max(done(t)) \in done(t)
    BY <1>1, <2>1, MaxIsMember
  <2> QED BY <2>2 DEF Types, RequestTypes
<1>2. \A t \in Tags : (IF done(t) = {} THEN plc[t] ELSE req[Max(done(t))].value) \in Values
  BY <1>1 DEF Types, TagTypes
<1> QED BY <1>2 DEF CarriedOut

\* A transfer that fails, or that is answered, keeps the types.
LEMMA TransferTypes ==
  ASSUME ScanInv, Types, TransferFails \/ AnswerShort \/ Transfer
  PROVE  Types'
<1>1. plc' \in [Tags -> Values]
  BY CarriedOutTypes DEF TransferFails, AnswerShort, Transfer, Scanning, Types, TagTypes
<1>2. /\ UNCHANGED <<buf, valid, doWrite, usable, unsent, bound, listener, options, telling, records>>
      /\ isWriting' \subseteq isWriting
  BY DEF TransferFails, AnswerShort, Transfer, ReleaseWrites, topology, history, data
<1>3. CASE TransferFails \/ AnswerShort
  <2>1. req' = <<>> /\ left' = {} /\ GoTo("clear", 1) /\ 1 \in Lists
    BY <1>3, FirstAndNext DEF TransferFails, AnswerShort, Forget, Disconnect
  <2>2. RequestTypes'
    BY <2>1, GoToTypes
  <2> QED BY <1>1, <1>2, <2>2 DEF Types, TagTypes, LinkTypes, TellingTypes, RecordTypes, telling,
                                  records
<1>4. CASE Transfer
  <2>1. /\ UNCHANGED <<snap, pos, req, left>> /\ pc = "transfer" /\ pc' = "apply"
        /\ \A k \in DOMAIN req : reply'[k] \in {Bad} \cup {plc'[req[k].tag]}
    BY <1>4 DEF Transfer, Scanning
  <2>2. \A k \in left : reply'[k] \in Values \cup {Bad}
    BY <1>1, <2>1 DEF ScanInv, InPlace, Types, RequestTypes
  <2>3. RequestTypes'
    BY <2>1, <2>2 DEF Types, RequestTypes
  <2> QED BY <1>1, <1>2, <2>3 DEF Types, TagTypes, LinkTypes, TellingTypes, RecordTypes, telling,
                                  records
<1> QED BY <1>3, <1>4

\* A request is made of places of the list.
LEMMA BuildTypes == ASSUME ScanInv, Types, Build PROVE Types'
<1> DEFINE looked == TagsAt(Taken \cup (IF Refused = {} THEN {} ELSE {Min(Refused)}))
           writing == isWriting \cup (doWrite \cap looked)
<1>1. /\ doWrite' = doWrite \ looked
      /\ isWriting' = writing \ GivenBack(looked)
      /\ UNCHANGED <<plc, buf, valid, usable, unsent, bound, listener, options, telling, records>>
      /\ left' = Taken
  BY DEF Build, topology, history
<1>2. TagTypes' /\ LinkTypes' /\ TellingTypes' /\ RecordTypes'
  BY <1>1 DEF Types, TagTypes, LinkTypes, TellingTypes, RecordTypes, telling, records
<1>3. Len(snap) \in Nat /\ pos \in 1 .. Len(snap) + 1 /\ \A k \in 1 .. Len(snap) : snap[k] \in Tags
  BY LenProperties, ElementOfSeq DEF ScanInv, InPlace, IsSeq, Types, RequestTypes
<1>4. Wanted \subseteq 1 .. Len(snap)
  BY <1>3 DEF Wanted
<1>5. CASE Taken = {}
  <2>1. req' = <<>> /\ left' = {}
    BY <1>1, <1>5 DEF Build
  <2>2. \E l \in Lists : GoTo("lists", l)
    BY <1>5, FirstAndNext DEF Build, NextList
  <2> QED BY <1>2, <2>1, <2>2, GoToTypes DEF Types
<1>6. CASE Taken # {}
  <2>1. /\ pc' = "transfer" /\ pos' = Resume /\ UNCHANGED snap
        /\ req' = [k \in Taken |-> [tag |-> snap[k], writing |-> snap[k] \in writing,
                                    value |-> buf[snap[k]]]]
    BY <1>6 DEF Build
  <2>2. Taken \subseteq 1 .. Len(snap)
    BY <1>4 DEF Taken
  <2>3. Resume \in 1 .. Len(snap) + 1
    <3>1. CASE Refused = {}
      BY <1>3, <3>1 DEF Resume
    <3>2. CASE Refused # {}
      <4>1. Min(Refused) \in Refused
        <5>1. Refused \in SUBSET Nat
          <6>1. \A k \in Refused : k \in 1 .. Len(snap)
            BY <1>4 DEF Refused
          <6>2. \A k \in 1 .. Len(snap) : k \in Nat
            BY <1>3
          <6> QED BY <6>1, <6>2
        <5> QED BY <3>2, <5>1, MinIsMember
      <4>2. Min(Refused) \in 1 .. Len(snap)
        BY <1>4, <4>1 DEF Refused
      <4> QED BY <1>3, <3>2, <4>2 DEF Resume
    <3> QED BY <3>1, <3>2
  <2>4. \A k \in Taken : req'[k].tag \in Tags /\ req'[k].value \in Values
    BY <1>3, <2>1, <2>2 DEF Types, TagTypes
  <2> QED BY <1>2, <2>1, <2>2, <2>3, <2>4 DEF Types, RequestTypes
<1> QED BY <1>5, <1>6

\* An answer is applied to a tag of the request.
LEMMA ApplyTypes == ASSUME ScanInv, Types, Apply PROVE Types'
<1> DEFINE k == Min(left)
           t == req[k].tag
<1>1. /\ k \in DOMAIN req /\ k \in left /\ pc = "apply" /\ t \in Tags
      /\ reply[k] \in Values \cup {Bad}
  BY MinIsMember DEF Apply, Scanning, ScanInv, InPlace, Types, RequestTypes
<1>2. /\ UNCHANGED <<plc, doWrite, usable, bound, listener, options, snap, pos, checking, records>>
      /\ notes = <<>>
      /\ isWriting' \subseteq isWriting /\ unsent' \subseteq unsent
      /\ valid' \subseteq valid \cup {t}
      /\ \/ buf' = buf
         \/ reply[k] # Bad /\ buf' = [buf EXCEPT ![t] = reply[k]]
  BY DEF Apply, Scanning, ApplyWrite, ApplyRead, topology
<1>3. \/ left = {k} /\ req' = <<>> /\ left' = {} /\ pc' = "build"
      \/ left' = left \ {k} /\ UNCHANGED <<pc, req, reply>>
  BY DEF Apply, Forget
<1> HIDE DEF k, t
<1>4. TagTypes'
  BY <1>1, <1>2 DEF Types, TagTypes
<1>5. RequestTypes'
  BY <1>1, <1>2, <1>3 DEF Types, RequestTypes
<1>6. TellingTypes'
  BY <1>2 DEF Types, TellingTypes
<1> QED BY <1>2, <1>4, <1>5, <1>6 DEF Types, LinkTypes, RecordTypes, records

\* No step takes a variable out of its type.
LEMMA TypesStep == ScanInv /\ Types /\ [Next]_vars => Types'
<1> SUFFICES ASSUME ScanInv, Types, [Next]_vars PROVE Types'
    OBVIOUS
<1>1. ASSUME NEW t \in Tags, NEW v \in Values, PlcChanges(t, v) PROVE Types'
  <2>1. plc' \in [Tags -> Values]
    BY <1>1 DEF PlcChanges, Types, TagTypes
  <2> QED BY <1>1, <2>1 DEF PlcChanges, Types, TagTypes, LinkTypes, RequestTypes, TellingTypes,
                            RecordTypes, data, topology, place, request, telling, records, history
<1>2. CASE UNCHANGED vars
  BY <1>2 DEF vars, Types, TagTypes, LinkTypes, RequestTypes, TellingTypes,
              RecordTypes, data, topology, place, request, telling, records, history
<1>3. CASE Connect \/ Probe \/ Leaving \/ Restart \/ ListNotDue \/ ListDue \/ Transferring \/ Telling
  BY <1>3, MoveTypes, ClearTypes, TransferTypes, BuildTypes, ApplyTypes, TellingStepTypes
  DEF Leaving, Transferring, Answered
<1> QED BY <1>1, <1>2, <1>3, RecordStepTypes DEF Next, ScanThread, Running, Environment

\* The invariant with the types.
LEMMA ScanTyped == Spec => [](ScanInv /\ Types)
BY ScanInit, ScanStep, TypesInit, TypesStep, PTL DEF Spec

\* Every variable has its type in every state, whatever the PLC answers, whichever
\* links are put, and however the tags fill the requests (`scan_pass`).
THEOREM ScanTypeCorrect == Spec => []TypeOK
BY ScanTyped, TypesMakeTypeOK, PTL
--------------------------------------------------------------------------------
(***************************************************************************)
(* No write half is left taken, and none outlives its connection: as long  *)
(* as no tag moves to another list while `invalidate_tags` goes through    *)
(* them.  A tag that moves to a list already cleared from one still to be  *)
(* cleared is in neither copy, and keeps its flags.                        *)
(***************************************************************************)
\* The lists stand still while they are cleared.
KeptWhileCleared == pc = "clear" => lists' = lists
ListsKept == [][KeptWhileCleared]_vars

\* Tags with a value, or with a write under way.
Held == valid \cup doWrite \cup isWriting

\* What `invalidate_tags` has still to clear is behind its place.
InCopyFrom(t, p) == \E k \in p .. Len(snap) : snap[k] = t
InListAfter(t, l) == \E m \in Lists : m > l /\ \E k \in 1 .. Len(lists[m]) : lists[m][k] = t
Clearing == pc = "clear" =>
              /\ snap = lists[cur]
              /\ \A t \in Held : InCopyFrom(t, pos) \/ InListAfter(t, cur)

\* Then there is nothing before the next connection is made.
Cleared == pc \in {"connect", "probe"} => Held = {}

\* A half that is taken is in the request, or next to be.
NextToWrite(t) == pos <= Len(snap) /\ t = snap[pos] /\ t \in usable
BeingWritten(t) == \E k \in left : req[k].tag = t /\ req[k].writing
Halves == /\ pc = "lists" => isWriting = {}
          /\ pc = "build" => \A t \in isWriting : NextToWrite(t)
          /\ pc \in {"transfer", "apply"} =>
               \A t \in isWriting : BeingWritten(t) \/ NextToWrite(t)

\* What is to be written was staged on this connection.
Fresh == /\ pc \notin {"connect", "clear"} => (doWrite \cup isWriting) \cap stale = {}
         /\ pc = "transfer" => \A k \in DOMAIN req : req[k].writing => req[k].tag \in isWriting

HandInv == Clearing /\ Cleared /\ Halves /\ Fresh

\* A pass stages a value only where the tag has one.
LEMMA PassHands ==
  ASSUME ScanInv, HandInv, NEW r, NEW v, NEW undefined, NEW wanted,
         WritePass(r, v, undefined, wanted), UNCHANGED <<topology, place, request, usable>>
  PROVE  HandInv'
<1>1. Held' = Held /\ isWriting' = isWriting
  BY DEF WritePass, Stage, NothingStaged, data, Held
<1>2. (doWrite' \cup isWriting') \cap stale' \subseteq (doWrite \cup isWriting) \cap stale
  BY DEF WritePass, Stage, NothingStaged, data
<1>3. UNCHANGED <<lists, pc, cur, snap, pos, req, left, usable>>
  BY DEF topology, place, request
<1>4. Clearing' /\ Cleared'
  BY <1>1, <1>3 DEF HandInv, Clearing, InCopyFrom, InListAfter, Cleared
<1>5. Halves'
  BY <1>1, <1>3 DEF HandInv, Halves, NextToWrite, BeingWritten
<1>6. Fresh'
  BY <1>1, <1>2, <1>3 DEF HandInv, Fresh
<1> QED BY <1>4, <1>5, <1>6 DEF HandInv

\* Steps beside the buffers and the request, if they move no tag to another list
\* while the lists are cleared.
LEMMA AsideHands ==
  ASSUME HandInv, KeptWhileCleared, UNCHANGED <<data, stale, usable, place, request>>
  PROVE  HandInv'
<1>1. UNCHANGED <<valid, doWrite, isWriting, stale, usable, pc, cur, snap, pos, req, left>>
  BY DEF data, place, request
<1>2. Clearing'
  BY <1>1 DEF HandInv, KeptWhileCleared, Clearing, Held, InCopyFrom, InListAfter
<1>3. Cleared' /\ Fresh'
  BY <1>1 DEF HandInv, Cleared, Held, Fresh
<1>4. Halves'
  BY <1>1 DEF HandInv, Halves, NextToWrite, BeingWritten
<1> QED BY <1>2, <1>3, <1>4 DEF HandInv

\* The first list to be cleared, and those after it, hold every tag.
LEMMA DisconnectHands ==
  ASSUME ScanInv, Disconnect, lists' = lists, Held' \subseteq Tags
  PROVE  HandInv'
<1>1. /\ pc' = "clear" /\ cur' = 1 /\ pos' = 1 /\ snap' = lists[1] /\ 1 \in Lists
  BY FirstAndNext DEF Disconnect, GoTo
<1>2. ASSUME NEW t \in Tags PROVE InCopyFrom(t, pos)' \/ InListAfter(t, cur)'
  <2>1. PICK l \in Lists : \E k \in 1 .. Len(lists[l]) : lists[l][k] = t
    BY DEF ScanInv, InPlace, ListsHold
  <2>2. l = 1 \/ l > 1
    BY DEF Lists, EipAssumption
  <2> QED BY <1>1, <2>1, <2>2 DEF InCopyFrom, InListAfter
<1> QED BY <1>1, <1>2 DEF HandInv, Clearing, Cleared, Halves, Fresh

\* The thread's moves between its phases.
LEMMA MoveHands ==
  ASSUME ScanInv, Types, HandInv,
         Connect \/ Probe \/ ListCleared \/ Restart \/ ListNotDue \/ ListDue
  PROVE  HandInv'
<1>1. UNCHANGED <<data, lists, request>> /\ Held' = Held /\ Held' \subseteq Tags
  BY DEF Connect, Probe, ListCleared, Restart, ListNotDue, ListDue, topology, data, Held, Types,
         TagTypes
<1>2. CASE Connect
  <2>1. pc' = "probe" /\ Held = {}
    BY <1>2 DEF Connect, Scanning, GoTo, HandInv, Cleared
  <2> QED BY <1>1, <2>1 DEF HandInv, Clearing, Cleared, Halves, Fresh, Held
<1>3. CASE Probe
  <2>1. Held = {}
    BY <1>3 DEF Probe, Scanning, HandInv, Cleared
  <2>2. CASE Disconnect
    BY <1>1, <2>2, DisconnectHands
  <2>3. CASE pc' \in {"probe", "lists"}
    BY <1>1, <2>1, <2>3 DEF HandInv, Clearing, Cleared, Halves, Fresh, Held
  <2> QED BY <1>3, <2>2, <2>3 DEF Probe, GoTo
<1>4. CASE ListCleared
  <2>1. /\ pc = "clear" /\ pos > Len(snap) /\ cur \in Lists
        /\ pos \in Nat /\ Len(snap) \in Nat
    BY <1>4, LenProperties DEF ListCleared, Scanning, ScanInv, InPlace, IsSeq
  <2>2. \A t \in Held : InListAfter(t, cur)
    BY <2>1 DEF HandInv, Clearing, InCopyFrom
  <2>3. CASE cur < ListCount
    <3>1. pc' = "clear" /\ cur' = cur + 1 /\ pos' = 1 /\ snap' = lists[cur + 1]
      BY <1>4, <2>3 DEF ListCleared, GoTo
    <3>2. ASSUME NEW t \in Held PROVE InCopyFrom(t, pos)' \/ InListAfter(t, cur)'
      <4>1. PICK m \in Lists : m > cur /\ \E k \in 1 .. Len(lists[m]) : lists[m][k] = t
        BY <2>2 DEF InListAfter
      <4>2. m = cur + 1 \/ m > cur + 1
        BY <2>1, <4>1 DEF Lists
      <4> QED BY <1>1, <3>1, <4>1, <4>2 DEF InCopyFrom, InListAfter
    <3> QED BY <1>1, <3>1, <3>2 DEF HandInv, Clearing, Cleared, Halves, Fresh
  <2>4. CASE ~(cur < ListCount)
    <3>1. pc' = "connect"
      BY <1>4, <2>4 DEF ListCleared, GoTo
    <3>2. Held = {}
      BY <2>1, <2>2, <2>4 DEF InListAfter, Lists, EipAssumption
    <3> QED BY <1>1, <3>1, <3>2 DEF HandInv, Clearing, Cleared, Halves, Fresh
  <2> QED BY <2>3, <2>4
<1>5. CASE Restart
  BY <1>1, <1>5, DisconnectHands DEF Restart
<1>6. CASE ListNotDue \/ ListDue
  <2>1. pc = "lists" /\ pc' \in {"lists", "build"} /\ isWriting = {} /\ UNCHANGED stale
    BY <1>6 DEF ListNotDue, ListDue, NextList, GoTo, Scanning, HandInv, Halves, history
  <2> QED BY <1>1, <2>1 DEF HandInv, Clearing, Cleared, Halves, Fresh, data
<1> QED BY <1>2, <1>3, <1>4, <1>5, <1>6

\* A tag that is cleared is not behind the thread's place.
LEMMA ClearHands == ASSUME ScanInv, HandInv, Clear PROVE HandInv'
<1>1. /\ Held' = Held \ {snap[pos]} /\ pc = "clear" /\ pc' = "clear" /\ pos' = pos + 1
      /\ UNCHANGED <<lists, cur, snap>> /\ pos \in Nat /\ pos <= Len(snap) /\ Len(snap) \in Nat
  BY LenProperties DEF Clear, Scanning, WritesWithout, topology, Held, ScanInv, InPlace, IsSeq
<1>2. ASSUME NEW t \in Held, t # snap[pos], InCopyFrom(t, pos) PROVE InCopyFrom(t, pos)'
  <2>1. PICK k \in pos .. Len(snap) : snap[k] = t
    BY <1>2 DEF InCopyFrom
  <2>2. k \in pos + 1 .. Len(snap)
    BY <1>1, <1>2, <2>1
  <2> QED BY <1>1, <2>1, <2>2 DEF InCopyFrom
<1>3. \A t \in Held' : InCopyFrom(t, pos)' \/ InListAfter(t, cur)'
  BY <1>1, <1>2 DEF HandInv, Clearing, InListAfter
<1> QED BY <1>1, <1>3 DEF HandInv, Clearing, Cleared, Halves, Fresh

\* A transfer that fails clears the lists from the first on.
LEMMA FailureHands == ASSUME ScanInv, Types, TransferFails \/ AnswerShort PROVE HandInv'
<1>1. Disconnect /\ lists' = lists /\ Held' \subseteq Tags
  BY DEF TransferFails, AnswerShort, ReleaseWrites, topology, Held, Types, TagTypes
<1> QED BY <1>1, DisconnectHands

\* A request writes the tags whose half it takes, but for the one without room,
\* which is next.
LEMMA BuildHands == ASSUME ScanInv, Types, HandInv, Build PROVE HandInv'
<1> DEFINE looked == TagsAt(Taken \cup (IF Refused = {} THEN {} ELSE {Min(Refused)}))
           writing == isWriting \cup (doWrite \cap looked)
<1>1. /\ doWrite' = doWrite \ looked
      /\ isWriting' = writing \ GivenBack(looked)
      /\ UNCHANGED <<usable, stale, lists>> /\ left' = Taken /\ pc = "build"
  BY DEF Build, Scanning, topology, history
<1>2. /\ Wanted \in SUBSET Nat /\ Taken \subseteq Wanted /\ Refused \in SUBSET Nat
      /\ Wanted = Taken \cup Refused /\ pos \in Nat /\ \A k \in Wanted : pos <= k /\ k <= Len(snap)
      /\ \A k \in Wanted : snap[k] \in usable
      /\ Len(snap) \in Nat
  BY LenProperties DEF Wanted, Taken, Refused, ScanInv, InPlace, IsSeq
<1>3. Refused # {} => Min(Refused) \in Refused /\ \A k \in Refused : Min(Refused) <= k
  BY <1>2, MinIsMember
<1>4. \A t \in isWriting : pos \in Wanted /\ t = snap[pos]
  BY <1>1, <1>2 DEF HandInv, Halves, NextToWrite, Wanted
<1>5. pos \in Refused => Min(Refused) = pos
  <2>1. pos \in Refused => Min(Refused) \in Nat /\ Min(Refused) <= pos /\ pos <= Min(Refused)
    BY <1>2, <1>3
  <2> QED BY <1>2, <2>1
<1>6. (doWrite' \cup isWriting') \cap stale' = {}
  BY <1>1 DEF HandInv, Fresh
<1>7. CASE Taken = {}
  <2>1. isWriting' = {}
    <3>1. isWriting \subseteq looked
      <4>1. \A t \in isWriting : Refused # {} /\ t = snap[Min(Refused)]
        BY <1>2, <1>4, <1>5, <1>7
      <4> QED BY <1>7, <4>1 DEF TagsAt
    <3>2. isWriting' = writing \ looked
      BY <1>1, <1>7 DEF GivenBack
    <3> HIDE DEF looked
    <3> QED BY <3>1, <3>2
  <2>2. pc' = "lists"
    BY <1>7 DEF Build, NextList, GoTo
  <2> QED BY <1>6, <2>1, <2>2 DEF HandInv, Clearing, Cleared, Halves, Fresh
<1>8. CASE Taken # {}
  <2>1. /\ pc' = "transfer" /\ pos' = Resume /\ UNCHANGED snap
        /\ req' = [k \in Taken |-> [tag |-> snap[k], writing |-> snap[k] \in writing,
                                    value |-> buf[snap[k]]]]
    BY <1>8 DEF Build
  <2>2. isWriting' = writing
    BY <1>1, <1>8 DEF GivenBack
  <2>3. ASSUME NEW t \in writing PROVE \E k \in Wanted : t = snap[k] /\ (k \in Refused => k = Min(Refused))
    <3>1. CASE t \in isWriting
      BY <1>4, <1>5, <3>1
    <3>2. CASE t \in looked
      <4>1. PICK k \in Taken \cup (IF Refused = {} THEN {} ELSE {Min(Refused)}) : t = snap[k]
        BY <3>2 DEF TagsAt
      <4>2. k \in Wanted /\ (k \in Refused => k = Min(Refused))
        BY <1>2, <1>3, <4>1 DEF Refused
      <4> QED BY <4>1, <4>2
    <3> QED BY <3>1, <3>2
  <2> HIDE DEF looked
  <2>4. ASSUME NEW t \in writing PROVE BeingWritten(t)' \/ NextToWrite(t)'
    <3>1. PICK k \in Wanted : t = snap[k] /\ (k \in Refused => k = Min(Refused))
      BY <2>3
    <3>2. CASE k \in Taken
      BY <1>1, <2>1, <3>1, <3>2 DEF BeingWritten
    <3>3. CASE k \in Refused
      <4>1. pos' = k
        BY <2>1, <3>1, <3>3 DEF Resume
      <4> QED BY <1>1, <1>2, <2>1, <3>1, <4>1 DEF NextToWrite
    <3> QED BY <1>2, <3>2, <3>3
  <2>5. \A k \in DOMAIN req' : req'[k].writing => req'[k].tag \in isWriting'
    BY <2>1, <2>2
  <2> QED BY <1>6, <2>1, <2>2, <2>4, <2>5 DEF HandInv, Clearing, Cleared, Halves, Fresh
<1> QED BY <1>7, <1>8

\* An answer changes the thread's phase only.
LEMMA TransferHands == ASSUME HandInv, Transfer PROVE HandInv'
<1>1. /\ UNCHANGED <<data, usable, stale, snap, pos, req, left>>
      /\ pc = "transfer" /\ pc' = "apply"
  BY DEF Transfer, Scanning, history
<1> QED BY <1>1 DEF HandInv, Clearing, Cleared, Halves, BeingWritten, NextToWrite, Fresh, data

\* The half of a tag is given back when its write is answered.
LEMMA ApplyHands == ASSUME ScanInv, HandInv, Apply PROVE HandInv'
<1> DEFINE k == Min(left)
           t == req[k].tag
<1>1. pc = "apply" /\ k \in left
  BY MinIsMember DEF Apply, Scanning, ScanInv, InPlace
<1>2. /\ UNCHANGED <<usable, stale, lists, snap, pos, doWrite>>
      /\ isWriting' = IF req[k].writing THEN isWriting \ {t} ELSE isWriting
      /\ \/ left = {k} /\ pc' = "build"
         \/ left' = left \ {k} /\ UNCHANGED <<pc, req>>
  BY DEF Apply, ApplyWrite, ApplyRead, topology, Forget
<1> HIDE DEF k
<1>3. ASSUME NEW x \in isWriting', BeingWritten(x) PROVE \E j \in left \ {k} : req[j].tag = x /\ req[j].writing
  BY <1>2, <1>3 DEF BeingWritten
<1>4. \A x \in isWriting' : BeingWritten(x) \/ NextToWrite(x)
  BY <1>1, <1>2 DEF HandInv, Halves
<1>5. (doWrite' \cup isWriting') \cap stale' = {}
  BY <1>1, <1>2 DEF HandInv, Fresh
<1>6. \A x : NextToWrite(x)' <=> NextToWrite(x)
  BY <1>2 DEF NextToWrite
<1>7. CASE left = {k} /\ pc' = "build"
  BY <1>3, <1>4, <1>5, <1>6, <1>7 DEF HandInv, Clearing, Cleared, Halves, Fresh
<1>8. CASE left' = left \ {k} /\ UNCHANGED <<pc, req>>
  <2>1. \A x \in isWriting' : BeingWritten(x)' \/ NextToWrite(x)'
    BY <1>3, <1>4, <1>6, <1>8 DEF BeingWritten
  <2> QED BY <1>1, <1>5, <1>8, <2>1 DEF HandInv, Clearing, Cleared, Halves, Fresh
<1> QED BY <1>2, <1>7, <1>8

\* Every step keeps it, if the lists stand still while they are cleared.
LEMMA HandStep == ScanInv /\ Types /\ HandInv /\ [Next]_vars /\ [KeptWhileCleared]_vars => HandInv'
<1> SUFFICES ASSUME ScanInv, Types, HandInv, [Next]_vars, [KeptWhileCleared]_vars PROVE HandInv'
    OBVIOUS
<1>0. KeptWhileCleared
  BY DEF KeptWhileCleared, vars, topology
<1>1. ASSUME NEW r \in Records, NEW v \in Values, Put(r, v) PROVE HandInv'
  BY <1>1, PassHands DEF Put
<1>2. ASSUME NEW r \in Records, ProcessPeriodic(r) PROVE HandInv'
  BY <1>2, PassHands DEF ProcessPeriodic, Unasked
<1>3. ASSUME NEW r \in Records, ProcessOnce(r) \/ ProcessRequested(r) PROVE HandInv'
  <2>1. UNCHANGED <<topology, place, request, usable>>
    BY <1>3 DEF ProcessOnce, ProcessRequested, Unasked
  <2>2. CASE WritePass(r, val[r], udf, asked)
    BY <2>1, <2>2, PassHands
  <2>3. CASE UNCHANGED <<data, history>>
    BY <1>0, <2>1, <2>3, AsideHands DEF history
  <2> QED BY <1>3, <2>2, <2>3 DEF ProcessOnce, ProcessRequested
<1>4. ASSUME NEW r \in Records,
             \/ CompleteWrite(r) \/ TakePulse(r)
             \/ (\E t \in Tags, l \in Lists : PutLink(r, t, l))
      PROVE  HandInv'
  BY <1>0, <1>4, AsideHands DEF CompleteWrite, TakePulse, PutLink, history
<1>5. CASE TellNext \/ Check
  BY <1>0, <1>5, AsideHands DEF TellNext, Check, history
<1>6. ASSUME NEW t \in Tags, NEW v \in Values, PlcChanges(t, v) PROVE HandInv'
  BY <1>0, <1>6, AsideHands DEF PlcChanges, history
<1>7. CASE UNCHANGED vars
  BY <1>0, <1>7, AsideHands DEF vars, history
<1>8. CASE Connect \/ Probe \/ Leaving \/ Restart \/ ListNotDue \/ ListDue \/ Transferring
  BY <1>8, MoveHands, ClearHands, FailureHands, BuildHands, TransferHands, ApplyHands
  DEF Leaving, Transferring, Answered
<1> QED BY <1>1, <1>2, <1>3, <1>4, <1>5, <1>6, <1>7, <1>8
    DEF Next, ScanThread, Running, RecordPass, Telling, Environment

\* A driver starts with no tag that has a value.
LEMMA HandInit == Init => HandInv
BY DEF Init, HandInv, Clearing, Cleared, Held, Halves, Fresh

\* The invariant in every state of an IOC that moves no tag between the lists while
\* they are cleared.
LEMMA HandsHeld == Spec /\ ListsKept => []HandInv
BY ScanTyped, HandInit, HandStep, PTL DEF Spec, ListsKept

\* No tag is left with its write half taken: each write is in the request under way,
\* waits to be first in the next, or has been given up (`build_multi_request`,
\* `apply_response`, `invalidate_tags`).
THEOREM NoHalfWrite == Spec /\ ListsKept => []HandshakeHeld
<1>1. ScanInv /\ HandInv => HandshakeHeld
  BY DEF ScanInv, InPlace, HandInv, Cleared, Held, Halves, BeingWritten, NextToWrite, HandshakeHeld
<1> QED BY <1>1, ScanTyped, HandsHeld, PTL

\* After an error nothing staged before it is sent on the next connection
\* (`invalidate_tags`).
THEOREM NothingStaleSent == Spec /\ ListsKept => []NoStaleWrite
<1>1. HandInv => NoStaleWrite
  BY DEF HandInv, Fresh, NoStaleWrite
<1> QED BY <1>1, HandsHeld, PTL
================================================================================
