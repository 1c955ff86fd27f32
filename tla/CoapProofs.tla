----------------------------- MODULE CoapProofs -----------------------------
(***************************************************************************)
(* Proofs about the CoAP server: the paths it gives to Things, however     *)
(* many of one title come and go, and the listeners of observations, for   *)
(* every set of Things, affordances and requests.                          *)
(***************************************************************************)
EXTENDS CoapServer, FiniteSetTheorems, SequenceTheorems, WellFoundedInduction, TLAPS

Paths == {Title[t][1] : t \in Things} \X Seq(Nat)

ThingType == [path : Paths, thing : Things]

Codes == {"2.04", "2.05", "4.00", "4.04", "4.05", "4.06", "4.15", "5.00", "5.01"}

RecordType ==
    [stage : {"unused", "ignored", "handler", "observe", "done"}, q : RequestType \cup {None},
     thing : Things \cup {None}, code : Codes \cup {None}, ended : BOOLEAN,
     finished : BOOLEAN, attached : BOOLEAN, delivered : Nat]

-----------------------------------------------------------------------------
(* Lemmas about paths and lists                                            *)

LEMMA SmallestOf ==
    ASSUME NEW S, S \subseteq Nat, S # {}
    PROVE  Min(S) \in S
<1> DEFINE less == {p \in Nat \X Nat : p[1] < p[2]}
<1>1. IsWellFoundedOn(less, Nat) BY NatLessThanWellFounded DEF OpToRel
<1>2. PICK m \in S : \A j \in S : <<j, m>> \notin less BY <1>1, WFMin, Zenon
<1>3. ASSUME NEW j \in S PROVE m <= j
  <2>1. j \in Nat /\ m \in Nat OBVIOUS
  <2>2. ~ (j < m) BY <1>2, <2>1
  <2> QED BY <2>1, <2>2
<1> QED BY <1>3 DEF Min

(* Taking an element out of a list moves those behind it.                  *)
LEMMA RemoveAtEffect ==
    ASSUME NEW S, NEW list \in Seq(S), NEW k \in DOMAIN list
    PROVE  /\ RemoveAt(list, k) \in Seq(S)
           /\ DOMAIN RemoveAt(list, k) = 1 .. (Len(list) - 1)
           /\ \A j \in 1 .. (Len(list) - 1) :
                RemoveAt(list, k)[j] = list[IF j < k THEN j ELSE j + 1]
<1>1. PICK n \in Nat : n = Len(list) /\ DOMAIN list = 1 .. n OBVIOUS
<1>2. k \in 1 .. n /\ \A i \in 1 .. n : list[i] \in S BY <1>1
<1> DEFINE head == SubSeq(list, 1, k - 1)
           tail == SubSeq(list, k + 1, n)
<1>3. /\ head \in Seq(S) /\ Len(head) = k - 1
      /\ \A i \in 1 .. (k - 1) : head[i] = list[i]
  <2>1. \A i \in 1 .. (k - 1) : list[i] \in S BY <1>2
  <2>2. k - 1 \in Int /\ 1 \in Int BY <1>2
  <2>3. /\ head \in Seq(S)
        /\ Len(head) = IF 1 <= k - 1 THEN (k - 1) - 1 + 1 ELSE 0
        /\ \A i \in 1 .. (k - 1) - 1 + 1 : head[i] = list[1 + i - 1]
    BY <2>1, <2>2, SubSeqProperties
  <2> HIDE DEF head
  <2> QED BY <1>2, <2>3
<1>4. /\ tail \in Seq(S) /\ Len(tail) = n - k
      /\ \A i \in 1 .. (n - k) : tail[i] = list[k + i]
  <2>1. \A i \in (k + 1) .. n : list[i] \in S BY <1>2
  <2>2. k + 1 \in Int /\ n \in Int BY <1>2
  <2>3. /\ tail \in Seq(S)
        /\ Len(tail) = IF k + 1 <= n THEN n - (k + 1) + 1 ELSE 0
        /\ \A i \in 1 .. n - (k + 1) + 1 : tail[i] = list[(k + 1) + i - 1]
    BY <2>1, <2>2, SubSeqProperties
  <2> HIDE DEF tail
  <2> QED BY <1>2, <2>3
<1>5. RemoveAt(list, k) = head \o tail BY <1>1 DEF RemoveAt
<1> HIDE DEF head, tail
<1>6. /\ head \o tail \in Seq(S) /\ Len(head \o tail) = n - 1
      /\ \A i \in 1 .. n - 1 :
           (head \o tail)[i] = IF i <= k - 1 THEN head[i] ELSE tail[i - (k - 1)]
  <2>1. /\ head \o tail \in Seq(S) /\ Len(head \o tail) = Len(head) + Len(tail)
        /\ \A i \in 1 .. Len(head) + Len(tail) :
             (head \o tail)[i] = IF i <= Len(head) THEN head[i] ELSE tail[i - Len(head)]
    BY <1>3, <1>4, ConcatProperties
  <2>2. Len(head) + Len(tail) = n - 1 BY <1>2, <1>3, <1>4
  <2> QED BY <1>3, <2>1, <2>2
<1>7. ASSUME NEW j \in 1 .. n - 1
      PROVE  (head \o tail)[j] = list[IF j < k THEN j ELSE j + 1]
  <2>1. CASE j < k
    <3>1. j \in 1 .. (k - 1) /\ j <= k - 1 BY <1>2, <2>1
    <3> QED BY <1>3, <1>6, <2>1, <3>1
  <2>2. CASE ~(j < k)
    <3>1. /\ ~(j <= k - 1) /\ j - (k - 1) \in 1 .. (n - k) /\ k + (j - (k - 1)) = j + 1
      BY <1>2, <2>2
    <3> QED BY <1>4, <1>6, <2>2, <3>1
  <2> QED BY <2>1, <2>2
<1> QED BY <1>1, <1>5, <1>6, <1>7

(* Nothing but the paths: those in use belong to one entry each.           *)
PathsInv ==
    /\ things \in Seq(ThingType)
    /\ \A i, j \in DOMAIN things : things[i].path = things[j].path => i = j

LEMMA AtEntry ==
    ASSUME PathsInv, NEW k \in DOMAIN things
    PROVE  things[k].path \in PathsInUse /\ At(things[k].path) = things[k].thing
<1>1. things[k].path \in PathsInUse BY DEF PathsInUse
<1> DEFINE j == CHOOSE i \in DOMAIN things : things[i].path = things[k].path
<1>2. j \in DOMAIN things /\ things[j].path = things[k].path OBVIOUS
<1> HIDE DEF j
<1>3. j = k BY <1>2 DEF PathsInv
<1> QED BY <1>1, <1>3 DEF At, j

(* There is always a suffix that is free: one more is tried than there are *)
(* entries.                                                                *)
LEMMA UrlPathFree ==
    ASSUME PathsInv, NEW t \in Things
    PROVE  UrlPath(t) \in Paths \ PathsInUse
<1>1. PICK n \in Nat : n = Len(things) /\ DOMAIN things = 1 .. n BY DEF PathsInv
<1> DEFINE title == Title[t]
           name(i) == Suffixed(title, i)
           free == {i \in 1 .. (n + 1) : name(i) \notin PathsInUse}
<1>2. /\ \A i \in 1 .. (n + 1) : name(i) \in Paths
      /\ \A i, j \in 1 .. (n + 1) : name(i) = name(j) => i = j
  <2>1. /\ title = <<title[1], title[2]>> /\ title[2] \in Seq(Nat)
        /\ title[1] \in {Title[u][1] : u \in Things}
    BY CoapAssumption
  <2> DEFINE end(i) == Append(title[2], i)
  <2>2. ASSUME NEW i \in 1 .. (n + 1)
        PROVE  /\ end(i) \in Seq(Nat) /\ Len(end(i)) = Len(title[2]) + 1
               /\ end(i)[Len(title[2]) + 1] = i
    BY <2>1, AppendProperties
  <2>3. \A i \in 1 .. (n + 1) : name(i) = IF i = 1 THEN title ELSE <<title[1], end(i)>>
    BY DEF Suffixed
  <2> HIDE DEF title, name, end
  <2>4. \A i \in 1 .. (n + 1) : name(i) \in Paths BY <2>1, <2>2, <2>3 DEF Paths
  <2>5. \A i \in 1 .. (n + 1) : i # 1 => name(i)[2] = end(i) BY <2>3
  <2>6. name(1) = title BY <2>3
  <2>7. ASSUME NEW i \in 1 .. (n + 1), NEW j \in 1 .. (n + 1), name(i) = name(j)
        PROVE  i = j
    <3>1. CASE i = 1 /\ j # 1
      <4>1. title[2] = end(j) BY <2>5, <2>6, <2>7, <3>1
      <4> QED BY <2>1, <2>2, <4>1
    <3>2. CASE i # 1 /\ j = 1
      <4>1. title[2] = end(i) BY <2>5, <2>6, <2>7, <3>2
      <4> QED BY <2>1, <2>2, <4>1
    <3>3. CASE i # 1 /\ j # 1
      <4>1. end(i) = end(j) BY <2>5, <2>7, <3>3
      <4> QED BY <2>2, <4>1
    <3> QED BY <3>1, <3>2, <3>3
  <2> QED BY <2>4, <2>7
<1> HIDE DEF title, name
<1>3. free # {}
  <2>1. SUFFICES ASSUME free = {} PROVE FALSE OBVIOUS
  <2>2. \A i \in 1 .. (n + 1) : \E k \in 1 .. n : things[k].path = name(i)
    BY <1>1, <2>1 DEF PathsInUse
  <2> DEFINE entry == [i \in 1 .. (n + 1) |-> CHOOSE k \in 1 .. n : things[k].path = name(i)]
  <2>3. \A i \in 1 .. (n + 1) : entry[i] \in 1 .. n /\ things[entry[i]].path = name(i)
    BY <2>2
  <2>4. entry \in [1 .. (n + 1) -> 1 .. n] BY <2>3
  <2>5. /\ IsFiniteSet(1 .. (n + 1)) /\ IsFiniteSet(1 .. n)
        /\ Cardinality(1 .. n) < Cardinality(1 .. (n + 1))
    <3>1. 1 \in Int /\ n \in Int /\ n + 1 \in Int OBVIOUS
    <3>2. IsFiniteSet(1 .. n) /\ Cardinality(1 .. n) = IF 1 > n THEN 0 ELSE n - 1 + 1
      BY <3>1, FS_Interval
    <3>3. /\ IsFiniteSet(1 .. (n + 1))
          /\ Cardinality(1 .. (n + 1)) = IF 1 > n + 1 THEN 0 ELSE (n + 1) - 1 + 1
      BY <3>1, FS_Interval
    <3> QED BY <3>2, <3>3
  <2> HIDE DEF entry
  <2>6. \E i, j \in 1 .. (n + 1) : i # j /\ entry[i] = entry[j]
    BY <2>4, <2>5, FS_PigeonHole
  <2> QED BY <1>2, <2>3, <2>6
<1>4. Min(free) \in free
  <2>1. free \subseteq Nat OBVIOUS
  <2> HIDE DEF free
  <2> QED BY <1>3, <2>1, SmallestOf
<1>5. UrlPath(t) = name(Min(free)) BY <1>1 DEF UrlPath, name, title
<1>6. name(Min(free)) \in Paths /\ name(Min(free)) \notin PathsInUse BY <1>2, <1>4
<1> QED BY <1>5, <1>6

-----------------------------------------------------------------------------
(* What is served                                                          *)

(* The paths, what is listed and announced under them, and that each form  *)
(* of a living Thing is one of those under a path of that Thing.           *)
ServingInv ==
    /\ PathsInv
    /\ resources = PathsInUse /\ announced \subseteq resources
    /\ destroyed \subseteq Things /\ DOMAIN forms = Things
    /\ \A t \in Things \ destroyed : \A f \in forms[t] :
         /\ f \in FormsUnder(f.path)
         /\ \E k \in DOMAIN things : things[k].path = f.path /\ things[k].thing = t

LEMMA ServingInit == Init => ServingInv
BY DEF Init, ServingInv, PathsInv, PathsInUse

LEMMA ServingKept ==
    ASSUME ServingInv, UNCHANGED <<things, resources, announced, forms, destroyed>>
    PROVE  ServingInv'
BY DEF ServingInv, PathsInv, PathsInUse

(* The kinds of forms.                                                     *)
LEMMA FormKinds ==
    ASSUME NEW path, NEW f \in FormsUnder(path)
    PROVE  \/ f = Form(path, "properties", None, MetaOps) /\ MetaOps # {}
           \/ \E p \in Properties : \E op \in PropertyOps(p) : f = Form(path, "properties", p, op)
           \/ \E a \in Actions : f = Form(path, "actions", a, {"invokeaction"})
           \/ \E e \in Events :
                f = Form(path, "events", e, {"subscribeevent", "unsubscribeevent"})
<1> DEFINE meta == {Form(path, "properties", None, op) : op \in {MetaOps} \ {{}}}
           ofProperty(p) == {Form(path, "properties", p, op) : op \in PropertyOps(p)}
           ofProperties == UNION {ofProperty(p) : p \in Properties}
           ofActions == {Form(path, "actions", a, {"invokeaction"}) : a \in Actions}
           ofEvents == {Form(path, "events", e, {"subscribeevent", "unsubscribeevent"}) : e \in Events}
<1>1. f \in meta \/ f \in ofProperties \/ f \in ofActions \/ f \in ofEvents
  <2>1. FormsUnder(path) = meta \cup ofProperties \cup ofActions \cup ofEvents
    BY Zenon DEF FormsUnder
  <2> HIDE DEF meta, ofProperties, ofActions, ofEvents
  <2> QED BY <2>1
<1>2. CASE f \in meta BY <1>2
<1>3. CASE f \in ofProperties
  <2>1. PICK p \in Properties : f \in ofProperty(p) BY <1>3
  <2> QED BY <2>1
<1>4. CASE f \in ofActions BY <1>4
<1>5. CASE f \in ofEvents BY <1>5
<1> QED BY <1>1, <1>2, <1>3, <1>4, <1>5

LEMMA FormsPath ==
    ASSUME NEW path, NEW f \in FormsUnder(path)
    PROVE  f.path = path
BY FormKinds DEF Form

LEMMA ExposeStep ==
    ASSUME ServingInv, NEW t \in Things, Expose(t)
    PROVE  ServingInv'
<1>1. PICK path : path = UrlPath(t) OBVIOUS
<1>2. path \in Paths \ PathsInUse BY <1>1, UrlPathFree DEF ServingInv
<1> DEFINE entry == [path |-> path, thing |-> t]
<1>3. entry \in ThingType /\ entry.path = path /\ entry.thing = t BY <1>2 DEF ThingType
<1>4. /\ things' = Append(things, entry) /\ t \notin destroyed
      /\ resources' = resources \cup {path} /\ UNCHANGED destroyed
      /\ forms' = [forms EXCEPT ![t] = @ \cup FormsUnder(path)]
      /\ announced' \in {announced, announced \cup {path}}
  BY <1>1 DEF Expose, Announce
<1> HIDE DEF entry
<1>5. PICK n \in Nat : n = Len(things) /\ DOMAIN things = 1 .. n
  BY DEF ServingInv, PathsInv
<1>6. /\ things' \in Seq(ThingType) /\ DOMAIN things' = 1 .. (n + 1)
      /\ \A i \in 1 .. n : things'[i] = things[i]
      /\ things'[n + 1] = entry
  <2>1. things \in Seq(ThingType) BY DEF ServingInv, PathsInv
  <2> QED BY <1>3, <1>4, <1>5, <2>1, AppendProperties
<1>7. \A i \in 1 .. n : things[i].path # path BY <1>2, <1>5 DEF PathsInUse
<1>8. PathsInv'
  <2>1. ASSUME NEW i \in 1 .. (n + 1), NEW j \in 1 .. (n + 1), things'[i].path = things'[j].path
        PROVE  i = j
    <3>1. (i \in 1 .. n \/ i = n + 1) /\ (j \in 1 .. n \/ j = n + 1) OBVIOUS
    <3>2. CASE i \in 1 .. n /\ j \in 1 .. n
      BY <1>5, <1>6, <2>1, <3>2 DEF ServingInv, PathsInv
    <3> QED BY <1>3, <1>6, <1>7, <2>1, <3>1, <3>2
  <2> QED BY <1>6, <2>1 DEF PathsInv
<1>9. PathsInUse' = PathsInUse \cup {path}
  <2>1. PathsInUse' = {things'[k].path : k \in 1 .. (n + 1)} BY <1>6 DEF PathsInUse
  <2>2. PathsInUse = {things[k].path : k \in 1 .. n} BY <1>5 DEF PathsInUse
  <2>3. \A k \in 1 .. (n + 1) : things'[k].path \in PathsInUse \cup {path}
    BY <1>3, <1>6, <2>2
  <2>4. \A p \in PathsInUse \cup {path} : \E k \in 1 .. (n + 1) : things'[k].path = p
    <3>1. \A k \in 1 .. n : k \in 1 .. (n + 1) /\ things'[k].path = things[k].path BY <1>6
    <3>2. n + 1 \in 1 .. (n + 1) /\ things'[n + 1].path = path BY <1>3, <1>6
    <3> QED BY <2>2, <3>1, <3>2
  <2> QED BY <2>1, <2>3, <2>4
<1>10. ASSUME NEW u \in Things \ destroyed', NEW f \in forms'[u]
       PROVE  /\ f \in FormsUnder(f.path)
              /\ \E k \in DOMAIN things' : things'[k].path = f.path /\ things'[k].thing = u
  <2>1. CASE f \in forms[u]
    <3>1. /\ f \in FormsUnder(f.path)
          /\ \E k \in 1 .. n : things[k].path = f.path /\ things[k].thing = u
      BY <1>4, <1>5, <2>1 DEF ServingInv
    <3> QED BY <1>6, <3>1
  <2>2. CASE u = t /\ f \in FormsUnder(path)
    <3>1. f.path = path BY <2>2, FormsPath
    <3>2. n + 1 \in DOMAIN things' BY <1>6
    <3> QED BY <1>3, <1>6, <2>2, <3>1, <3>2
  <2> QED BY <1>4, <2>1, <2>2 DEF ServingInv
<1>11. resources' = PathsInUse' /\ announced' \subseteq resources'
  BY <1>4, <1>9 DEF ServingInv
<1>12. destroyed' \subseteq Things /\ DOMAIN forms' = Things BY <1>4 DEF ServingInv
<1> QED BY <1>8, <1>10, <1>11, <1>12 DEF ServingInv

LEMMA DestroyStep ==
    ASSUME ServingInv, NEW t \in Things, Destroy(t)
    PROVE  ServingInv'
<1> DEFINE own == {k \in DOMAIN things : things[k].thing = t}
<1>1. destroyed' = destroyed \cup {t} /\ UNCHANGED forms BY DEF Destroy
<1>2. CASE own = {}
  <2>1. UNCHANGED <<things, resources, announced>> BY <1>2 DEF Destroy
  <2> QED BY <1>1, <2>1 DEF ServingInv, PathsInv, PathsInUse
<1>3. CASE own # {}
  <2>1. PICK n \in Nat : n = Len(things) /\ DOMAIN things = 1 .. n
    BY DEF ServingInv, PathsInv
  <2>2. PICK m : m = Min(own) OBVIOUS
  <2>3. m \in 1 .. n /\ things[m].thing = t
    <3>1. own \subseteq Nat BY <2>1
    <3> HIDE DEF own
    <3>2. m \in own BY <1>3, <2>2, <3>1, SmallestOf
    <3> QED BY <2>1, <3>2 DEF own
  <2>4. PICK path : path = things[m].path OBVIOUS
  <2>5. /\ things' = RemoveAt(things, m)
        /\ resources' = resources \ {path} /\ announced' = announced \ {path}
    BY <1>3, <2>2, <2>4 DEF Destroy
  <2>6. /\ things' \in Seq(ThingType) /\ DOMAIN things' = 1 .. (n - 1)
        /\ \A j \in 1 .. (n - 1) : things'[j] = things[IF j < m THEN j ELSE j + 1]
    <3>1. things \in Seq(ThingType) BY DEF ServingInv, PathsInv
    <3> QED BY <2>1, <2>3, <2>5, <3>1, RemoveAtEffect
  <2> DEFINE old(j) == IF j < m THEN j ELSE j + 1
             new(i) == IF i < m THEN i ELSE i - 1
  <2>7. ASSUME NEW j \in 1 .. (n - 1)
        PROVE  old(j) \in 1 .. n /\ old(j) # m /\ things'[j] = things[old(j)] /\ new(old(j)) = j
    BY <2>3, <2>6
  <2>8. ASSUME NEW i \in 1 .. n, i # m
        PROVE  new(i) \in 1 .. (n - 1) /\ things'[new(i)] = things[i]
    <3>1. new(i) \in 1 .. (n - 1) /\ old(new(i)) = i BY <2>3, <2>8
    <3> HIDE DEF new
    <3>2. things'[new(i)] = things[old(new(i))] BY <2>7, <3>1
    <3> QED BY <3>1, <3>2
  <2>9. \A i, j \in 1 .. n : things[i].path = things[j].path => i = j
    BY <2>1 DEF ServingInv, PathsInv
  <2> HIDE DEF old, new
  <2>10. PathsInv'
    <3>1. ASSUME NEW i \in 1 .. (n - 1), NEW j \in 1 .. (n - 1), things'[i].path = things'[j].path
          PROVE  i = j
      <4>1. old(i) = old(j) BY <2>7, <2>9, <3>1
      <4> QED BY <2>7, <4>1
    <3> QED BY <2>6, <3>1 DEF PathsInv
  <2>11. PathsInUse' = PathsInUse \ {path}
    <3>1. PathsInUse' = {things'[k].path : k \in 1 .. (n - 1)} BY <2>6 DEF PathsInUse
    <3>2. PathsInUse = {things[k].path : k \in 1 .. n} BY <2>1 DEF PathsInUse
    <3>3. \A k \in 1 .. (n - 1) : things'[k].path \in PathsInUse \ {path}
      BY <2>3, <2>4, <2>7, <2>9, <3>2
    <3>4. \A p \in PathsInUse \ {path} : \E k \in 1 .. (n - 1) : things'[k].path = p
      <4>1. ASSUME NEW p \in PathsInUse \ {path} PROVE \E k \in 1 .. (n - 1) : things'[k].path = p
        <5>1. PICK i \in 1 .. n : things[i].path = p /\ i # m BY <2>4, <3>2, <4>1
        <5> QED BY <2>8, <5>1
      <4> QED BY <4>1
    <3> QED BY <3>1, <3>3, <3>4
  <2>12. ASSUME NEW u \in Things \ destroyed', NEW f \in forms'[u]
         PROVE  /\ f \in FormsUnder(f.path)
                /\ \E k \in DOMAIN things' : things'[k].path = f.path /\ things'[k].thing = u
    <3>1. u # t /\ u \in Things \ destroyed /\ f \in forms[u] BY <1>1, <2>12
    <3>2. /\ f \in FormsUnder(f.path)
          /\ \E k \in 1 .. n : things[k].path = f.path /\ things[k].thing = u
      BY <2>1, <3>1 DEF ServingInv
    <3>3. PICK k \in 1 .. n : things[k].path = f.path /\ things[k].thing = u BY <3>2
    <3>4. k # m BY <2>3, <3>1, <3>3
    <3> QED BY <2>6, <2>8, <3>2, <3>3, <3>4
  <2>13. resources' = PathsInUse' /\ announced' \subseteq resources'
    BY <2>5, <2>11 DEF ServingInv
  <2>14. destroyed' \subseteq Things /\ DOMAIN forms' = Things BY <1>1 DEF ServingInv
  <2> QED BY <2>10, <2>12, <2>13, <2>14 DEF ServingInv
<1> QED BY <1>2, <1>3

-----------------------------------------------------------------------------
(* What the requests for its forms reach                                   *)

(* A good request for the path of a Thing is answered by the branch of its *)
(* segment.                                                                *)
LEMMA DispatchBranch ==
    ASSUME NEW q, q.validPort = TRUE, q.format = TRUE, q.encoding = "good",
           q.path \in PathsInUse, q.path[1] \notin {"/", "core"}
    PROVE  /\ q.dir = "properties" => Dispatch(q) = PropertyRequest(q)
           /\ q.dir = "actions" => Dispatch(q) = ActionRequest(q)
           /\ q.dir = "events" => Dispatch(q) = EventRequest(q)
<1>1. Dispatch(q) = WithQuery(q, ThingRequest(q)) BY DEF Dispatch
<1>2. WithQuery(q, ThingRequest(q)) = ThingRequest(q) BY DEF WithQuery
<1>3. None \notin {"properties", "actions", "events"} BY CoapAssumption
<1> QED BY <1>1, <1>2, <1>3 DEF ThingRequest

(* A name without escapes and variables is what it was when it is decoded. *)
LEMMA NameKept ==
    ASSUME NEW path, NEW dir, NEW name, NEW ops, NEW f, f = Form(path, dir, name, ops)
    PROVE  /\ f.path = path /\ f.dir = dir /\ f.op = ops /\ f.segment.name = name
           /\ name \notin Escaped \cup Parameterized => AffordanceKey(f.segment) = name
<1> DEFINE pattern == NamePattern(name)
           segment == EncodeURIComponent(pattern)
<1>1. /\ EncodeURIComponent(Segment(name)).name = name
      /\ EncodeURIComponent(Segment(name)).escapes \in {0, 1}
      /\ name \notin Escaped => EncodeURIComponent(Segment(name)).escapes = 0
      /\ DOMAIN EncodeURIComponent(Segment(name)) = {"name", "escapes", "variables"}
  BY DEF EncodeURIComponent, Segment
<1>2. /\ pattern.name = name
      /\ name \notin Escaped => pattern.escapes = 0
      /\ name \notin Parameterized => pattern.variables = FALSE
      /\ DOMAIN pattern = {"name", "escapes", "variables"}
  <2>1. PICK variables \in BOOLEAN : variables = (name \in Parameterized)
    <3>1. (name \in Parameterized) \in BOOLEAN OBVIOUS
    <3> QED BY <3>1, Zenon
  <2>2. pattern = [EncodeURIComponent(Segment(name)) EXCEPT !.variables = variables]
    BY <2>1 DEF NamePattern
  <2> QED BY <1>1, <2>1, <2>2
<1> HIDE DEF pattern
<1>3. /\ segment.name = name
      /\ name \notin Escaped \cup Parameterized => segment.escapes = 0 /\ segment.variables = FALSE
  BY <1>2 DEF EncodeURIComponent
<1>4. f.segment = segment BY DEF Form, pattern
<1> HIDE DEF segment
<1>5. name \notin Escaped \cup Parameterized => AffordanceKey(segment) = name
  BY <1>3 DEF AffordanceKey
<1> QED BY <1>3, <1>4, <1>5 DEF Form

(* A form of which nothing is lost in its address.                         *)
Plain(f, name) ==
    /\ AffordanceKey(f.segment) = name /\ f.path \in PathsInUse
    /\ f.path[1] \notin Reserved \cup {"/", "core"}

(* The handlers that an operation of a form calls.                         *)
Reached(f, op) ==
    LET q == RequestFor(f, op) IN Dispatch(q) = IF q.observe = 0 THEN "observe" ELSE "handle"

LEMMA MetaFormReached ==
    ASSUME NEW f, NEW op \in MetaOps, f.dir = "properties", Plain(f, None)
    PROVE  Reached(f, op)
<1> DEFINE q == RequestFor(f, op)
<1>1. op \in {"readmultipleproperties", "readallproperties"} BY DEF MetaOps
<1>2. /\ q.validPort = TRUE /\ q.format = TRUE /\ q.encoding = "good"
      /\ q.path \in PathsInUse /\ q.path[1] \notin {"/", "core"}
      /\ q.dir = "properties" /\ q.name = None /\ q.method = "GET" /\ q.observe = None
  BY <1>1 DEF Plain, RequestFor, ThingKey
<1> HIDE DEF q
<1>3. None # 0 /\ None \notin Properties /\ MetaOps # {} BY CoapAssumption
<1>4. Dispatch(q) = PropertyRequest(q) BY <1>2, DispatchBranch
<1>5. PropertyRequest(q) = "handle" BY <1>2, <1>3 DEF PropertyRequest
<1> QED BY <1>2, <1>3, <1>4, <1>5 DEF q, Reached

LEMMA PropertyFormReached ==
    ASSUME NEW p \in Properties, NEW ops \in PropertyOps(p), NEW op \in ops \cap ServedOps,
           NEW f, f.dir = "properties", Plain(f, p)
    PROVE  Reached(f, op)
<1> DEFINE q == RequestFor(f, op)
<1>1. /\ op \in {"readproperty", "writeproperty", "observeproperty"}
      /\ op = "writeproperty" => p \notin ReadOnly
  BY DEF PropertyOps, ServedOps
<1>2. /\ q.validPort = TRUE /\ q.format = TRUE /\ q.encoding = "good"
      /\ q.path \in PathsInUse /\ q.path[1] \notin {"/", "core"}
      /\ q.dir = "properties" /\ q.name = p
      /\ op = "writeproperty" => q.method = "PUT" /\ q.observe = None
      /\ op = "readproperty" => q.method = "GET" /\ q.observe = None
      /\ op = "observeproperty" => q.method = "GET" /\ q.observe = 0
  BY <1>1 DEF Plain, RequestFor, ThingKey
<1> HIDE DEF q
<1>3. None # 0 BY CoapAssumption
<1>4. Dispatch(q) = PropertyRequest(q) BY <1>2, DispatchBranch
<1>5. PropertyRequest(q) = IF q.observe = 0 THEN "observe" ELSE "handle"
  BY <1>1, <1>2, <1>3 DEF PropertyRequest
<1> QED BY <1>4, <1>5 DEF q, Reached

LEMMA ActionFormReached ==
    ASSUME NEW a \in Actions, NEW f, f.dir = "actions", Plain(f, a)
    PROVE  Reached(f, "invokeaction")
<1> DEFINE q == RequestFor(f, "invokeaction")
<1>1. /\ q.validPort = TRUE /\ q.format = TRUE /\ q.encoding = "good"
      /\ q.path \in PathsInUse /\ q.path[1] \notin {"/", "core"}
      /\ q.dir = "actions" /\ q.name = a /\ q.method = "POST" /\ q.observe = None
  BY DEF Plain, RequestFor, ThingKey
<1> HIDE DEF q
<1>2. None # 0 BY CoapAssumption
<1>3. Dispatch(q) = ActionRequest(q) BY <1>1, DispatchBranch
<1>4. ActionRequest(q) = "handle" BY <1>1 DEF ActionRequest
<1> QED BY <1>1, <1>2, <1>3, <1>4 DEF q, Reached

LEMMA EventFormReached ==
    ASSUME NEW e \in Events, NEW f, f.dir = "events", Plain(f, e)
    PROVE  Reached(f, "subscribeevent")
<1> DEFINE q == RequestFor(f, "subscribeevent")
<1>1. /\ q.validPort = TRUE /\ q.format = TRUE /\ q.encoding = "good"
      /\ q.path \in PathsInUse /\ q.path[1] \notin {"/", "core"}
      /\ q.dir = "events" /\ q.name = e /\ q.method = "GET" /\ q.observe = 0
  BY DEF Plain, RequestFor, ThingKey
<1> HIDE DEF q
<1>2. None # 0 BY CoapAssumption
<1>3. Dispatch(q) = EventRequest(q) BY <1>1, DispatchBranch
<1>4. EventRequest(q) = "observe" BY <1>1, <1>2 DEF EventRequest
<1> QED BY <1>1, <1>3, <1>4 DEF q, Reached

(* The invariant says enough about paths to tell what requests reach.      *)
LEMMA ServingReaches == ServingInv => FormsAreServed
<1> SUFFICES ASSUME ServingInv PROVE FormsAreServed OBVIOUS
<1>1. ASSUME NEW t \in Things \ destroyed, NEW f \in forms[t], NEW op \in f.op \cap ServedOps,
             f.segment.name \notin Escaped \cup Parameterized, f.path[1] \notin Reserved
      PROVE  /\ Reached(f, op) /\ At(RequestFor(f, op).path) = t
             /\ RequestFor(f, op).name = f.segment.name
  <2>1. f \in FormsUnder(f.path) BY DEF ServingInv
  <2>2. PICK k \in DOMAIN things : things[k].path = f.path /\ things[k].thing = t
    BY DEF ServingInv
  <2>3. f.path \in PathsInUse /\ At(f.path) = t
    BY <2>2, AtEntry DEF ServingInv
  <2>4. f.path[1] \notin {"/", "core"}
    <3>1. things[k] \in ThingType BY DEF ServingInv, PathsInv
    <3>2. PICK u \in Things : f.path[1] = Title[u][1] BY <2>2, <3>1 DEF ThingType, Paths
    <3> QED BY <3>2, CoapAssumption
  <2>5. ASSUME NEW dir, NEW name, NEW ops, f = Form(f.path, dir, name, ops)
        PROVE  /\ f.dir = dir /\ f.op = ops /\ f.segment.name = name /\ Plain(f, name)
               /\ RequestFor(f, op).path = f.path /\ RequestFor(f, op).name = name
    <3>1. /\ f.dir = dir /\ f.op = ops /\ f.segment.name = name
          /\ name \notin Escaped \cup Parameterized => AffordanceKey(f.segment) = name
      BY <2>5, NameKept
    <3>2. Plain(f, name) BY <1>1, <2>3, <2>4, <3>1 DEF Plain
    <3> QED BY <3>1, <3>2 DEF Plain, RequestFor, ThingKey
  <2>6. /\ RequestFor(f, op).path = f.path /\ RequestFor(f, op).name = f.segment.name
    BY <2>1, <2>5, FormKinds
  <2>7. ASSUME f = Form(f.path, "properties", None, MetaOps) PROVE Reached(f, op)
    BY <2>5, <2>7, MetaFormReached
  <2>8. ASSUME NEW p \in Properties, NEW ops \in PropertyOps(p),
               f = Form(f.path, "properties", p, ops)
        PROVE  Reached(f, op)
    BY <2>5, <2>8, PropertyFormReached
  <2>9. ASSUME NEW a \in Actions, f = Form(f.path, "actions", a, {"invokeaction"})
        PROVE  Reached(f, op)
    <3>1. op = "invokeaction" BY <2>5, <2>9
    <3> QED BY <2>5, <2>9, <3>1, ActionFormReached
  <2>10. ASSUME NEW e \in Events,
                f = Form(f.path, "events", e, {"subscribeevent", "unsubscribeevent"})
         PROVE  Reached(f, op)
    <3>1. op = "subscribeevent" BY <2>5, <2>10 DEF ServedOps
    <3> QED BY <2>5, <2>10, <3>1, EventFormReached
  <2>11. Reached(f, op) BY <2>1, <2>7, <2>8, <2>9, <2>10, FormKinds
  <2> QED BY <2>3, <2>6, <2>11
<1> QED BY <1>1 DEF FormsAreServed, ServingInv, Reached

(* Requests and their callbacks touch nothing of what is served.           *)
LEMMA ServingStep == ServingInv /\ [Next]_vars => ServingInv'
<1> SUFFICES ASSUME ServingInv, [Next]_vars PROVE ServingInv' OBVIOUS
<1>1. CASE Start \/ Stop BY <1>1, ServingKept DEF Start, Stop, Rest
<1>2. ASSUME NEW t \in Things, Expose(t) PROVE ServingInv' BY <1>2, ExposeStep
<1>3. ASSUME NEW t \in Things, Destroy(t) PROVE ServingInv' BY <1>3, DestroyStep
<1>4. ASSUME NEW r \in Slots, NEW q \in Requests[r], Receive(r, q) PROVE ServingInv'
  BY <1>4, ServingKept DEF Receive, Serving
<1>5. ASSUME NEW r \in Slots,
             HandlerDone(r) \/ HandlerRejects(r) \/ Observed(r) \/ Finish(r) \/ TimerFires(r)
      PROVE  ServingInv'
  BY <1>5, ServingKept DEF HandlerDone, HandlerRejects, Observed, Finish, TimerFires, Serving
<1>6. ASSUME NEW t \in Things, NEW a \in Properties \cup Events, Notify(t, a) PROVE ServingInv'
  BY <1>6, ServingKept DEF Notify, Serving
<1>7. CASE UNCHANGED vars BY <1>7, ServingKept DEF vars
<1> QED BY <1>1, <1>2, <1>3, <1>4, <1>5, <1>6, <1>7 DEF Next

(* The paths of createThingUrlPath: however many Things of one title are   *)
(* exposed, destroyed and exposed again, in whatever order, beside Things  *)
(* with any other titles, the operations of each form of a living Thing    *)
(* lead to the handlers of that Thing and affordance, unless its address   *)
(* loses a name on the way; what is listed and announced is there.         *)
THEOREM FormsLeadToThings == Spec => []FormsAreServed
BY ServingInit, ServingStep, ServingReaches, PTL DEF Spec

-----------------------------------------------------------------------------
(* Requests and the listeners of observations                              *)

Outcomes == Codes \cup {"ignored", "throws", "handle", "observe"}
Exceptions == {"no", "finish", "timer", "message", "uri"}

(* Each record has its type, and a listener whose response has been        *)
(* flushed is gone.                                                        *)
RequestsInv ==
    /\ req \in [Slots -> RecordType]
    /\ listeners \subseteq Slots /\ timers \subseteq Slots
    /\ uncaught \in Exceptions
    /\ ReleasedOnFinish

LEMMA RequestsInit == Init => RequestsInv
<1> SUFFICES ASSUME Init PROVE RequestsInv OBVIOUS
<1>1. Unused \in RecordType /\ Unused.finished = FALSE BY DEF Unused, RecordType
<1>2. req = [r \in Slots |-> Unused] /\ listeners = {} /\ timers = {} /\ uncaught = "no"
  BY DEF Init
<1> QED BY <1>1, <1>2 DEF RequestsInv, Exceptions, ReleasedOnFinish

(* Each request has an outcome, and handlers are those of a Thing that is  *)
(* exposed.                                                                *)
LEMMA DispatchTyped ==
    ASSUME NEW q
    PROVE  /\ Dispatch(q) \in Outcomes
           /\ Dispatch(q) \in {"handle", "observe"} => q.path \in PathsInUse
<1>1. WithQuery(q, ThingRequest(q)) \in Outcomes
  <2>1. PropertyRequest(q) \in Outcomes BY DEF PropertyRequest, Outcomes, Codes
  <2>2. ActionRequest(q) \in Outcomes BY DEF ActionRequest, Outcomes, Codes
  <2>3. EventRequest(q) \in Outcomes BY DEF EventRequest, Outcomes, Codes
  <2>4. ThingRequest(q) \in Outcomes BY <2>1, <2>2, <2>3 DEF ThingRequest, Outcomes, Codes
  <2>5. WithQuery(q, ThingRequest(q)) \in Outcomes BY <2>4 DEF WithQuery, Outcomes, Codes
  <2> QED BY <2>5
<1>2. CASE ~q.validPort BY <1>2 DEF Dispatch, Outcomes
<1>3. CASE q.validPort /\ q.method \in {"PUT", "POST"} /\ ~q.format
  BY <1>3 DEF Dispatch, Outcomes, Codes
<1>4. CASE q.validPort /\ ~(q.method \in {"PUT", "POST"} /\ ~q.format)
  <2>1. CASE q.path[1] \in {"/", "core"} BY <1>4, <2>1 DEF Dispatch, Outcomes, Codes
  <2>2. CASE q.path[1] \notin {"/", "core"} /\ q.encoding = "badPath"
    BY <1>4, <2>2 DEF Dispatch, Outcomes, Codes
  <2>3. CASE /\ q.path[1] \notin {"/", "core"} /\ q.encoding # "badPath"
             /\ q.path \notin PathsInUse
    BY <1>4, <2>3 DEF Dispatch, Outcomes, Codes
  <2>4. CASE /\ q.path[1] \notin {"/", "core"} /\ q.encoding # "badPath"
             /\ q.path \in PathsInUse
    BY <1>1, <1>4, <2>4 DEF Dispatch
  <2> QED BY <2>1, <2>2, <2>3, <2>4
<1> QED BY <1>2, <1>3, <1>4

(* What a step may do to one record, the listeners and the timers.         *)
LEMMA RecordReplaced ==
    ASSUME RequestsInv, uncaught = "no", NEW r \in Slots, NEW record \in RecordType,
           req' = [req EXCEPT ![r] = record],
           listeners' \subseteq listeners \cup {r}, timers' \subseteq timers \cup {r},
           uncaught' \in Exceptions,
           uncaught' = "no" /\ record.finished /\ record.attached => r \notin listeners'
    PROVE  RequestsInv'
<1>1. req' \in [Slots -> RecordType] BY DEF RequestsInv
<1>2. req'[r] = record /\ \A s \in Slots \ {r} : req'[s] = req[s] BY DEF RequestsInv
<1>3. ReleasedOnFinish'
  <2>1. ASSUME NEW s \in Slots, uncaught' = "no", req'[s].finished, req'[s].attached
        PROVE  s \notin listeners'
    <3>1. CASE s = r BY <1>2, <2>1, <3>1
    <3>2. CASE s # r BY <1>2, <2>1, <3>2 DEF RequestsInv, ReleasedOnFinish
    <3> QED BY <3>1, <3>2
  <2> QED BY <2>1 DEF ReleasedOnFinish
<1> QED BY <1>1, <1>3 DEF RequestsInv

LEMMA RequestsKept ==
    ASSUME RequestsInv, UNCHANGED <<req, uncaught>>, listeners' \subseteq listeners,
           timers' \subseteq timers
    PROVE  RequestsInv'
BY DEF RequestsInv, ReleasedOnFinish

LEMMA AnswerStep ==
    ASSUME RequestsInv, uncaught = "no", NEW r \in Slots, NEW code \in Codes, req[r].finished = FALSE,
           Answer(r, code), UNCHANGED uncaught
    PROVE  RequestsInv'
<1> DEFINE record == Done(req[r], code)
<1>1. req[r] \in RecordType BY DEF RequestsInv
<1>2. record \in RecordType /\ record.finished = FALSE BY <1>1 DEF Done, RecordType
<1>3. req' = [req EXCEPT ![r] = record] /\ UNCHANGED <<listeners, timers>>
  BY DEF Answer, RequestsInv
<1> HIDE DEF record
<1> QED BY <1>2, <1>3, RecordReplaced DEF Exceptions

LEMMA ObservingStep ==
    ASSUME RequestsInv, uncaught = "no", NEW r \in Slots, NEW old \in RecordType,
           Observing(old, r), listeners' \subseteq listeners \cup {r}, UNCHANGED uncaught
    PROVE  RequestsInv'
<1>1. PICK attached \in BOOLEAN : attached = ~old.finished BY DEF RecordType
<1> DEFINE record == [old EXCEPT !.stage = "done", !.ended = TRUE, !.attached = attached]
<1>2. record \in RecordType /\ record.finished = old.finished /\ record.attached = attached
  BY <1>1 DEF RecordType
<1>3. req' = [req EXCEPT ![r] = record] /\ timers' \subseteq timers \cup {r}
  BY <1>1 DEF Observing
<1> HIDE DEF record
<1>4. ~(record.finished /\ record.attached) BY <1>1, <1>2 DEF RecordType
<1> QED BY <1>2, <1>3, <1>4, RecordReplaced DEF Exceptions

LEMMA ReceiveStep ==
    ASSUME RequestsInv, ServingInv, uncaught = "no", NEW r \in Slots, NEW q \in Requests[r],
           Receive(r, q)
    PROVE  RequestsInv'
<1>1. req[r] = Unused /\ req[r].finished = FALSE /\ req[r] \in RecordType
  <2>1. req[r] = Unused BY DEF Receive
  <2>2. Unused.finished = FALSE BY DEF Unused
  <2>3. req[r] \in RecordType BY DEF RequestsInv
  <2> QED BY <2>1, <2>2, <2>3
<1>2. q \in RequestType BY CoapAssumption
<1>3. PICK outcome : outcome = Dispatch(q) OBVIOUS
<1>4. outcome \in Outcomes BY <1>3, DispatchTyped
<1>5. PICK t : t = At(q.path) OBVIOUS
<1>6. outcome \in {"handle", "observe"} => t \in Things
  <2> SUFFICES ASSUME outcome \in {"handle", "observe"} PROVE t \in Things OBVIOUS
  <2>1. q.path \in PathsInUse BY <1>3, DispatchTyped
  <2>2. PICK k \in DOMAIN things : things[k].path = q.path BY <2>1 DEF PathsInUse
  <2>3. At(q.path) = things[k].thing BY <2>2, AtEntry DEF ServingInv
  <2>4. things[k] \in ThingType BY DEF ServingInv, PathsInv
  <2> QED BY <1>5, <2>3, <2>4 DEF ThingType
<1>7. uncaught' = IF outcome = "throws" THEN "uri" ELSE uncaught BY <1>3 DEF Receive
<1>8. CASE outcome \in {"ignored", "throws"}
  <2> DEFINE record == [req[r] EXCEPT !.stage = "ignored"]
  <2>1. req' = [req EXCEPT ![r].stage = "ignored"] /\ UNCHANGED <<listeners, timers>>
    BY <1>3, <1>8 DEF Receive
  <2>2. req' = [req EXCEPT ![r] = record] BY <2>1
  <2>3. record \in RecordType /\ record.finished = FALSE BY <1>1 DEF RecordType
  <2> HIDE DEF record
  <2> QED BY <1>1, <1>7, <2>1, <2>2, <2>3, RecordReplaced DEF Exceptions
<1>9. CASE outcome = "handle"
  <2>1. Handle(r, q, t) BY <1>3, <1>5, <1>9 DEF Receive
  <2>2. CASE t \in destroyed /\ q.name \notin Actions
    <3>1. Answer(r, "5.00") BY <2>1, <2>2 DEF Handle
    <3>2. "5.00" \in Codes BY DEF Codes
    <3> QED BY <1>1, <1>7, <1>9, <3>1, <3>2, AnswerStep
  <2>3. CASE ~(t \in destroyed /\ q.name \notin Actions)
    <3> DEFINE record == [req[r] EXCEPT !.stage = "handler", !.q = q, !.thing = t]
    <3>1. req' = [req EXCEPT ![r] = record] /\ UNCHANGED <<listeners, timers>>
      BY <2>1, <2>3 DEF Handle, RequestsInv
    <3>2. record \in RecordType /\ record.finished = FALSE
      BY <1>1, <1>2, <1>6, <1>9 DEF RecordType
    <3> HIDE DEF record
    <3> QED BY <1>1, <1>7, <1>9, <3>1, <3>2, RecordReplaced DEF Exceptions
  <2> QED BY <2>2, <2>3
<1>10. CASE outcome = "observe"
  <2>1. Observe(r, q, t) BY <1>3, <1>5, <1>10 DEF Receive
  <2> DEFINE old == [req[r] EXCEPT !.q = q, !.thing = t, !.code = "2.05"]
  <2>2. old \in RecordType /\ old.finished = FALSE
    BY <1>1, <1>2, <1>6, <1>10 DEF RecordType, Codes
  <2>3. listeners' = listeners \cup {r} BY <2>1 DEF Observe
  <2>4. CASE q.name \in Handled /\ t \notin destroyed
    <3>1. req' = [req EXCEPT ![r] = [old EXCEPT !.stage = "observe"]] /\ UNCHANGED timers
      BY <2>1, <2>4 DEF Observe
    <3> HIDE DEF old
    <3> DEFINE record == [old EXCEPT !.stage = "observe"]
    <3>2. record \in RecordType /\ record.finished = FALSE BY <2>2 DEF RecordType
    <3>3. req' = [req EXCEPT ![r] = record] BY <3>1
    <3> HIDE DEF record
    <3> QED BY <1>1, <1>7, <1>10, <2>3, <3>1, <3>2, <3>3, RecordReplaced DEF Exceptions
  <2>5. CASE ~(q.name \in Handled /\ t \notin destroyed)
    <3>1. Observing(old, r) BY <2>1, <2>5 DEF Observe
    <3> HIDE DEF old
    <3> QED BY <1>1, <1>7, <1>10, <2>2, <2>3, <3>1, ObservingStep
  <2> QED BY <2>4, <2>5
<1>11. CASE outcome \notin {"ignored", "throws", "handle", "observe"}
  <2>1. Answer(r, outcome) BY <1>3, <1>11 DEF Receive
  <2>2. outcome \in Codes BY <1>4, <1>11 DEF Outcomes
  <2> QED BY <1>1, <1>7, <1>11, <2>1, <2>2, AnswerStep
<1> QED BY <1>8, <1>9, <1>10, <1>11

LEMMA NotifyStep ==
    ASSUME RequestsInv, uncaught = "no", NEW t \in Things, NEW a \in Properties \cup Events,
           Notify(t, a)
    PROVE  RequestsInv'
<1>1. PICK open : req' = [r \in Slots |->
                    IF r \in open THEN [req[r] EXCEPT !.ended = TRUE, !.delivered = @ + 1]
                    ELSE req[r]]
  BY DEF Notify
<1>2. UNCHANGED <<listeners, timers, uncaught>> BY DEF Notify
<1>3. ASSUME NEW r \in Slots
      PROVE  /\ req'[r] \in RecordType
             /\ req'[r].finished = req[r].finished /\ req'[r].attached = req[r].attached
  <2>1. req[r] \in RecordType BY DEF RequestsInv
  <2>2. CASE r \in open
    <3>1. PICK n \in Nat : n = req[r].delivered + 1 BY <2>1 DEF RecordType
    <3> DEFINE record == [req[r] EXCEPT !.ended = TRUE, !.delivered = n]
    <3>2. record \in RecordType BY <2>1 DEF RecordType
    <3>3. record.finished = req[r].finished /\ record.attached = req[r].attached
      BY <2>1 DEF RecordType
    <3>4. req'[r] = record BY <1>1, <2>2, <3>1
    <3> QED BY <3>2, <3>3, <3>4
  <2>3. CASE r \notin open BY <1>1, <2>1, <2>3
  <2> QED BY <2>2, <2>3
<1>4. req' \in [Slots -> RecordType] BY <1>1, <1>3
<1> QED BY <1>2, <1>3, <1>4 DEF RequestsInv, ReleasedOnFinish

LEMMA FinishStep ==
    ASSUME RequestsInv, uncaught = "no", NEW r \in Slots, Finish(r)
    PROVE  RequestsInv'
<1> DEFINE record == [req[r] EXCEPT !.finished = TRUE]
<1>1. req[r] \in RecordType BY DEF RequestsInv
<1>2. record \in RecordType /\ record.attached = req[r].attached BY <1>1 DEF RecordType
<1>3. req' = [req EXCEPT ![r] = record] /\ UNCHANGED timers BY DEF Finish
<1> HIDE DEF record
<1>4. CASE ~req[r].attached
  <2>1. UNCHANGED <<listeners, uncaught>> BY <1>4 DEF Finish
  <2> QED BY <1>2, <1>3, <1>4, <2>1, RecordReplaced DEF Exceptions
<1>5. CASE req[r].attached /\ Release(r, "finish")
  <2>1. listeners' = listeners \ {r} /\ uncaught' \in {"no", "finish"} BY <1>5 DEF Release
  <2> QED BY <1>2, <1>3, <2>1, RecordReplaced DEF Exceptions
<1>6. CASE req[r].attached /\ uncaught' = "message" /\ UNCHANGED listeners
  BY <1>2, <1>3, <1>6, RecordReplaced DEF Exceptions
<1> QED BY <1>4, <1>5, <1>6 DEF Finish

LEMMA TimerStep ==
    ASSUME RequestsInv, uncaught = "no", NEW r \in Slots, TimerFires(r)
    PROVE  RequestsInv'
<1>1. /\ listeners' = listeners \ {r} /\ timers' = timers \ {r} /\ UNCHANGED req
      /\ uncaught' \in {"no", "timer"}
  BY DEF TimerFires, Release
<1> QED BY <1>1 DEF RequestsInv, ReleasedOnFinish, Exceptions

LEMMA RequestsStep == RequestsInv /\ ServingInv /\ [Next]_vars => RequestsInv'
<1> SUFFICES ASSUME RequestsInv, ServingInv, [Next]_vars PROVE RequestsInv' OBVIOUS
<1>1. CASE UNCHANGED vars BY <1>1, RequestsKept DEF vars
<1>2. CASE Next
  <2>1. uncaught = "no" BY <1>2 DEF Next
  <2>2. CASE Start \/ Stop BY <2>2, RequestsKept DEF Start, Stop, Rest
  <2>3. ASSUME NEW t \in Things, Expose(t) PROVE RequestsInv'
    BY <2>3, RequestsKept DEF Expose
  <2>4. ASSUME NEW t \in Things, Destroy(t) PROVE RequestsInv'
    <3>1. UNCHANGED <<req, timers, uncaught>> /\ listeners' \subseteq listeners
      BY <2>4 DEF Destroy
    <3> QED BY <3>1, RequestsKept
  <2>5. ASSUME NEW r \in Slots, NEW q \in Requests[r], Receive(r, q) PROVE RequestsInv'
    BY <2>1, <2>5, ReceiveStep
  <2>6. ASSUME NEW r \in Slots, NEW code \in Codes, req' = [req EXCEPT ![r] = Done(@, code)],
               UNCHANGED <<listeners, timers, uncaught>>
        PROVE  RequestsInv'
    <3> DEFINE record == Done(req[r], code)
    <3>1. req[r] \in RecordType BY DEF RequestsInv
    <3>2. /\ record \in RecordType /\ record.finished = req[r].finished
          /\ record.attached = req[r].attached
      BY <3>1 DEF Done, RecordType
    <3>3. req' = [req EXCEPT ![r] = record] BY <2>6 DEF RequestsInv
    <3> HIDE DEF record
    <3>4. uncaught' = "no" /\ record.finished /\ record.attached => r \notin listeners'
      BY <2>1, <2>6, <3>2 DEF RequestsInv, ReleasedOnFinish
    <3> QED BY <2>1, <2>6, <3>2, <3>3, <3>4, RecordReplaced DEF Exceptions
  <2>7. ASSUME NEW r \in Slots, HandlerDone(r) PROVE RequestsInv'
    <3>1. PICK code \in {"2.04", "2.05"} : req' = [req EXCEPT ![r] = Done(@, code)]
      BY <2>7 DEF HandlerDone
    <3>2. UNCHANGED <<listeners, timers, uncaught>> BY <2>7 DEF HandlerDone
    <3>3. code \in Codes BY DEF Codes
    <3> QED BY <2>6, <3>1, <3>2, <3>3
  <2>8. ASSUME NEW r \in Slots, HandlerRejects(r) PROVE RequestsInv'
    <3>1. "5.00" \in Codes BY DEF Codes
    <3> QED BY <2>6, <2>8, <3>1 DEF HandlerRejects
  <2>9. ASSUME NEW r \in Slots, Observed(r) PROVE RequestsInv'
    <3>1. req[r] \in RecordType BY DEF RequestsInv
    <3> QED BY <2>1, <2>9, <3>1, ObservingStep DEF Observed
  <2>10. ASSUME NEW r \in Slots, Finish(r) \/ TimerFires(r) PROVE RequestsInv'
    BY <2>1, <2>10, FinishStep, TimerStep
  <2>11. ASSUME NEW t \in Things, NEW a \in Properties \cup Events, Notify(t, a) PROVE RequestsInv'
    BY <2>1, <2>11, NotifyStep
  <2> QED BY <1>2, <2>2, <2>3, <2>4, <2>5, <2>7, <2>8, <2>9, <2>10, <2>11 DEF Next
<1> QED BY <1>1, <1>2

(* handleObserveProperty, handleEventRequest: for any number of requests,  *)
(* however they overlap with each other, with notifications, timers and    *)
(* the destruction of Things, a response that is flushed after its         *)
(* callback was attached leaves no listener behind, unless the callback    *)
(* has thrown.                                                             *)
THEOREM ReleasedWhenFlushed == Spec => []ReleasedOnFinish
<1>1. RequestsInv => ReleasedOnFinish BY DEF RequestsInv
<1> QED BY <1>1, ServingInit, ServingStep, RequestsInit, RequestsStep, PTL DEF Spec
=============================================================================
