--------------------------- MODULE ExposureProofs ---------------------------
(***************************************************************************)
(* Theorems about Exposure, for any number of affordances, servers, forms  *)
(* and clients.  What is proved of a listener rests on two facts: a form   *)
(* that has been chosen for a request is found again however many forms    *)
(* are appended later (FormForKept), and unregister() takes one listener   *)
(* out of one list and no other (UnregisteredEffect).                      *)
(***************************************************************************)
EXTENDS Exposure, WellFoundedInduction, TLAPS

(* The lists of listeners of one affordance.                               *)
Lists == UNION {[D -> Seq(Listeners)] : D \in SUBSET Nat}

Single(l, list) == \A i, j \in DOMAIN list : list[i] = l /\ list[j] = l => i = j

(* IsListening, in a registry that is given.                               *)
Listens(registry, l, a, k) ==
    k \in DOMAIN registry[a] /\ l \in Range(registry[a][k])

RegistryOK(registry) ==
    /\ registry \in [Affordances -> Lists]
    /\ \A a \in Affordances : \A k \in DOMAIN registry[a] :
         \A l \in Listeners : Single(l, registry[a][k])

-----------------------------------------------------------------------------
(* Lemmas about lists                                                      *)

LEMMA SmallestIn ==
    ASSUME NEW S, S \subseteq Nat, S # {}
    PROVE  Min(S) \in S
<1> DEFINE less == {p \in Nat \X Nat : p[1] < p[2]}
<1>1. IsWellFoundedOn(less, Nat)
  BY NatLessThanWellFounded DEF OpToRel
<1>2. PICK m \in S : \A j \in S : <<j, m>> \notin less
  BY <1>1, WFMin, Zenon
<1>3. \A j \in S : m <= j
  <2> TAKE j \in S
  <2>1. j \in Nat /\ m \in Nat OBVIOUS
  <2>2. ~ (j < m) BY <1>2, <2>1
  <2> QED BY <2>1, <2>2
<1> QED BY <1>3 DEF Min

LEMMA AppendEffect ==
    ASSUME NEW list \in Seq(Listeners), NEW l \in Listeners
    PROVE  /\ Append(list, l) \in Seq(Listeners)
           /\ Range(Append(list, l)) = Range(list) \cup {l}
           /\ \A x \in Listeners : Single(x, list) /\ (x = l => l \notin Range(list))
                                   => Single(x, Append(list, l))
<1>1. DOMAIN Append(list, l) = 1 .. Len(list) + 1 /\ DOMAIN list = 1 .. Len(list)
  OBVIOUS
<1>2. \A k \in 1 .. Len(list) : Append(list, l)[k] = list[k]
  OBVIOUS
<1>3. Append(list, l)[Len(list) + 1] = l OBVIOUS
<1>4. Range(Append(list, l)) = Range(list) \cup {l}
  BY <1>1, <1>2, <1>3 DEF Range
<1>5. ASSUME NEW x \in Listeners, Single(x, list), x = l => l \notin Range(list),
             NEW i \in DOMAIN Append(list, l), NEW j \in DOMAIN Append(list, l),
             Append(list, l)[i] = x, Append(list, l)[j] = x
      PROVE  i = j
  <2>1. i \in 1 .. Len(list) \/ i = Len(list) + 1 BY <1>1
  <2>2. j \in 1 .. Len(list) \/ j = Len(list) + 1 BY <1>1
  <2>3. CASE x = l
    <3>1. \A k \in 1 .. Len(list) : list[k] # l BY <1>1, <1>5, <2>3 DEF Range
    <3> QED BY <1>2, <1>5, <2>1, <2>2, <2>3, <3>1
  <2>4. CASE x # l
    <3>1. i \in 1 .. Len(list) /\ j \in 1 .. Len(list) BY <1>3, <1>5, <2>1, <2>2, <2>4
    <3>2. list[i] = x /\ list[j] = x BY <1>2, <1>5, <3>1
    <3> QED BY <1>1, <1>5, <3>1, <3>2 DEF Single
  <2> QED BY <2>3, <2>4
<1> QED BY <1>4, <1>5 DEF Single

(* splice(index, 1): that listener goes and the others stay.               *)
LEMMA WithoutEffect ==
    ASSUME NEW list \in Seq(Listeners), NEW l \in Range(list), Single(l, list)
    PROVE  /\ Without(l, list) \in Seq(Listeners)
           /\ Range(Without(l, list)) = Range(list) \ {l}
           /\ \A x \in Listeners : Single(x, list) => Single(x, Without(l, list))
<1> DEFINE S == {j \in DOMAIN list : list[j] = l}
           p == Position(l, list)
           w == Without(l, list)
<1>1. DOMAIN list = 1 .. Len(list) /\ Len(list) \in Nat OBVIOUS
<1>2. S # {} /\ S \subseteq Nat BY <1>1 DEF Range
<1>3. p \in DOMAIN list /\ list[p] = l BY <1>2, SmallestIn DEF Position
<1>4. p \in 1 .. Len(list) BY <1>1, <1>3
<1> HIDE DEF p
<1>5. w = [j \in 1 .. Len(list) - 1 |-> IF j < p THEN list[j] ELSE list[j + 1]]
  BY DEF Without, p
<1>6. \A j \in 1 .. Len(list) - 1 : (IF j < p THEN list[j] ELSE list[j + 1]) \in Listeners
  BY <1>1
<1>7. w \in Seq(Listeners) /\ DOMAIN w = 1 .. Len(list) - 1
  BY <1>1, <1>4, <1>5, <1>6
<1> HIDE DEF w
(* Where the entries of the new list come from, and go to.                 *)
<1> DEFINE from(j) == IF j < p THEN j ELSE j + 1
<1>8. ASSUME NEW j \in DOMAIN w
      PROVE  /\ from(j) \in DOMAIN list /\ from(j) # p /\ w[j] = list[from(j)]
             /\ \A i \in DOMAIN w : from(i) = from(j) => i = j
  BY <1>1, <1>4, <1>5, <1>7
<1>9. ASSUME NEW k \in DOMAIN list, k # p
      PROVE  \E j \in DOMAIN w : w[j] = list[k]
  <2>1. CASE k < p
    <3>1. k \in DOMAIN w BY <1>1, <1>4, <1>7, <2>1
    <3> QED BY <1>5, <1>7, <2>1, <3>1
  <2>2. CASE ~ (k < p)
    <3>1. k - 1 \in DOMAIN w /\ ~ (k - 1 < p) /\ (k - 1) + 1 = k
      BY <1>1, <1>4, <1>7, <1>9, <2>2
    <3>2. w[k - 1] = list[k] BY <1>5, <1>7, <3>1
    <3> QED BY <3>1, <3>2
  <2> QED BY <2>1, <2>2
<1> HIDE DEF from
<1>10. \A k \in DOMAIN list : list[k] = l => k = p
  BY <1>3 DEF Single
<1>11. Range(w) = Range(list) \ {l}
  <2>1. ASSUME NEW x \in Range(w) PROVE x \in Range(list) /\ x # l
    BY <1>8, <1>10, <2>1 DEF Range
  <2>2. ASSUME NEW x \in Range(list), x # l PROVE x \in Range(w)
    <3>1. PICK k \in DOMAIN list : list[k] = x BY <2>2 DEF Range
    <3>2. k # p BY <1>3, <2>2, <3>1
    <3> QED BY <1>9, <3>1, <3>2 DEF Range
  <2> QED BY <2>1, <2>2
<1>12. ASSUME NEW x \in Listeners, Single(x, list) PROVE Single(x, w)
  <2> SUFFICES ASSUME NEW i \in DOMAIN w, NEW j \in DOMAIN w, w[i] = x, w[j] = x
               PROVE  i = j
    BY DEF Single
  <2>1. list[from(i)] = x /\ list[from(j)] = x
        /\ from(i) \in DOMAIN list /\ from(j) \in DOMAIN list
    BY <1>8
  <2>2. from(i) = from(j) BY <1>12, <2>1 DEF Single
  <2> QED BY <1>8, <2>2
<1> QED BY <1>7, <1>11, <1>12 DEF w

-----------------------------------------------------------------------------
(* Lemmas about the registry                                               *)

LEMMA ListsFields ==
    ASSUME NEW registry, RegistryOK(registry), NEW a \in Affordances
    PROVE  /\ registry[a] \in Lists
           /\ DOMAIN registry[a] \subseteq Nat
           /\ \A k \in DOMAIN registry[a] :
                /\ registry[a][k] \in Seq(Listeners)
                /\ \A l \in Listeners : Single(l, registry[a][k])
<1>1. registry[a] \in Lists BY DEF RegistryOK
<1>2. PICK D \in SUBSET Nat : registry[a] \in [D -> Seq(Listeners)] BY <1>1 DEF Lists
<1> QED BY <1>1, <1>2 DEF RegistryOK

LEMMA ListensIs ==
    ASSUME NEW l, NEW a, NEW k
    PROVE  IsListening(l, a, k) <=> Listens(listeners, l, a, k)
<1>1. Range(<<>>) = {} BY DEF Range
<1> QED BY <1>1 DEF IsListening, At, Listens

(* What one affordance has after register() of l under some forms.         *)
Booked(l, a, I) ==
    [k \in DOMAIN listeners[a] \cup I |->
       IF k \in I THEN Append(At(a, k), l) ELSE listeners[a][k]]

LEMMA RegisteredAt ==
    ASSUME RegistryOK(listeners), NEW a \in Affordances, NEW l \in Listeners,
           NEW I \in SUBSET Nat, \A k \in I : ~Listens(listeners, l, a, k)
    PROVE  /\ Booked(l, a, I) \in Lists
           /\ \A k \in DOMAIN Booked(l, a, I) :
                \A x \in Listeners : Single(x, Booked(l, a, I)[k])
           /\ \A x \in Listeners, k \in Nat :
                k \in DOMAIN Booked(l, a, I) /\ x \in Range(Booked(l, a, I)[k])
                  <=> Listens(listeners, x, a, k) \/ (x = l /\ k \in I)
<1> DEFINE book == Booked(l, a, I)
           D == DOMAIN listeners[a] \cup I
<1>1. /\ DOMAIN listeners[a] \subseteq Nat
      /\ \A k \in DOMAIN listeners[a] :
           /\ listeners[a][k] \in Seq(Listeners)
           /\ \A x \in Listeners : Single(x, listeners[a][k])
  BY ListsFields
<1>2. ASSUME NEW k \in I
      PROVE  /\ At(a, k) \in Seq(Listeners) /\ l \notin Range(At(a, k))
             /\ \A x \in Listeners : Single(x, At(a, k))
             /\ \A x : x \in Range(At(a, k)) <=> Listens(listeners, x, a, k)
  <2>1. CASE k \in DOMAIN listeners[a]
    BY <1>1, <2>1 DEF At, Listens
  <2>2. CASE k \notin DOMAIN listeners[a]
    <3>1. At(a, k) = <<>> BY <2>2 DEF At
    <3>2. <<>> \in Seq(Listeners) /\ Range(<<>>) = {} /\ DOMAIN <<>> = {}
      BY DEF Range
    <3> QED BY <2>2, <3>1, <3>2 DEF Single, Listens
  <2> QED BY <2>1, <2>2
<1>0. book = [k \in D |-> IF k \in I THEN Append(At(a, k), l) ELSE listeners[a][k]]
  BY DEF Booked
<1> HIDE DEF book
<1>3. DOMAIN book = D BY <1>0
<1>4. ASSUME NEW k \in I
      PROVE  /\ book[k] \in Seq(Listeners) /\ Range(book[k]) = Range(At(a, k)) \cup {l}
             /\ \A x \in Listeners : Single(x, book[k])
  <2>1. book[k] = Append(At(a, k), l) BY <1>0, <1>4
  <2> QED BY <1>2, <2>1, AppendEffect
<1>5. \A k \in D \ I : book[k] = listeners[a][k] BY <1>0
<1>6. \A k \in D : book[k] \in Seq(Listeners) BY <1>1, <1>4, <1>5
<1>7. book \in Lists
  <2>1. D \in SUBSET Nat BY <1>1
  <2>2. book \in [D -> Seq(Listeners)] BY <1>0, <1>6
  <2> HIDE DEF D
  <2> QED BY <2>1, <2>2 DEF Lists
<1>8. \A k \in D : \A x \in Listeners : Single(x, book[k]) BY <1>1, <1>4, <1>5
<1>9. ASSUME NEW x \in Listeners, NEW k \in Nat
      PROVE  k \in DOMAIN book /\ x \in Range(book[k])
               <=> Listens(listeners, x, a, k) \/ (x = l /\ k \in I)
  <2>1. CASE k \in I BY <1>2, <1>3, <1>4, <2>1
  <2>2. CASE k \notin I BY <1>3, <1>5, <2>2 DEF Listens
  <2> QED BY <2>1, <2>2
<1> QED BY <1>3, <1>7, <1>8, <1>9 DEF book

LEMMA RegisteredEffect ==
    ASSUME RegistryOK(listeners), NEW a \in Affordances, NEW l \in Listeners,
           NEW I \in SUBSET Nat, \A k \in I : ~Listens(listeners, l, a, k),
           listeners' = Registered(l, a, I)
    PROVE  /\ RegistryOK(listeners')
           /\ \A x \in Listeners, b \in Affordances, k \in Nat :
                Listens(listeners', x, b, k)
                  <=> Listens(listeners, x, b, k) \/ (x = l /\ b = a /\ k \in I)
<1> DEFINE book == Booked(l, a, I)
<1>1. listeners' = [listeners EXCEPT ![a] = book] BY DEF Registered, Booked
<1>2. /\ book \in Lists
      /\ \A k \in DOMAIN book : \A x \in Listeners : Single(x, book[k])
      /\ \A x \in Listeners, k \in Nat :
           k \in DOMAIN book /\ x \in Range(book[k])
             <=> Listens(listeners, x, a, k) \/ (x = l /\ k \in I)
  BY RegisteredAt
<1> HIDE DEF book
<1>3. listeners \in [Affordances -> Lists] BY DEF RegistryOK
<1>4. /\ listeners' \in [Affordances -> Lists] /\ listeners'[a] = book
      /\ \A b \in Affordances \ {a} : listeners'[b] = listeners[b]
  BY <1>1, <1>2, <1>3
<1>5. RegistryOK(listeners') BY <1>2, <1>4 DEF RegistryOK
<1> QED BY <1>2, <1>4, <1>5 DEF Listens

LEMMA UnregisteredEffect ==
    ASSUME RegistryOK(listeners), NEW a \in Affordances, NEW l \in Listeners, NEW I,
           listeners' = Unregistered(l, a, I)
    PROVE  /\ RegistryOK(listeners')
           /\ \A x \in Listeners, b \in Affordances, k \in Nat :
                Listens(listeners', x, b, k)
                  <=> Listens(listeners, x, b, k) /\ ~(x = l /\ b = a /\ k \in I)
<1> DEFINE book == [k \in DOMAIN listeners[a] |->
                      IF k \in I /\ IsListening(l, a, k)
                      THEN Without(l, listeners[a][k]) ELSE listeners[a][k]]
<1>1. listeners' = [listeners EXCEPT ![a] = book] BY DEF Unregistered
<1>2. /\ DOMAIN listeners[a] \subseteq Nat
      /\ \A k \in DOMAIN listeners[a] :
           /\ listeners[a][k] \in Seq(Listeners)
           /\ \A x \in Listeners : Single(x, listeners[a][k])
  BY ListsFields
<1>3. ASSUME NEW k \in DOMAIN listeners[a]
      PROVE  /\ book[k] \in Seq(Listeners)
             /\ \A x \in Listeners : Single(x, book[k])
             /\ \A x \in Listeners :
                  x \in Range(book[k]) <=> x \in Range(listeners[a][k]) /\ ~(x = l /\ k \in I)
  <2>1. CASE k \in I /\ IsListening(l, a, k)
    <3>1. l \in Range(listeners[a][k]) BY <2>1, ListensIs DEF Listens
    <3>2. book[k] = Without(l, listeners[a][k]) BY <2>1
    <3> QED BY <1>2, <2>1, <3>1, <3>2, WithoutEffect
  <2>2. CASE ~(k \in I /\ IsListening(l, a, k))
    <3>1. book[k] = listeners[a][k] BY <2>2
    <3>2. k \in I => l \notin Range(listeners[a][k]) BY <2>2, ListensIs DEF Listens
    <3> QED BY <1>2, <3>1, <3>2
  <2> QED BY <2>1, <2>2
<1>4. DOMAIN book = DOMAIN listeners[a] OBVIOUS
<1>5. book \in Lists
  <2>1. book \in [DOMAIN listeners[a] -> Seq(Listeners)] BY <1>3
  <2> HIDE DEF book
  <2> QED BY <1>2, <2>1 DEF Lists
<1> HIDE DEF book
<1>6. listeners \in [Affordances -> Lists] BY DEF RegistryOK
<1>7. /\ listeners' \in [Affordances -> Lists] /\ listeners'[a] = book
      /\ \A b \in Affordances \ {a} : listeners'[b] = listeners[b]
  BY <1>1, <1>5, <1>6
<1>8. RegistryOK(listeners') BY <1>3, <1>4, <1>7 DEF RegistryOK
<1>9. ASSUME NEW x \in Listeners, NEW b \in Affordances, NEW k \in Nat
      PROVE  Listens(listeners', x, b, k)
               <=> Listens(listeners, x, b, k) /\ ~(x = l /\ b = a /\ k \in I)
  <2>1. CASE b = a BY <1>3, <1>4, <1>7, <2>1 DEF Listens
  <2>2. CASE b # a BY <1>7, <2>2 DEF Listens
  <2> QED BY <2>1, <2>2
<1> QED BY <1>8, <1>9

-----------------------------------------------------------------------------
(* Forms                                                                   *)

ObservePath(a) == IF a \in Properties THEN "observable" ELSE "event"

(* A form for long polls, through which a listener comes and goes.         *)
HttpForm(a, k) ==
    /\ k \in DOMAIN forms[a]
    /\ forms[a][k].type = "http"
    /\ ObserveOp(a) \in forms[a][k].op /\ UnobserveOp(a) \in forms[a][k].op

FormsOK ==
    /\ forms \in [Affordances -> Seq(FormType)]
    /\ \A a \in Affordances, k \in Nat :
         k \in DOMAIN forms[a] /\ forms[a][k].type = "http"
           /\ forms[a][k].path = ObservePath(a) => HttpForm(a, k)
    /\ \A s \in exposing, a \in Affordances : Type[s] = "http" =>
         \E k \in DOMAIN forms[a] :
           forms[a][k].type = "http" /\ forms[a][k].path = ObservePath(a)

LEMMA OneForm ==
    ASSUME NEW f \in FormType
    PROVE  /\ <<f>> \in Seq(FormType) /\ Len(<<f>>) = 1
           /\ <<f>>[1] = f /\ \A k \in 1 .. 1 : <<f>>[k] = f
  OBVIOUS

LEMMA TwoForms ==
    ASSUME NEW f \in FormType, NEW g \in FormType
    PROVE  /\ <<f, g>> \in Seq(FormType) /\ Len(<<f, g>>) = 2
           /\ <<f, g>>[1] = f /\ <<f, g>>[2] = g
           /\ \A k \in 1 .. 2 : <<f, g>>[k] = f \/ <<f, g>>[k] = g
  OBVIOUS

LEMMA AppendedForms ==
    ASSUME NEW type \in {"http", "ws", "mqtt"}, NEW a \in Affordances
    PROVE  /\ Appended(type, a) \in Seq(FormType)
           /\ Len(Appended(type, a)) \in {1, 2}
           /\ \A k \in 1 .. Len(Appended(type, a)) :
                LET f == Appended(type, a)[k] IN
                f.type = "http" /\ f.path = ObservePath(a)
                  => ObserveOp(a) \in f.op /\ UnobserveOp(a) \in f.op
           /\ type = "http" =>
                LET f == Appended(type, a)[Len(Appended(type, a))] IN
                f.type = "http" /\ f.path = ObservePath(a)
           /\ type = "mqtt" =>
                LET f == Appended(type, a)[1] IN
                f.type = "mqtt" /\ ObserveOp(a) \in f.op
<1> DEFINE fits(x) == x.type = "http" /\ x.path = ObservePath(a)
           takes(x) == ObserveOp(a) \in x.op /\ UnobserveOp(a) \in x.op
           good(x) == x \in FormType /\ (fits(x) => takes(x))
<1>1. CASE type = "http" /\ a \in Properties
  <2> DEFINE f == [type |-> "http", path |-> "value",
                   op |-> {"read", "write"}]
             g == [type |-> "http", path |-> "observable",
                   op |-> {"observe", "unobserve"}]
  <2>1. Appended(type, a) = <<f, g>> BY <1>1 DEF Appended, Events
  <2>2. good(f) /\ good(g)
    BY <1>1 DEF FormType, ObservePath, ObserveOp, UnobserveOp
  <2>3. (type = "http" => fits(g)) /\ (type = "mqtt" => f.type = "mqtt" /\ ObserveOp(a) \in f.op)
    BY <1>1 DEF ObservePath, ObserveOp
  <2> HIDE DEF f, g
  <2> QED BY <2>1, <2>2, <2>3, TwoForms
<1>2. CASE type = "http" /\ a \notin Properties
  <2> DEFINE f == [type |-> "http", path |-> "event",
                   op |-> {"subscribe", "unsubscribe"}]
  <2>1. Appended(type, a) = <<f>> BY <1>2 DEF Appended, Events
  <2>2. good(f)
    BY <1>2 DEF FormType, ObservePath, ObserveOp, UnobserveOp
  <2>3. (type = "http" => fits(f)) /\ (type = "mqtt" => f.type = "mqtt" /\ ObserveOp(a) \in f.op)
    BY <1>2 DEF ObservePath, ObserveOp
  <2> HIDE DEF f
  <2> QED BY <2>1, <2>2, <2>3, OneForm
<1>3. CASE type = "ws" /\ a \in Properties
  <2> DEFINE f == [type |-> "ws", path |-> "value",
                   op |-> {"read", "observe", "unobserve", "write"}]
  <2>1. Appended(type, a) = <<f>> BY <1>3 DEF Appended, Events
  <2>2. good(f)
    BY <1>3 DEF FormType, ObservePath, ObserveOp, UnobserveOp
  <2>3. (type = "http" => fits(f)) /\ (type = "mqtt" => f.type = "mqtt" /\ ObserveOp(a) \in f.op)
    BY <1>3 DEF ObservePath, ObserveOp
  <2> HIDE DEF f
  <2> QED BY <2>1, <2>2, <2>3, OneForm
<1>4. CASE type = "ws" /\ a \notin Properties
  <2> DEFINE f == [type |-> "ws", path |-> "event",
                   op |-> {"subscribe"}]
  <2>1. Appended(type, a) = <<f>> BY <1>4 DEF Appended, Events
  <2>2. good(f)
    BY <1>4 DEF FormType, ObservePath, ObserveOp, UnobserveOp
  <2>3. (type = "http" => fits(f)) /\ (type = "mqtt" => f.type = "mqtt" /\ ObserveOp(a) \in f.op)
    BY <1>4 DEF ObservePath, ObserveOp
  <2> HIDE DEF f
  <2> QED BY <2>1, <2>2, <2>3, OneForm
<1>5. CASE type = "mqtt" /\ a \in Properties
  <2> DEFINE f == [type |-> "mqtt", path |-> "value",
                   op |-> {"read", "observe", "unobserve"}]
             g == [type |-> "mqtt", path |-> "write",
                   op |-> {"write"}]
  <2>1. Appended(type, a) = <<f, g>> BY <1>5 DEF Appended, Events
  <2>2. good(f) /\ good(g)
    BY <1>5 DEF FormType, ObservePath, ObserveOp, UnobserveOp
  <2>3. (type = "http" => fits(g)) /\ (type = "mqtt" => f.type = "mqtt" /\ ObserveOp(a) \in f.op)
    BY <1>5 DEF ObservePath, ObserveOp
  <2> HIDE DEF f, g
  <2> QED BY <2>1, <2>2, <2>3, TwoForms
<1>6. CASE type = "mqtt" /\ a \notin Properties
  <2> DEFINE f == [type |-> "mqtt", path |-> "event",
                   op |-> {"subscribe", "unsubscribe"}]
  <2>1. Appended(type, a) = <<f>> BY <1>6 DEF Appended, Events
  <2>2. good(f)
    BY <1>6 DEF FormType, ObservePath, ObserveOp, UnobserveOp
  <2>3. (type = "http" => fits(f)) /\ (type = "mqtt" => f.type = "mqtt" /\ ObserveOp(a) \in f.op)
    BY <1>6 DEF ObservePath, ObserveOp
  <2> HIDE DEF f
  <2> QED BY <2>1, <2>2, <2>3, OneForm
<1> QED BY <1>1, <1>2, <1>3, <1>4, <1>5, <1>6

LEMMA RepeatedForms ==
    ASSUME NEW type \in {"http", "ws", "mqtt"}, NEW a \in Affordances
    PROVE  LET r == Repeated(type, a) IN
           /\ r \in Seq(FormType) /\ 1 \in DOMAIN r
           /\ \A k \in DOMAIN r :
                r[k].type = "http" /\ r[k].path = ObservePath(a)
                  => ObserveOp(a) \in r[k].op /\ UnobserveOp(a) \in r[k].op
           /\ type = "http" =>
                \E k \in DOMAIN r : r[k].type = "http" /\ r[k].path = ObservePath(a)
           /\ type = "mqtt" => r[1].type = "mqtt" /\ ObserveOp(a) \in r[1].op
<1> DEFINE once == Appended(type, a)
           n == Len(once)
           times == IF type = "mqtt" THEN 1 ELSE Offered
           r == Repeated(type, a)
<1>1. /\ once \in Seq(FormType) /\ n \in {1, 2}
      /\ \A k \in 1 .. n : once[k].type = "http" /\ once[k].path = ObservePath(a)
           => ObserveOp(a) \in once[k].op /\ UnobserveOp(a) \in once[k].op
      /\ type = "http" => once[n].type = "http" /\ once[n].path = ObservePath(a)
      /\ type = "mqtt" => once[1].type = "mqtt" /\ ObserveOp(a) \in once[1].op
  BY AppendedForms
<1>2. times \in Nat \ {0} BY ExposureAssumption
<1>3. r = [k \in 1 .. times * n |-> once[((k - 1) % n) + 1]]
  BY DEF Repeated
<1> HIDE DEF once, n, times, r
<1>4. times * n \in Nat /\ 1 <= times * n /\ n <= times * n
  <2>1. CASE n = 1 BY <1>2, <2>1
  <2>2. CASE n = 2 BY <1>2, <2>2
  <2> QED BY <1>1, <2>1, <2>2
<1>5. DOMAIN r = 1 .. times * n BY <1>3
<1>6. ASSUME NEW k \in DOMAIN r
      PROVE  ((k - 1) % n) + 1 \in 1 .. n /\ r[k] = once[((k - 1) % n) + 1]
  <2>1. k - 1 \in Nat BY <1>4, <1>5
  <2>2. (k - 1) % n \in 0 .. n - 1
    <3>1. CASE n = 1 BY <2>1, <3>1
    <3>2. CASE n = 2 BY <2>1, <3>2
    <3> QED BY <1>1, <3>1, <3>2
  <2>3. ((k - 1) % n) + 1 \in 1 .. n BY <1>1, <2>2
  <2>4. r[k] = once[((k - 1) % n) + 1] BY <1>3, <1>5
  <2> QED BY <2>3, <2>4
<1>7. DOMAIN once = 1 .. n BY <1>1 DEF n
<1>8. \A k \in DOMAIN r : r[k] \in FormType
  BY <1>1, <1>6, <1>7
<1>9. r \in Seq(FormType)
  BY <1>3, <1>4, <1>5, <1>8
<1>10. 1 \in DOMAIN r /\ n \in DOMAIN r
  BY <1>1, <1>4, <1>5
<1>11. ((n - 1) % n) + 1 = n /\ ((1 - 1) % n) + 1 = 1
  <2>1. CASE n = 1 BY <2>1
  <2>2. CASE n = 2 BY <2>2
  <2> QED BY <1>1, <2>1, <2>2
<1>12. r[n] = once[n] /\ r[1] = once[1]
  <2>1. r[n] = once[((n - 1) % n) + 1] BY <1>6, <1>10
  <2>2. r[1] = once[((1 - 1) % n) + 1] BY <1>6, <1>10
  <2> QED BY <2>1, <2>2, <1>11
<1> QED BY <1>1, <1>6, <1>9, <1>10, <1>12 DEF r

(* The forms that a long poll is registered under are for it.              *)
LEMMA MatchingObserves ==
    ASSUME FormsOK, NEW s \in exposing, Type[s] = "http", NEW a \in Affordances
    PROVE  HttpForm(a, MatchingForm(a, "http", ObservePath(a)))
<1> DEFINE matching == {k \in DOMAIN forms[a] :
                          forms[a][k].type = "http" /\ forms[a][k].path = ObservePath(a)}
<1>1. DOMAIN forms[a] \subseteq Nat BY DEF FormsOK
<1>2. matching # {} /\ matching \subseteq Nat BY <1>1 DEF FormsOK
<1>3. Min(matching) \in matching BY <1>2, SmallestIn
<1>4. MatchingForm(a, "http", ObservePath(a)) = Min(matching)
  BY <1>2 DEF MatchingForm
<1> HIDE DEF matching
<1>5. MatchingForm(a, "http", ObservePath(a)) \in matching BY <1>3, <1>4
<1> QED BY <1>1, <1>5 DEF FormsOK, matching

(* Whatever forms have been appended since: unobserving finds the form     *)
(* that observing has chosen.                                              *)
LEMMA FormForKept ==
    ASSUME NEW a \in Affordances, NEW k, HttpForm(a, k),
           NEW op \in {ObserveOp(a), UnobserveOp(a)}
    PROVE  FormFor(a, op, k) = k
  BY DEF FormFor, HttpForm

Grown ==
    \A a \in Affordances :
      /\ DOMAIN forms[a] \subseteq DOMAIN forms'[a]
      /\ \A k \in DOMAIN forms[a] :
           /\ forms'[a][k] = forms[a][k]
           /\ \A j \in DOMAIN forms'[a] : j < k => j \in DOMAIN forms[a]

LEMMA ConcatForms ==
    ASSUME NEW s \in Seq(FormType), NEW r \in Seq(FormType)
    PROVE  /\ s \o r \in Seq(FormType)
           /\ DOMAIN s \subseteq DOMAIN (s \o r)
           /\ \A k \in DOMAIN s :
                /\ (s \o r)[k] = s[k]
                /\ \A j \in DOMAIN (s \o r) : j < k => j \in DOMAIN s
           /\ \A i \in DOMAIN r :
                Len(s) + i \in DOMAIN (s \o r) /\ (s \o r)[Len(s) + i] = r[i]
           /\ \A k \in DOMAIN (s \o r) :
                k \in DOMAIN s \/ \E i \in DOMAIN r : k = Len(s) + i
<1>1. /\ s \o r \in Seq(FormType)
      /\ DOMAIN (s \o r) = 1 .. Len(s) + Len(r)
      /\ DOMAIN s = 1 .. Len(s) /\ DOMAIN r = 1 .. Len(r)
      /\ Len(s) \in Nat /\ Len(r) \in Nat
      /\ \A k \in 1 .. Len(s) : (s \o r)[k] = s[k]
      /\ \A k \in 1 .. Len(r) : (s \o r)[Len(s) + k] = r[k]
  OBVIOUS
<1>2. ASSUME NEW k \in DOMAIN (s \o r), k \notin DOMAIN s
      PROVE  \E i \in DOMAIN r : k = Len(s) + i
  <2>1. k - Len(s) \in DOMAIN r /\ k = Len(s) + (k - Len(s)) BY <1>1, <1>2
  <2> QED BY <2>1
<1>3. ASSUME NEW k \in DOMAIN s, NEW j \in DOMAIN (s \o r), j < k
      PROVE  j \in DOMAIN s
  BY <1>1, <1>3
<1>4. DOMAIN s \subseteq DOMAIN (s \o r) BY <1>1
<1>5. \A i \in DOMAIN r : Len(s) + i \in DOMAIN (s \o r) BY <1>1
<1> QED BY <1>1, <1>2, <1>3, <1>4, <1>5

LEMMA FormsAdded ==
    ASSUME FormsOK, NEW s \in Servers,
           exposing' = exposing \cup {s},
           forms' = [a \in Affordances |-> forms[a] \o Repeated(Type[s], a)]
    PROVE  /\ FormsOK' /\ Grown
           /\ \A a \in Affordances :
                /\ Len(forms[a]) + 1 \in DOMAIN forms'[a]
                /\ forms'[a][Len(forms[a]) + 1] = Repeated(Type[s], a)[1]
<1> DEFINE r(a) == Repeated(Type[s], a)
<1>1. Type[s] \in {"http", "ws", "mqtt"} BY ExposureAssumption
<1>2. ASSUME NEW a \in Affordances
      PROVE  /\ forms'[a] \in Seq(FormType)
             /\ DOMAIN forms[a] \subseteq DOMAIN forms'[a]
             /\ \A k \in DOMAIN forms[a] :
                  /\ forms'[a][k] = forms[a][k]
                  /\ \A j \in DOMAIN forms'[a] : j < k => j \in DOMAIN forms[a]
             /\ \A i \in DOMAIN r(a) :
                  /\ Len(forms[a]) + i \in DOMAIN forms'[a]
                  /\ forms'[a][Len(forms[a]) + i] = r(a)[i]
             /\ \A k \in DOMAIN forms'[a] :
                  k \in DOMAIN forms[a] \/ \E i \in DOMAIN r(a) : k = Len(forms[a]) + i
  <2>1. forms[a] \in Seq(FormType) /\ r(a) \in Seq(FormType)
    BY <1>1, RepeatedForms DEF FormsOK
  <2>2. forms'[a] = forms[a] \o r(a) OBVIOUS
  <2> DEFINE x == forms[a]
             y == r(a)
             z == forms'[a]
  <2> HIDE DEF r, x, y, z
  <2>3. x \in Seq(FormType) /\ y \in Seq(FormType) /\ z = x \o y BY <2>1, <2>2 DEF x, y, z
  <2>4. /\ z \in Seq(FormType)
        /\ DOMAIN x \subseteq DOMAIN z
        /\ \A k \in DOMAIN x :
             /\ z[k] = x[k]
             /\ \A j \in DOMAIN z : j < k => j \in DOMAIN x
        /\ \A i \in DOMAIN y : Len(x) + i \in DOMAIN z /\ z[Len(x) + i] = y[i]
        /\ \A k \in DOMAIN z : k \in DOMAIN x \/ \E i \in DOMAIN y : k = Len(x) + i
    BY <2>3, ConcatForms
  <2> QED BY <2>4 DEF x, y, z
<1>3. Grown
  BY <1>2 DEF Grown
<1>4. \A a \in Affordances :
        /\ Len(forms[a]) + 1 \in DOMAIN forms'[a]
        /\ forms'[a][Len(forms[a]) + 1] = Repeated(Type[s], a)[1]
  BY <1>1, <1>2, RepeatedForms
<1>5. forms' \in [Affordances -> Seq(FormType)]
  BY <1>2
<1>6. ASSUME NEW a \in Affordances, NEW k \in Nat, k \in DOMAIN forms'[a],
             forms'[a][k].type = "http", forms'[a][k].path = ObservePath(a)
      PROVE  ObserveOp(a) \in forms'[a][k].op /\ UnobserveOp(a) \in forms'[a][k].op
  <2>1. CASE k \in DOMAIN forms[a]
    <3>1. forms'[a][k] = forms[a][k] BY <1>3, <2>1 DEF Grown
    <3> QED BY <1>6, <2>1, <3>1 DEF FormsOK, HttpForm
  <2>2. CASE k \notin DOMAIN forms[a]
    <3>1. PICK j \in DOMAIN r(a) : k = Len(forms[a]) + j
      BY <1>2, <1>6, <2>2
    <3>2. forms'[a][k] = r(a)[j] BY <1>2, <3>1
    <3>3. r(a)[j].type = "http" /\ r(a)[j].path = ObservePath(a)
            => ObserveOp(a) \in r(a)[j].op /\ UnobserveOp(a) \in r(a)[j].op
      BY <1>1, <3>1, RepeatedForms
    <3> QED BY <1>6, <3>2, <3>3
  <2> QED BY <2>1, <2>2
<1>7. ASSUME NEW t \in exposing', NEW a \in Affordances, Type[t] = "http"
      PROVE  \E k \in DOMAIN forms'[a] :
               forms'[a][k].type = "http" /\ forms'[a][k].path = ObservePath(a)
  <2>1. CASE t \in exposing
    <3>1. PICK k \in DOMAIN forms[a] :
            forms[a][k].type = "http" /\ forms[a][k].path = ObservePath(a)
      BY <1>7, <2>1 DEF FormsOK
    <3> QED BY <1>3, <3>1 DEF Grown
  <2>2. CASE t = s
    <3>1. PICK i \in DOMAIN r(a) : r(a)[i].type = "http" /\ r(a)[i].path = ObservePath(a)
      BY <1>1, <1>7, <2>2, RepeatedForms
    <3>2. /\ Len(forms[a]) + i \in DOMAIN forms'[a]
          /\ forms'[a][Len(forms[a]) + i] = r(a)[i]
      BY <1>2
    <3> QED BY <3>1, <3>2
  <2> QED BY <2>1, <2>2
<1> QED BY <1>3, <1>4, <1>5, <1>6, <1>7 DEF FormsOK, HttpForm, ObserveOp, UnobserveOp, ObservePath

-----------------------------------------------------------------------------
(* The invariant                                                           *)

TypeOK ==
    /\ FormsOK
    /\ exposing \subseteq Servers
    /\ RegistryOK(listeners)
    /\ awaited \subseteq Listeners
    /\ conn \in [Conns -> ConnType]
    /\ destroyed \in BOOLEAN
    /\ uncaught \in {"no", "listener", "handler"}

Quiet(c) == \A b \in Affordances, k \in Nat : ~Listens(listeners, c, b, k)

(* Its callbacks have been called at the end of the request.               *)
Released(c) ==
    conn[c].attached /\ IF conn[c].aff \in Properties THEN conn[c].finished
                        ELSE conn[c].closed

(* A long poll is registered under no form before its credentials are      *)
(* checked, and then under the one it has chosen until it is released.     *)
HttpOK(c) ==
    LET r == conn[c] IN
    /\ r.index = 0 => Quiet(c) /\ ~r.attached /\ ~r.notified /\ c \notin awaited
    /\ r.checking => r.index = 0 /\ ~r.finished
    /\ r.index # 0 =>
         /\ HttpForm(r.aff, r.index)
         /\ \A b \in Affordances, k \in Nat :
              Listens(listeners, c, b, k) => b = r.aff /\ k = r.index
         /\ r.finished => r.notified
         /\ c \in awaited => ~r.attached
         /\ r.attached /\ r.closed /\ r.aff \in Events => Quiet(c)
         /\ ~destroyed /\ ~r.timedOut /\ ~Released(c)
              => Listens(listeners, c, r.aff, r.index)

(* A WebSocket listens under the forms that there were when it came, or    *)
(* under none once the Thing has been destroyed.                           *)
WsOK(c) ==
    LET r == conn[c] IN
    /\ \A b \in Affordances, k \in Nat : Listens(listeners, c, b, k) =>
         /\ b = r.aff /\ k \in 1 .. r.index
         /\ \A j \in 1 .. r.index : Listens(listeners, c, b, j)
    /\ 1 .. r.index \subseteq DOMAIN forms[r.aff]
    /\ r.aff \notin Events => r.index = 0
    /\ ~destroyed /\ ~r.closed => \A j \in 1 .. r.index : Listens(listeners, c, r.aff, j)
    /\ r.closed => Quiet(c)
    /\ ~r.checking

ConnOK(c) ==
    LET r == conn[c] IN
    /\ r.server = None => r = Unused /\ Quiet(c) /\ c \notin awaited
    /\ r.server # None =>
         /\ r.server \in exposing /\ r.aff \in Affordances
         /\ Type[r.server] \in {"http", "ws"}
         /\ Type[r.server] = "http" => HttpOK(c)
         /\ Type[r.server] = "ws" => WsOK(c)

(* The publication of a broker that exposes the Thing is under one form.   *)
BrokersOK ==
    \A s \in Servers, a \in Affordances :
      /\ \A b \in Affordances, k \in Nat :
           Listens(listeners, Publication(s, a), b, k) => s \in exposing /\ b = a
      /\ s \in exposing /\ Type[s] = "mqtt" /\ ~destroyed =>
           \E k \in DOMAIN forms[a] :
             /\ Listens(listeners, Publication(s, a), a, k)
             /\ \A j \in Nat : Listens(listeners, Publication(s, a), a, j) => j = k
             /\ forms[a][k].type = "mqtt" /\ ObserveOp(a) \in forms[a][k].op

IInv ==
    /\ TypeOK
    /\ \A c \in Conns : ConnOK(c)
    /\ BrokersOK

LEMMA InitInv == Init => IInv
<1> SUFFICES ASSUME Init PROVE IInv OBVIOUS
<1>1. \A l, b, k : b \in Affordances => ~Listens(listeners, l, b, k)
  BY DEF Init, Listens
<1>2. RegistryOK(listeners)
  <2>1. <<>> \in [{} -> Seq(Listeners)] OBVIOUS
  <2>2. <<>> \in Lists BY <2>1 DEF Lists
  <2>3. \A a \in Affordances : listeners[a] = <<>> BY DEF Init
  <2>4. listeners \in [Affordances -> Lists] BY <2>2 DEF Init
  <2> QED BY <2>3, <2>4 DEF RegistryOK
<1>3. FormsOK BY DEF Init, FormsOK
<1>4. Unused \in ConnType BY DEF Unused, ConnType
<1>5. TypeOK BY <1>2, <1>3, <1>4 DEF Init, TypeOK
<1>6. \A c \in Conns : ConnOK(c)
  BY <1>1 DEF Init, ConnOK, Quiet, Unused
<1>7. BrokersOK BY <1>1 DEF Init, BrokersOK
<1> QED BY <1>5, <1>6, <1>7 DEF IInv, Init

(* What does not concern a request or connection leaves it as it is.       *)
LEMMA ConnKept ==
    ASSUME NEW c \in Conns, ConnOK(c), conn'[c] = conn[c],
           TypeOK, Grown, exposing \subseteq exposing', destroyed => destroyed',
           c \in awaited' => c \in awaited,
           \A b \in Affordances, k \in Nat :
             Listens(listeners', c, b, k) <=> Listens(listeners, c, b, k)
    PROVE  ConnOK(c)'
<1>1. Quiet(c)' <=> Quiet(c) BY DEF Quiet
<1>2. CASE conn[c].server = None
  BY <1>1, <1>2 DEF ConnOK
<1>3. CASE conn[c].server # None
  <2>1. HttpOK(c) => HttpOK(c)'
    <3>1. \A k : HttpForm(conn[c].aff, k) => HttpForm(conn[c].aff, k)'
      BY <1>3 DEF HttpForm, Grown, ConnOK
    <3>2. Released(c)' <=> Released(c) BY DEF Released
    <3>3. conn[c].index \in Nat /\ conn[c].aff \in Affordances
      BY <1>3 DEF ConnOK, TypeOK, ConnType
    <3> QED BY <1>1, <3>1, <3>2, <3>3 DEF HttpOK
  <2>2. WsOK(c) => WsOK(c)'
    <3>1. conn[c].aff \in Affordances /\ 1 .. conn[c].index \subseteq Nat
      BY <1>3 DEF ConnOK, TypeOK, ConnType
    <3>2. DOMAIN forms[conn[c].aff] \subseteq DOMAIN forms'[conn[c].aff]
      BY <3>1 DEF Grown
    <3> QED BY <1>1, <3>1, <3>2 DEF WsOK
  <2> QED BY <1>3, <2>1, <2>2 DEF ConnOK
<1> QED BY <1>2, <1>3

LEMMA BrokersKept ==
    ASSUME BrokersOK, forms' = forms, exposing' = exposing, destroyed => destroyed',
           \A s \in Servers, a, b \in Affordances, k \in Nat :
             Listens(listeners', Publication(s, a), b, k)
               <=> Listens(listeners, Publication(s, a), b, k),
           TypeOK
    PROVE  BrokersOK'
<1>1. \A a \in Affordances : DOMAIN forms[a] \subseteq Nat BY DEF TypeOK, FormsOK
<1> QED BY <1>1 DEF BrokersOK

LEMMA SameForms ==
    ASSUME forms' = forms PROVE Grown
  BY DEF Grown

LEMMA Apartness ==
    /\ \A c \in Conns : c \in Listeners
    /\ \A s \in Servers, a \in Affordances :
         Publication(s, a) \in Listeners /\ Publication(s, a) \notin Conns
    /\ None \notin Servers /\ None \notin Affordances
  BY ExposureAssumption DEF Publication, Listeners

(* A long poll is released where it is registered.                         *)
LEMMA ReleaseEffect ==
    ASSUME IInv, NEW c \in Conns, IsOn(c, "http"), conn[c].index # 0,
           Release(c, conn[c].index)
    PROVE  /\ RegistryOK(listeners')
           /\ \A x \in Listeners, b \in Affordances, k \in Nat :
                Listens(listeners', x, b, k) <=> Listens(listeners, x, b, k) /\ x # c
           /\ uncaught' = IF Listens(listeners, c, conn[c].aff, conn[c].index)
                          THEN uncaught ELSE "listener"
<1> DEFINE a == conn[c].aff
           i == conn[c].index
<1>1. a \in Affordances /\ HttpOK(c) /\ RegistryOK(listeners)
  BY DEF IInv, ConnOK, IsOn, TypeOK
<1>2. /\ HttpForm(a, i)
      /\ \A b \in Affordances, k \in Nat : Listens(listeners, c, b, k) => b = a /\ k = i
  BY <1>1 DEF HttpOK
<1>3. FormFor(a, UnobserveOp(a), i) = i
  BY <1>1, <1>2, FormForKept
<1>4. /\ listeners' = Unregistered(c, a, {i})
      /\ uncaught' = IF IsListening(c, a, i) THEN uncaught ELSE "listener"
  BY <1>3 DEF Release
<1>5. c \in Listeners BY Apartness
<1>6. /\ RegistryOK(listeners')
      /\ \A x \in Listeners, b \in Affordances, k \in Nat :
           Listens(listeners', x, b, k)
             <=> Listens(listeners, x, b, k) /\ ~(x = c /\ b = a /\ k \in {i})
  BY <1>1, <1>4, <1>5, UnregisteredEffect
<1> QED BY <1>2, <1>4, <1>6, ListensIs

(* A route that registers a long poll.                                     *)
LEMMA ObserveEffect ==
    ASSUME IInv, NEW c \in Conns, NEW record \in ConnType,
           record.server \in exposing, Type[record.server] = "http",
           record.aff \in Affordances, ~record.finished,
           Quiet(c), c \notin awaited, Observe(c, record),
           forms' = forms, exposing' = exposing, destroyed' = destroyed,
           uncaught = "no", uncaught' = uncaught
    PROVE  IInv'
<1> DEFINE a == record.aff
<1>0. PICK i : i = MatchingForm(a, "http", ObservePath(a)) OBVIOUS
<1> DEFINE waits == a \in Handled /\ ~destroyed
           after == [record EXCEPT !.checking = FALSE, !.index = i,
                                   !.attached = ~waits /\ ~record.closed]
<1>1. HttpForm(a, i) BY <1>0, MatchingObserves DEF IInv, TypeOK
<1>2. FormFor(a, ObserveOp(a), i) = i BY <1>1, FormForKept
<1>3. /\ listeners' = Registered(c, a, {i})
      /\ awaited' = IF waits THEN awaited \cup {c} ELSE awaited
      /\ conn' = [conn EXCEPT ![c] = after]
  BY <1>0, <1>2 DEF Observe, ObservePath
<1>4. i \in Nat /\ i # 0
  BY <1>1 DEF HttpForm, IInv, TypeOK, FormsOK
<1>5. /\ RegistryOK(listeners')
      /\ \A x \in Listeners, b \in Affordances, k \in Nat :
           Listens(listeners', x, b, k)
             <=> Listens(listeners, x, b, k) \/ (x = c /\ b = a /\ k \in {i})
  <2>1. RegistryOK(listeners) BY DEF IInv, TypeOK
  <2>2. c \in Listeners BY Apartness
  <2>3. PICK I \in SUBSET Nat : I = {i} BY <1>4
  <2>4. listeners' = Registered(c, a, I) /\ \A k \in I : ~Listens(listeners, c, a, k)
    BY <1>3, <1>4, <2>3 DEF Quiet
  <2>5. /\ RegistryOK(listeners')
        /\ \A x \in Listeners, b \in Affordances, k \in Nat :
             Listens(listeners', x, b, k)
               <=> Listens(listeners, x, b, k) \/ (x = c /\ b = a /\ k \in I)
    BY <2>1, <2>2, <2>4, RegisteredEffect
  <2> QED BY <2>3, <2>5
<1> DEFINE att == ~waits /\ ~record.closed
<1>6. /\ after \in ConnType
      /\ after.server = record.server /\ after.aff = a /\ after.index = i
      /\ after.attached = att /\ after.finished = record.finished
      /\ after.closed = record.closed /\ after.checking = FALSE
  <2>1. att \in BOOLEAN OBVIOUS
  <2>2. after = [record EXCEPT !.checking = FALSE, !.index = i, !.attached = att]
    OBVIOUS
  <2> HIDE DEF att, after
  <2> QED BY <1>4, <2>1, <2>2 DEF ConnType
<1> HIDE DEF after
<1>7. conn' \in [Conns -> ConnType] /\ conn'[c] = after
      /\ \A d \in Conns \ {c} : conn'[d] = conn[d]
  BY <1>3, <1>6 DEF IInv, TypeOK
<1>8. TypeOK'
  <2>1. FormsOK' BY DEF IInv, TypeOK, FormsOK, HttpForm
  <2>2. awaited' \subseteq Listeners BY <1>3, Apartness DEF IInv, TypeOK
  <2> QED BY <1>5, <1>7, <2>1, <2>2 DEF IInv, TypeOK
<1>9. ConnOK(c)'
  <2>1. HttpForm(a, i)' BY <1>1 DEF HttpForm
  <2>2. c \in Listeners BY Apartness
  <2>3. \A b \in Affordances, k \in Nat : Listens(listeners', c, b, k) <=> b = a /\ k = i
    BY <1>5, <2>2 DEF Quiet
  <2>4. c \in awaited' => ~att BY <1>3
  <2>5. att => ~after.closed BY <1>6
  <2>6. HttpOK(c)'
    BY <1>4, <1>6, <1>7, <2>1, <2>3, <2>4, <2>5 DEF HttpOK, Released
  <2>7. after.server # None BY <1>6, Apartness DEF IInv, TypeOK
  <2> QED BY <1>6, <1>7, <2>6, <2>7 DEF ConnOK
<1>10. ASSUME NEW d \in Conns, d # c PROVE ConnOK(d)'
  <2>1. d \in Listeners BY Apartness
  <2> QED BY <1>3, <1>5, <1>7, <1>10, <2>1, ConnKept, SameForms DEF IInv
<1>11. BrokersOK'
  BY <1>5, BrokersKept, Apartness DEF IInv
<1> QED BY <1>8, <1>9, <1>10, <1>11 DEF IInv

-----------------------------------------------------------------------------
(* The steps keep the invariant                                            *)

(* A long poll of which only conn changes, or that is released.            *)
LEMMA PollStep ==
    ASSUME IInv, uncaught = "no", NEW c \in Conns, NEW after \in ConnType,
           conn' = [conn EXCEPT ![c] = after],
           RegistryOK(listeners'), awaited' \subseteq awaited,
           \A x \in Listeners, b \in Affordances, k \in Nat : x # c =>
             (Listens(listeners', x, b, k) <=> Listens(listeners, x, b, k)),
           forms' = forms, exposing' = exposing, destroyed' = destroyed,
           ConnOK(c)', uncaught' \in {"no", "listener", "handler"}
    PROVE  IInv'
<1>1. /\ conn' \in [Conns -> ConnType]
      /\ \A d \in Conns : d # c => conn'[d] = conn[d]
  BY DEF IInv, TypeOK
<1>2. TypeOK'
  <2>1. FormsOK' BY DEF IInv, TypeOK, FormsOK, HttpForm
  <2> QED BY <1>1, <2>1 DEF IInv, TypeOK
<1>3. ASSUME NEW d \in Conns, d # c PROVE ConnOK(d)'
  BY <1>1, <1>3, Apartness, ConnKept, SameForms DEF IInv
<1>4. BrokersOK' BY BrokersKept, Apartness DEF IInv
<1> QED BY <1>2, <1>3, <1>4 DEF IInv

(* A step that leaves requests, connections and listeners alone.           *)
LEMMA OthersStep ==
    ASSUME IInv, conn' = conn, listeners' = listeners, awaited' \subseteq awaited,
           forms' = forms, exposing' = exposing, destroyed' = destroyed,
           uncaught' \in {"no", "listener", "handler"}
    PROVE  IInv'
<1>1. FormsOK' BY DEF IInv, TypeOK, FormsOK, HttpForm
<1>2. TypeOK' BY <1>1 DEF IInv, TypeOK
<1>3. ASSUME NEW d \in Conns PROVE ConnOK(d)'
  BY ConnKept, SameForms DEF IInv
<1>4. BrokersOK' BY BrokersKept DEF IInv
<1> QED BY <1>2, <1>3, <1>4 DEF IInv

LEMMA StepPoll ==
    ASSUME IInv, uncaught = "no", NEW c \in Conns, NEW s \in Servers,
           NEW a \in Affordances, Poll(c, s, a)
    PROVE  IInv'
<1> DEFINE record == [Unused EXCEPT !.server = s, !.aff = a, !.checking = Secured]
<1>1. /\ record \in ConnType /\ record.server = s /\ record.aff = a
      /\ record.finished = FALSE /\ record.index = 0 /\ record.attached = FALSE
      /\ record.checking = Secured /\ record.closed = FALSE
      /\ record.notified = FALSE
  BY ExposureAssumption DEF Unused, ConnType
<1>2. conn[c].server = None BY DEF Poll, Unused
<1>3. ConnOK(c) BY DEF IInv
<1>4. Quiet(c) /\ c \notin awaited BY <1>2, <1>3 DEF ConnOK
<1>5. CASE Secured
  <2>1. conn' = [conn EXCEPT ![c] = record] /\ UNCHANGED <<listeners, awaited>>
    BY <1>5 DEF Poll
  <2>2. conn'[c] = record BY <2>1 DEF IInv, TypeOK
  <2> HIDE DEF record
  <2>3. Quiet(c)' BY <1>4, <2>1 DEF Quiet
  <2>4. HttpOK(c)' BY <1>1, <1>4, <2>1, <2>2, <2>3 DEF HttpOK
  <2>5. s \in exposing' /\ Type[s] = "http" /\ s # None
    BY Apartness DEF Poll
  <2>6. ConnOK(c)' BY <1>1, <2>2, <2>4, <2>5 DEF ConnOK
  <2>7. RegistryOK(listeners') BY <2>1 DEF IInv, TypeOK
  <2>8. uncaught' = "no" BY DEF Poll
  <2> QED BY <1>1, <2>1, <2>6, <2>7, <2>8, PollStep DEF Poll
<1>6. CASE ~Secured
  <2>1. Observe(c, record) BY <1>6 DEF Poll
  <2> HIDE DEF record
  <2> QED BY <1>1, <1>4, <2>1, ObserveEffect DEF Poll
<1> QED BY <1>5, <1>6

LEMMA Checking ==
    ASSUME IInv, NEW c \in Conns, conn[c].checking
    PROVE  /\ conn[c] \in ConnType /\ conn[c].server \in exposing
           /\ Type[conn[c].server] = "http" /\ conn[c].aff \in Affordances
           /\ conn[c].index = 0 /\ ~conn[c].finished /\ ~conn[c].attached
           /\ ~conn[c].notified
           /\ Quiet(c) /\ c \notin awaited
<1>1. ConnOK(c) /\ conn[c] \in ConnType BY DEF IInv, TypeOK
<1>2. conn[c].server # None BY <1>1 DEF ConnOK, Unused
<1>3. Type[conn[c].server] = "http" BY <1>1, <1>2 DEF ConnOK, WsOK
<1> QED BY <1>1, <1>2, <1>3 DEF ConnOK, HttpOK

LEMMA StepChecked ==
    ASSUME IInv, uncaught = "no", NEW c \in Conns, CredentialsChecked(c)
    PROVE  IInv'
<1>1. conn[c].checking BY DEF CredentialsChecked
<1>2. CASE Observe(c, conn[c])
  BY <1>1, <1>2, Checking, ObserveEffect DEF CredentialsChecked
<1>3. CASE /\ conn' = [conn EXCEPT ![c].checking = FALSE, ![c].finished = TRUE]
           /\ UNCHANGED <<listeners, awaited>>
  <2> DEFINE after == [conn[c] EXCEPT !.checking = FALSE, !.finished = TRUE]
  <2>1. /\ after \in ConnType /\ after.server = conn[c].server /\ after.aff = conn[c].aff
        /\ after.index = 0 /\ after.attached = conn[c].attached /\ after.checking = FALSE
        /\ after.notified = conn[c].notified
    BY <1>1, Checking DEF ConnType
  <2>2. conn' = [conn EXCEPT ![c] = after] /\ conn'[c] = after
    BY <1>3 DEF IInv, TypeOK
  <2> HIDE DEF after
  <2>3. Quiet(c)' /\ c \notin awaited' BY <1>1, <1>3, Checking DEF Quiet
  <2>4. HttpOK(c)' BY <1>1, <2>1, <2>2, <2>3, Checking DEF HttpOK
  <2>5. conn[c].server # None BY <1>1, Checking, Apartness DEF IInv, TypeOK
  <2>6. ConnOK(c)'
    BY <1>1, <2>1, <2>2, <2>4, <2>5, Checking DEF ConnOK, CredentialsChecked
  <2>7. RegistryOK(listeners') BY <1>3 DEF IInv, TypeOK
  <2>8. uncaught' = "no" BY DEF CredentialsChecked
  <2> QED BY <1>3, <2>1, <2>2, <2>6, <2>7, <2>8, PollStep DEF CredentialsChecked
<1> QED BY <1>2, <1>3 DEF CredentialsChecked

LEMMA LongPoll ==
    ASSUME IInv, NEW c \in Conns, IsOn(c, "http")
    PROVE  /\ conn[c] \in ConnType /\ HttpOK(c) /\ RegistryOK(listeners)
           /\ conn[c].server # None /\ conn[c].server \in exposing
           /\ Type[conn[c].server] = "http" /\ conn[c].aff \in Affordances
           /\ conn[c].attached => conn[c].index # 0
<1>1. ConnOK(c) BY DEF IInv
<1> QED BY <1>1 DEF IInv, TypeOK, ConnOK, IsOn, HttpOK

(* The end of a long poll, whichever callback it is that releases it.      *)
LEMMA StepEnds ==
    ASSUME IInv, uncaught = "no", NEW c \in Conns, IsOn(c, "http"),
           NEW after \in ConnType, NEW releases \in BOOLEAN,
           conn' = [conn EXCEPT ![c] = after],
           after.server = conn[c].server, after.aff = conn[c].aff,
           after.index = conn[c].index, after.attached = conn[c].attached,
           after.checking = conn[c].checking, after.notified = conn[c].notified,
           releases => conn[c].attached,
           releases => Release(c, conn[c].index),
           ~releases => UNCHANGED <<listeners, uncaught>>,
           conn[c].checking => ~after.finished,
           after.index # 0 /\ after.finished => after.notified,
           conn[c].timedOut => after.timedOut,
           releases => after.timedOut \/ ~Released(c),
           ~releases => after.timedOut = conn[c].timedOut,
           after.attached /\ after.closed /\ after.aff \in Events
             => releases \/ conn[c].closed,
           releases => after.timedOut \/ Released(c)',
           ~releases => (Released(c) => Released(c)'),
           forms' = forms, exposing' = exposing, awaited' = awaited,
           destroyed' = destroyed
    PROVE  IInv'
<1>1. conn'[c] = after /\ \A d \in Conns : d # c => conn'[d] = conn[d]
  BY DEF IInv, TypeOK
<1>2. /\ conn[c] \in ConnType /\ HttpOK(c) /\ RegistryOK(listeners)
      /\ conn[c].server # None /\ conn[c].server \in exposing
      /\ Type[conn[c].server] = "http" /\ conn[c].aff \in Affordances
      /\ conn[c].attached => conn[c].index # 0
  BY LongPoll
<1>3. /\ RegistryOK(listeners')
      /\ \A x \in Listeners, b \in Affordances, k \in Nat :
           Listens(listeners', x, b, k)
             <=> Listens(listeners, x, b, k) /\ ~(releases /\ x = c)
  BY <1>2, ReleaseEffect
<1>4. releases => uncaught' = IF Listens(listeners, c, conn[c].aff, conn[c].index)
                              THEN uncaught ELSE "listener"
  BY <1>2, ReleaseEffect
<1>5. c \in Listeners BY Apartness
<1>6. Quiet(c) => Quiet(c)' BY <1>3, <1>5 DEF Quiet
<1>7. releases => Quiet(c)' BY <1>3, <1>5 DEF Quiet
<1>8. HttpOK(c)'
  <2>1. HttpForm(after.aff, after.index) => HttpForm(after.aff, after.index)'
    BY DEF HttpForm
  <2>2. CASE conn[c].index = 0
    BY <1>1, <1>2, <1>6, <2>2 DEF HttpOK
  <2>3. CASE conn[c].index # 0
    <3>1. /\ HttpForm(after.aff, after.index)'
          /\ \A b \in Affordances, k \in Nat :
               Listens(listeners', c, b, k) => b = after.aff /\ k = after.index
          /\ c \in awaited' => ~after.attached
          /\ ~after.checking
      BY <1>2, <1>3, <1>5, <2>1, <2>3 DEF HttpOK
    <3>2. after.attached /\ after.closed /\ after.aff \in Events => Quiet(c)'
      BY <1>2, <1>6, <1>7, <2>3 DEF HttpOK
    <3>3. ~destroyed' /\ ~after.timedOut /\ ~Released(c)'
            => Listens(listeners', c, after.aff, after.index)
      BY <1>2, <1>3, <1>5, <2>3 DEF HttpOK, ConnType
    <3> QED BY <1>1, <2>3, <3>1, <3>2, <3>3 DEF HttpOK
  <2> QED BY <2>2, <2>3
<1>9. ConnOK(c)' BY <1>1, <1>2, <1>8 DEF ConnOK
<1>10. uncaught' \in {"no", "listener", "handler"}
  BY <1>4
<1> QED BY <1>3, <1>9, <1>10, PollStep

LEMMA StepFinish ==
    ASSUME IInv, uncaught = "no", NEW c \in Conns, Finish(c)
    PROVE  IInv'
<1> DEFINE after == [conn[c] EXCEPT !.finished = TRUE]
           releases == conn[c].attached /\ conn[c].aff \in Properties
<1>1. IsOn(c, "http") /\ conn[c] \in ConnType /\ HttpOK(c)
      /\ (conn[c].attached => conn[c].index # 0)
  BY LongPoll DEF Finish
<1>2. conn' = [conn EXCEPT ![c] = after] BY DEF Finish
<1>3. /\ after \in ConnType /\ after.finished = TRUE
      /\ after.server = conn[c].server /\ after.aff = conn[c].aff
      /\ after.index = conn[c].index /\ after.attached = conn[c].attached
      /\ after.checking = conn[c].checking /\ after.closed = conn[c].closed
      /\ after.notified = conn[c].notified /\ after.timedOut = conn[c].timedOut
  BY <1>1 DEF ConnType
<1>4. conn'[c] = after BY <1>2 DEF IInv, TypeOK
<1>5. releases \in BOOLEAN BY <1>1 DEF ConnType
<1>6. /\ releases => Release(c, conn[c].index)
      /\ ~releases => UNCHANGED <<listeners, uncaught>>
  BY DEF Finish
<1>7. conn[c].notified /\ ~conn[c].finished /\ ~conn[c].closed BY DEF Finish
<1>8. ~conn[c].checking BY <1>1, <1>7 DEF HttpOK
<1>9. /\ Released(c) <=> conn[c].attached /\ IF conn[c].aff \in Properties
                                             THEN conn[c].finished ELSE conn[c].closed
      /\ Released(c)' <=> after.attached /\ IF after.aff \in Properties
                                            THEN after.finished ELSE after.closed
  BY <1>4 DEF Released
<1>10. releases => conn[c].attached /\ conn[c].aff \in Properties OBVIOUS
<1>11. ~releases => ~conn[c].attached \/ conn[c].aff \notin Properties OBVIOUS
<1> HIDE DEF after, releases
<1>12. releases => ~Released(c) /\ Released(c)' BY <1>3, <1>7, <1>9, <1>10
<1>13. ~releases => (Released(c) => Released(c)') BY <1>3, <1>7, <1>9, <1>11
<1>14. after.attached /\ after.closed /\ after.aff \in Events
         => releases \/ conn[c].closed
  BY <1>3
<1> QED
  BY <1>1, <1>2, <1>3, <1>5, <1>6, <1>7, <1>8, <1>10, <1>12, <1>13, <1>14, StepEnds
     DEF Finish

LEMMA StepClose ==
    ASSUME IInv, uncaught = "no", NEW c \in Conns, Close(c)
    PROVE  IInv'
<1> DEFINE after == [conn[c] EXCEPT !.closed = TRUE]
           releases == conn[c].attached /\ conn[c].aff \in Events
<1>1. /\ IsOn(c, "http") /\ conn[c] \in ConnType /\ HttpOK(c)
      /\ conn[c].aff \in Affordances /\ (conn[c].attached => conn[c].index # 0)
  BY LongPoll DEF Close
<1>2. conn' = [conn EXCEPT ![c] = after] BY DEF Close
<1>3. /\ after \in ConnType /\ after.closed = TRUE
      /\ after.server = conn[c].server /\ after.aff = conn[c].aff
      /\ after.index = conn[c].index /\ after.attached = conn[c].attached
      /\ after.checking = conn[c].checking /\ after.finished = conn[c].finished
      /\ after.notified = conn[c].notified /\ after.timedOut = conn[c].timedOut
  BY <1>1 DEF ConnType
<1>4. conn'[c] = after BY <1>2 DEF IInv, TypeOK
<1>5. releases \in BOOLEAN BY <1>1 DEF ConnType
<1>6. /\ releases => Release(c, conn[c].index)
      /\ ~releases => UNCHANGED <<listeners, uncaught>>
  BY DEF Close
<1>7. ~conn[c].closed BY DEF Close
<1>8. /\ conn[c].checking => ~conn[c].finished
      /\ conn[c].finished => conn[c].notified \/ conn[c].index = 0
  BY <1>1 DEF HttpOK
<1>9. /\ Released(c) <=> conn[c].attached /\ IF conn[c].aff \in Properties
                                             THEN conn[c].finished ELSE conn[c].closed
      /\ Released(c)' <=> after.attached /\ IF after.aff \in Properties
                                            THEN after.finished ELSE after.closed
  BY <1>4 DEF Released
<1>10. releases => conn[c].attached /\ conn[c].aff \notin Properties BY DEF Events
<1>11. ~releases => ~conn[c].attached \/ conn[c].aff \in Properties
  BY <1>1 DEF Events
<1>12. after.attached /\ after.closed /\ after.aff \in Events
         => releases \/ conn[c].closed
  BY <1>3
<1> HIDE DEF after, releases
<1>13. releases => ~Released(c) /\ Released(c)' BY <1>3, <1>7, <1>9, <1>10
<1>14. ~releases => (Released(c) => Released(c)') BY <1>3, <1>7, <1>9, <1>11
<1>15. /\ conn[c].checking => ~after.finished
       /\ after.index # 0 /\ after.finished => after.notified
  BY <1>3, <1>8
<1>16. /\ forms' = forms /\ exposing' = exposing /\ awaited' = awaited
       /\ destroyed' = destroyed
  BY DEF Close
<1> QED
  BY <1>1, <1>2, <1>3, <1>5, <1>6, <1>10, <1>12, <1>13, <1>14, <1>15, <1>16, StepEnds

LEMMA StepTimeout ==
    ASSUME IInv, uncaught = "no", NEW c \in Conns, Timeout(c)
    PROVE  IInv'
<1> DEFINE after == [conn[c] EXCEPT !.timedOut = TRUE]
<1>1. /\ IsOn(c, "http") /\ conn[c] \in ConnType /\ HttpOK(c) /\ conn[c].attached
      /\ conn[c].index # 0
  BY LongPoll DEF Timeout
<1>2. conn' = [conn EXCEPT ![c] = after] BY DEF Timeout
<1>3. /\ after \in ConnType /\ after.timedOut = TRUE
      /\ after.server = conn[c].server /\ after.aff = conn[c].aff
      /\ after.index = conn[c].index /\ after.attached = conn[c].attached
      /\ after.checking = conn[c].checking /\ after.finished = conn[c].finished
      /\ after.notified = conn[c].notified /\ after.closed = conn[c].closed
  BY <1>1 DEF ConnType
<1>4. Release(c, conn[c].index) BY DEF Timeout
<1>5. /\ conn[c].checking => ~conn[c].finished
      /\ conn[c].finished => conn[c].notified
  BY <1>1 DEF HttpOK
<1> HIDE DEF after
<1> QED
  BY <1>1, <1>2, <1>3, <1>4, <1>5, StepEnds DEF Timeout

LEMMA StepHandlerDone ==
    ASSUME IInv, uncaught = "no", NEW l \in Listeners, HandlerDone(l)
    PROVE  IInv'
<1>1. /\ awaited' = awaited \ {l} /\ listeners' = listeners
      /\ RegistryOK(listeners') /\ uncaught' = "no"
      /\ forms' = forms /\ exposing' = exposing /\ destroyed' = destroyed
  BY DEF HandlerDone, IInv, TypeOK
<1>3. CASE l \in Conns /\ IsOn(l, "http")
  <2> DEFINE att == ~conn[l].closed /\ (conn[l].aff \in Events \/ ~conn[l].finished)
             after == [conn[l] EXCEPT !.attached = att]
  <2>1. /\ conn[l] \in ConnType /\ HttpOK(l) /\ conn[l].aff \in Affordances
        /\ conn[l].server # None /\ conn[l].server \in exposing
        /\ Type[conn[l].server] = "http"
    BY <1>3, LongPoll
  <2>2. conn' = [conn EXCEPT ![l] = after] /\ conn'[l] = after
    BY <1>3 DEF HandlerDone, IInv, TypeOK
  <2>3. att \in BOOLEAN /\ (att => ~conn[l].closed) OBVIOUS
  <2> HIDE DEF att
  <2>4. /\ after \in ConnType /\ after.attached = att
        /\ after.server = conn[l].server /\ after.aff = conn[l].aff
        /\ after.index = conn[l].index /\ after.timedOut = conn[l].timedOut
        /\ after.checking = conn[l].checking /\ after.finished = conn[l].finished
        /\ after.notified = conn[l].notified /\ after.closed = conn[l].closed
    BY <2>1, <2>3 DEF ConnType
  <2> HIDE DEF after
  <2>5. l \in awaited /\ l \notin awaited' BY <1>1 DEF HandlerDone
  <2>6. /\ conn[l].index # 0 /\ ~conn[l].attached BY <2>1, <2>5 DEF HttpOK
  <2>7. ~Released(l) BY <2>6 DEF Released
  <2>8. HttpForm(conn[l].aff, conn[l].index)'
    BY <1>1, <2>1, <2>2, <2>4, <2>6 DEF HttpOK, HttpForm
  <2>9. HttpOK(l)'
    BY <1>1, <1>3, <2>1, <2>2, <2>3, <2>4, <2>5, <2>6, <2>7, <2>8 DEF HttpOK
  <2>10. ConnOK(l)' BY <1>1, <2>1, <2>2, <2>4, <2>9 DEF ConnOK
  <2> QED BY <1>1, <1>3, <2>2, <2>4, <2>10, PollStep
<1>4. CASE ~ (l \in Conns /\ IsOn(l, "http"))
  <2>1. conn' = conn BY <1>4 DEF HandlerDone
  <2> QED BY <1>1, <2>1, OthersStep
<1> QED BY <1>3, <1>4

LEMMA StepRejects ==
    ASSUME IInv, uncaught = "no", NEW l \in Listeners, HandlerRejects(l)
    PROVE  IInv'
<1>1. /\ awaited' \subseteq awaited /\ listeners' = listeners /\ conn' = conn
      /\ uncaught' \in {"no", "handler"}
      /\ forms' = forms /\ exposing' = exposing /\ destroyed' = destroyed
  BY DEF HandlerRejects
<1>2. RegistryOK(listeners') BY <1>1 DEF IInv, TypeOK
<1> QED BY <1>1, <1>2, OthersStep

LEMMA StepForget ==
    ASSUME IInv, uncaught = "no", NEW c \in Conns, Forget(c)
    PROVE  IInv'
<1>1. Unused \in ConnType BY DEF Unused, ConnType
<1>2. /\ conn' = [conn EXCEPT ![c] = Unused] /\ listeners' = listeners
      /\ awaited' = awaited /\ uncaught' = "no" /\ c \notin awaited
      /\ forms' = forms /\ exposing' = exposing /\ destroyed' = destroyed
  BY DEF Forget
<1>3. conn'[c] = Unused BY <1>2 DEF IInv, TypeOK
<1>4. Quiet(c)' BY <1>2, ListensIs DEF Forget, Quiet, Listens
<1>5. ConnOK(c)' BY <1>2, <1>3, <1>4 DEF ConnOK, Unused
<1>6. RegistryOK(listeners') BY <1>2 DEF IInv, TypeOK
<1> QED BY <1>1, <1>2, <1>5, <1>6, PollStep

LEMMA StepConnect ==
    ASSUME IInv, uncaught = "no", NEW c \in Conns, NEW s \in Servers,
           NEW a \in Affordances, Connect(c, s, a)
    PROVE  IInv'
<1> DEFINE n == IF a \in Events THEN Len(forms[a]) ELSE 0
           after == [Unused EXCEPT !.server = s, !.aff = a, !.attached = TRUE,
                                   !.index = n]
<1>0. /\ n \in Nat /\ (a \in Events => 1 .. n = DOMAIN forms[a])
      /\ (a \notin Events => n = 0) /\ 1 .. n \subseteq DOMAIN forms[a]
  <2>1. forms[a] \in Seq(FormType) BY DEF IInv, TypeOK, FormsOK
  <2> QED BY <2>1
<1> HIDE DEF n
<1>1. /\ after \in ConnType /\ after.server = s /\ after.aff = a
      /\ after.closed = FALSE /\ after.checking = FALSE /\ after.index = n
  BY <1>0 DEF Unused, ConnType
<1>2. conn' = [conn EXCEPT ![c] = after] /\ conn'[c] = after
  BY DEF Connect, IInv, TypeOK, n
<1> HIDE DEF after
<1>3. /\ s \in exposing /\ Type[s] = "ws" /\ s # None
      /\ forms' = forms /\ exposing' = exposing /\ destroyed' = destroyed
      /\ uncaught' = "no"
  BY Apartness DEF Connect
<1>4. conn[c].server = None BY DEF Connect, Unused
<1>5. ConnOK(c) BY DEF IInv
<1>6. Quiet(c) /\ c \notin awaited BY <1>4, <1>5 DEF ConnOK
<1>7. DOMAIN forms[a] \in SUBSET Nat BY DEF IInv, TypeOK, FormsOK
<1>8. c \in Listeners BY Apartness
<1> DEFINE I == IF a \in Events THEN DOMAIN forms[a] ELSE {}
<1>9. /\ RegistryOK(listeners')
      /\ \A x \in Listeners, b \in Affordances, k \in Nat :
           Listens(listeners', x, b, k)
             <=> Listens(listeners, x, b, k) \/ (x = c /\ b = a /\ k \in I)
  <2>1. CASE a \in Events
    <3>1. PICK J \in SUBSET Nat : J = I BY <1>7
    <3>2. listeners' = Registered(c, a, J) /\ \A k \in J : ~Listens(listeners, c, a, k)
      BY <1>6, <2>1, <3>1 DEF Connect, Quiet
    <3>3. RegistryOK(listeners) BY DEF IInv, TypeOK
    <3>4. /\ RegistryOK(listeners')
          /\ \A x \in Listeners, b \in Affordances, k \in Nat :
               Listens(listeners', x, b, k)
                 <=> Listens(listeners, x, b, k) \/ (x = c /\ b = a /\ k \in J)
      BY <1>8, <3>2, <3>3, RegisteredEffect
    <3> QED BY <3>1, <3>4
  <2>2. CASE a \notin Events
    BY <2>2 DEF Connect, IInv, TypeOK
  <2> QED BY <2>1, <2>2
<1>10. awaited' \subseteq awaited \cup {c} BY DEF Connect
<1>11. /\ conn' \in [Conns -> ConnType]
       /\ \A d \in Conns : d # c => conn'[d] = conn[d]
  BY <1>1, <1>2 DEF IInv, TypeOK
<1>12. TypeOK'
  <2>1. FormsOK' BY <1>3 DEF IInv, TypeOK, FormsOK, HttpForm
  <2> QED BY <1>3, <1>8, <1>9, <1>10, <1>11, <2>1 DEF IInv, TypeOK
<1>13. ConnOK(c)'
  <2>1. \A b \in Affordances, k \in Nat :
          Listens(listeners', c, b, k) <=> b = a /\ k \in I
    BY <1>6, <1>8, <1>9 DEF Quiet
  <2>2. I = 1 .. n /\ (a \in Events <=> ~(a \notin Events)) BY <1>0
  <2>3. \A b \in Affordances, k \in Nat :
          Listens(listeners', c, b, k) <=> b = a /\ k \in 1 .. n
    BY <2>1, <2>2
  <2>4. 1 .. n \subseteq DOMAIN forms'[a] /\ 1 .. n \subseteq Nat BY <1>0, <1>3
  <2>5. WsOK(c)' BY <1>0, <1>1, <1>2, <1>3, <2>3, <2>4 DEF WsOK
  <2> QED BY <1>1, <1>2, <1>3, <2>5 DEF ConnOK
<1>14. ASSUME NEW d \in Conns, d # c PROVE ConnOK(d)'
  <2>1. d \in Listeners BY Apartness
  <2> QED BY <1>3, <1>9, <1>10, <1>11, <1>14, <2>1, ConnKept, SameForms DEF IInv
<1>15. BrokersOK' BY <1>3, <1>9, BrokersKept, Apartness DEF IInv
<1> QED BY <1>3, <1>12, <1>13, <1>14, <1>15 DEF IInv

LEMMA StepDisconnect ==
    ASSUME IInv, uncaught = "no", NEW c \in Conns, Disconnect(c)
    PROVE  IInv'
<1> DEFINE after == [conn[c] EXCEPT !.closed = TRUE]
<1> DEFINE a == conn[c].aff
           missing == {k \in DOMAIN forms[a] : ~IsListening(c, a, k)}
           I == {k \in DOMAIN forms[a] : \A j \in missing : k < j}
<1>1. /\ conn[c] \in ConnType /\ WsOK(c) /\ a \in Affordances
      /\ conn[c].server # None /\ conn[c].server \in exposing
      /\ Type[conn[c].server] = "ws"
  BY DEF Disconnect, IsOn, IInv, TypeOK, ConnOK
<1>2. /\ after \in ConnType /\ after.closed = TRUE /\ after.checking = conn[c].checking
      /\ after.server = conn[c].server /\ after.aff = a /\ after.index = conn[c].index
  BY <1>1 DEF ConnType
<1>3. conn' = [conn EXCEPT ![c] = after] /\ conn'[c] = after
  BY DEF Disconnect, IInv, TypeOK
<1>4. /\ forms' = forms /\ exposing' = exposing /\ destroyed' = destroyed
      /\ awaited' = awaited /\ uncaught' \in {"no", "listener"}
  BY DEF Disconnect
<1>5. c \in Listeners BY Apartness
<1>6. DOMAIN forms[a] \subseteq Nat BY <1>1 DEF IInv, TypeOK, FormsOK
<1>7. /\ RegistryOK(listeners')
      /\ \A x \in Listeners, b \in Affordances, k \in Nat :
           Listens(listeners', x, b, k)
             <=> Listens(listeners, x, b, k) /\ ~(x = c /\ b = a /\ k \in I)
  <2>1. PICK J : J = I OBVIOUS
  <2>2. listeners' = Unregistered(c, a, J) BY <2>1 DEF Disconnect
  <2>3. RegistryOK(listeners) BY DEF IInv, TypeOK
  <2>4. /\ RegistryOK(listeners')
        /\ \A x \in Listeners, b \in Affordances, k \in Nat :
             Listens(listeners', x, b, k)
               <=> Listens(listeners, x, b, k) /\ ~(x = c /\ b = a /\ k \in J)
    BY <1>1, <1>5, <2>2, <2>3, UnregisteredEffect
  <2> QED BY <2>1, <2>4
(* The forms under which it listens come before those it does not know.    *)
<1>8. ASSUME NEW b \in Affordances, NEW k \in Nat, Listens(listeners, c, b, k)
      PROVE  b = a /\ k \in I
  <2>1. /\ b = a /\ k \in DOMAIN forms[a] /\ k \in 1 .. conn[c].index
        /\ \A j \in 1 .. conn[c].index : Listens(listeners, c, a, j)
    BY <1>1, <1>8 DEF WsOK
  <2>2. ASSUME NEW j \in missing PROVE k < j
    <3>1. ~Listens(listeners, c, a, j) /\ j \in DOMAIN forms[a] BY ListensIs
    <3>2. forms[a] \in Seq(FormType) /\ conn[c].index \in Nat
      BY <1>1 DEF IInv, TypeOK, FormsOK, ConnType
    <3>3. j \in Nat /\ j >= 1 BY <3>1, <3>2
    <3>4. j \notin 1 .. conn[c].index BY <2>1, <3>1
    <3> QED BY <2>1, <3>2, <3>3, <3>4
  <2> QED BY <2>1, <2>2
<1>9. \A b \in Affordances, k \in Nat : ~Listens(listeners', c, b, k)
  BY <1>5, <1>7, <1>8
<1>10. ConnOK(c)'
  <2>1. Quiet(c)' BY <1>9 DEF Quiet
  <2>2. WsOK(c)' BY <1>1, <1>2, <1>3, <1>4, <1>9, <2>1 DEF WsOK
  <2> QED BY <1>1, <1>2, <1>3, <1>4, <2>2 DEF ConnOK
<1> HIDE DEF I, after
<1> QED BY <1>2, <1>3, <1>4, <1>7, <1>10, PollStep

LEMMA StepAddServer ==
    ASSUME IInv, uncaught = "no", NEW s \in Servers, AddServer(s)
    PROVE  IInv'
<1>1. /\ FormsOK' /\ Grown
      /\ \A a \in Affordances :
           /\ Len(forms[a]) + 1 \in DOMAIN forms'[a]
           /\ forms'[a][Len(forms[a]) + 1] = Repeated(Type[s], a)[1]
  BY FormsAdded DEF AddServer, IInv, TypeOK
<1>2. /\ exposing' = exposing \cup {s} /\ s \notin exposing
      /\ conn' = conn /\ destroyed' = destroyed /\ uncaught' = "no"
  BY DEF AddServer
<1> DEFINE place(a) == Len(forms[a]) + 1
<1>3. \A a \in Affordances : place(a) \in Nat BY DEF IInv, TypeOK, FormsOK
<1>4. /\ RegistryOK(listeners')
      /\ \A x \in Listeners, b \in Affordances, k \in Nat :
           Listens(listeners', x, b, k)
             <=> \/ Listens(listeners, x, b, k)
                 \/ Type[s] = "mqtt" /\ x = Publication(s, b) /\ k = place(b)
  <2>0. RegistryOK(listeners) BY DEF IInv, TypeOK
  <2>1. CASE Type[s] = "mqtt"
    <3> HIDE DEF place
    <3>1. ASSUME NEW b \in Affordances
          PROVE  /\ listeners'[b] \in Lists
                 /\ \A k \in DOMAIN listeners'[b] :
                      \A x \in Listeners : Single(x, listeners'[b][k])
                 /\ \A x \in Listeners, k \in Nat :
                      k \in DOMAIN listeners'[b] /\ x \in Range(listeners'[b][k])
                        <=> Listens(listeners, x, b, k)
                              \/ (x = Publication(s, b) /\ k = place(b))
      <4>1. PICK I \in SUBSET Nat : I = {place(b)} BY <1>3
      <4>2. PICK l \in Listeners : l = Publication(s, b) BY Apartness
      <4>3. \A k \in I : ~Listens(listeners, l, b, k)
        BY <1>2, <1>3, <4>1, <4>2 DEF IInv, BrokersOK
      <4>4. listeners'[b] = Registered(l, b, I)[b]
        BY <2>1, <4>1, <4>2 DEF AddServer, place
      <4>5. b \in DOMAIN listeners BY <2>0 DEF RegistryOK
      <4>6. listeners'[b] = Booked(l, b, I)
        BY <4>4, <4>5 DEF Registered, Booked
      <4>7. /\ Booked(l, b, I) \in Lists
            /\ \A k \in DOMAIN Booked(l, b, I) :
                 \A x \in Listeners : Single(x, Booked(l, b, I)[k])
            /\ \A x \in Listeners, k \in Nat :
                 k \in DOMAIN Booked(l, b, I) /\ x \in Range(Booked(l, b, I)[k])
                   <=> Listens(listeners, x, b, k) \/ (x = l /\ k \in I)
        BY <2>0, <4>3, RegisteredAt
      <4> QED BY <4>1, <4>2, <4>6, <4>7
    <3>2. \E f : listeners' = [a \in Affordances |-> f[a]]
      <4> DEFINE f == [a \in Affordances |->
                         Registered(Publication(s, a), a, {Len(forms[a]) + 1})[a]]
      <4>1. listeners' = f BY <2>1 DEF AddServer
      <4>2. f = [a \in Affordances |-> f[a]] OBVIOUS
      <4> HIDE DEF f
      <4> QED BY <4>1, <4>2
    <3>3. listeners' \in [Affordances -> Lists] BY <3>1, <3>2
    <3>4. RegistryOK(listeners') BY <3>1, <3>3 DEF RegistryOK
    <3> QED BY <2>1, <3>1, <3>4 DEF Listens
  <2>2. CASE Type[s] # "mqtt"
    BY <2>0, <2>2 DEF AddServer
  <2> QED BY <2>1, <2>2
<1>5. \A x \in awaited' : x \in awaited \/ \E a \in Affordances : x = Publication(s, a)
  <2>1. CASE Type[s] = "mqtt" BY <2>1, ExposureAssumption DEF AddServer
  <2>2. CASE Type[s] # "mqtt" BY <2>2 DEF AddServer
  <2> QED BY <2>1, <2>2
<1>6. TypeOK' BY <1>1, <1>2, <1>4, <1>5, Apartness DEF IInv, TypeOK
<1>7. ASSUME NEW c \in Conns PROVE ConnOK(c)'
  BY <1>1, <1>2, <1>4, <1>5, Apartness, ConnKept DEF IInv
<1>8. BrokersOK'
  <2> SUFFICES ASSUME NEW t \in Servers, NEW a \in Affordances
               PROVE  /\ \A b \in Affordances, k \in Nat :
                           Listens(listeners', Publication(t, a), b, k)
                             => t \in exposing' /\ b = a
                      /\ t \in exposing' /\ Type[t] = "mqtt" /\ ~destroyed' =>
                           \E k \in DOMAIN forms'[a] :
                             /\ Listens(listeners', Publication(t, a), a, k)
                             /\ \A j \in Nat :
                                  Listens(listeners', Publication(t, a), a, j) => j = k
                             /\ forms'[a][k].type = "mqtt"
                             /\ ObserveOp(a) \in forms'[a][k].op
    BY DEF BrokersOK, ObserveOp
  <2>0. Publication(t, a) \in Listeners BY Apartness
  <2>1. \A b \in Affordances : Publication(t, a) = Publication(s, b) => t = s /\ a = b
    BY DEF Publication
  <2>2. /\ \A b \in Affordances, k \in Nat :
             Listens(listeners, Publication(t, a), b, k) => t \in exposing /\ b = a
    BY DEF IInv, BrokersOK
  <2>3. CASE t # s
    <3>1. \A b \in Affordances, k \in Nat :
            Listens(listeners', Publication(t, a), b, k)
              <=> Listens(listeners, Publication(t, a), b, k)
      BY <1>4, <2>0, <2>1, <2>3
    <3>2. ASSUME t \in exposing, Type[t] = "mqtt", ~destroyed
          PROVE  \E k \in DOMAIN forms'[a] :
                   /\ Listens(listeners', Publication(t, a), a, k)
                   /\ \A j \in Nat : Listens(listeners', Publication(t, a), a, j) => j = k
                   /\ forms'[a][k].type = "mqtt" /\ ObserveOp(a) \in forms'[a][k].op
      <4>1. PICK k \in DOMAIN forms[a] :
              /\ Listens(listeners, Publication(t, a), a, k)
              /\ \A j \in Nat : Listens(listeners, Publication(t, a), a, j) => j = k
              /\ forms[a][k].type = "mqtt" /\ ObserveOp(a) \in forms[a][k].op
        BY <3>2 DEF IInv, BrokersOK
      <4>2. k \in Nat BY DEF IInv, TypeOK, FormsOK
      <4>3. k \in DOMAIN forms'[a] /\ forms'[a][k] = forms[a][k] BY <1>1 DEF Grown
      <4> QED BY <3>1, <4>1, <4>2, <4>3
    <3> QED BY <1>2, <2>2, <2>3, <3>1, <3>2
  <2>4. CASE t = s
    <3>1. \A b \in Affordances, k \in Nat : ~Listens(listeners, Publication(t, a), b, k)
      BY <1>2, <2>2, <2>4
    <3>2. \A b \in Affordances, k \in Nat :
            Listens(listeners', Publication(t, a), b, k)
              <=> Type[s] = "mqtt" /\ b = a /\ k = place(b)
      BY <1>4, <2>0, <2>1, <2>4, <3>1
    <3>3. ASSUME Type[s] = "mqtt"
          PROVE  /\ forms'[a][place(a)].type = "mqtt"
                 /\ ObserveOp(a) \in forms'[a][place(a)].op
      BY <1>1, <3>3, RepeatedForms
    <3> HIDE DEF place
    <3>4. place(a) \in DOMAIN forms'[a] BY <1>1 DEF place
    <3> QED BY <1>2, <1>3, <2>4, <3>2, <3>3, <3>4
  <2> QED BY <2>3, <2>4
<1> QED BY <1>2, <1>6, <1>7, <1>8 DEF IInv

(* Only those who listen are notified.                                     *)
LEMMA StepNotify ==
    ASSUME IInv, uncaught = "no", NEW a \in Affordances, Notify(a)
    PROVE  IInv'
<1> DEFINE told(c) == conn[c].notified \/ \E k \in DOMAIN listeners[a] : Receives(c, a, k)
           after(c) == [conn[c] EXCEPT !.notified = told(c)]
<1>1. /\ conn' = [c \in Conns |-> after(c)]
      /\ forms' = forms /\ exposing' = exposing /\ listeners' = listeners
      /\ awaited' = awaited /\ destroyed' = destroyed /\ uncaught' = "no"
  BY DEF Notify
<1>2. \A c \in Conns : told(c) \in BOOLEAN OBVIOUS
<1>3. ASSUME NEW c \in Conns, told(c)
      PROVE  conn[c].notified \/ ~Quiet(c)
  <2>1. CASE conn[c].notified BY <2>1
  <2>2. CASE \E k \in DOMAIN listeners[a] : Receives(c, a, k)
    <3>1. PICK k \in DOMAIN listeners[a] : IsListening(c, a, k)
      BY <2>2 DEF Receives
    <3>2. k \in Nat BY ListsFields DEF IInv, TypeOK
    <3> QED BY <3>1, <3>2, ListensIs DEF Quiet
  <2> QED BY <1>3, <2>1, <2>2
<1> DEFINE was(c) == conn[c].notified
<1>4. \A c \in Conns : was(c) => told(c) OBVIOUS
<1> HIDE DEF told
<1>5. ASSUME NEW c \in Conns
      PROVE  /\ conn'[c] = after(c) /\ after(c) \in ConnType
             /\ after(c).notified = told(c)
             /\ after(c).server = conn[c].server /\ after(c).aff = conn[c].aff
             /\ after(c).index = conn[c].index /\ after(c).timedOut = conn[c].timedOut
             /\ after(c).checking = conn[c].checking
             /\ after(c).attached = conn[c].attached
             /\ after(c).finished = conn[c].finished /\ after(c).closed = conn[c].closed
  <2>1. conn[c] \in ConnType BY DEF IInv, TypeOK
  <2> QED BY <1>1, <1>2, <2>1 DEF ConnType
<1>6. TypeOK'
  <2>1. FormsOK' BY <1>1 DEF IInv, TypeOK, FormsOK, HttpForm
  <2>2. conn' \in [Conns -> ConnType] BY <1>1, <1>5
  <2> QED BY <1>1, <2>1, <2>2 DEF IInv, TypeOK
<1> HIDE DEF after
<1>7. ASSUME NEW c \in Conns PROVE ConnOK(c)'
  <2>1. ConnOK(c) BY DEF IInv
  <2>2. Quiet(c)' <=> Quiet(c) BY <1>1 DEF Quiet
  <2>3. CASE conn[c].server = None
    <3>1. conn[c] = Unused /\ Quiet(c) BY <2>1, <2>3 DEF ConnOK
    <3>2. told(c) = FALSE BY <1>2, <1>3, <3>1 DEF Unused
    <3>3. conn[c] \in ConnType BY DEF IInv, TypeOK
    <3>4. after(c) = [Unused EXCEPT !.notified = FALSE] BY <3>1, <3>2 DEF after
    <3>5. [Unused EXCEPT !.notified = FALSE] = Unused
      <4>1. Unused \in ConnType /\ Unused.notified = FALSE BY DEF Unused, ConnType
      <4>2. \A r \in ConnType : r.notified = FALSE => [r EXCEPT !.notified = FALSE] = r
        BY DEF ConnType
      <4> QED BY <4>1, <4>2
    <3> QED BY <1>1, <1>5, <2>1, <2>2, <2>3, <3>1, <3>4, <3>5 DEF ConnOK
  <2>4. CASE conn[c].server # None
    <3>1. HttpOK(c) => HttpOK(c)'
      <4>1. HttpForm(conn[c].aff, conn[c].index) => HttpForm(conn[c].aff, conn[c].index)'
        BY <1>1, <1>5 DEF HttpForm
      <4>2. Released(c)' <=> Released(c) BY <1>5 DEF Released
      <4>3. told(c) => was(c) \/ ~Quiet(c) BY <1>3
      <4> QED BY <1>1, <1>4, <1>5, <2>2, <4>1, <4>2, <4>3 DEF HttpOK
    <3>2. WsOK(c) => WsOK(c)' BY <1>1, <1>5, <2>2 DEF WsOK
    <3> QED BY <1>1, <1>5, <2>1, <2>4, <3>1, <3>2 DEF ConnOK
  <2> QED BY <2>3, <2>4
<1>8. BrokersOK' BY <1>1, BrokersKept DEF IInv
<1> QED BY <1>1, <1>6, <1>7, <1>8 DEF IInv

LEMMA StepDestroy ==
    ASSUME IInv, uncaught = "no", Destroy
    PROVE  IInv'
<1>1. /\ destroyed' = TRUE /\ listeners' = [a \in Affordances |-> <<>>]
      /\ forms' = forms /\ exposing' = exposing /\ awaited' = awaited
      /\ conn' = conn /\ uncaught' = "no"
  BY DEF Destroy
<1>2. \A l, b, k : b \in Affordances => ~Listens(listeners', l, b, k)
  BY <1>1 DEF Listens
<1>3. RegistryOK(listeners')
  <2>1. <<>> \in [{} -> Seq(Listeners)] OBVIOUS
  <2>2. <<>> \in Lists BY <2>1 DEF Lists
  <2>3. \A a \in Affordances : listeners'[a] = <<>> BY <1>1
  <2>4. listeners' \in [Affordances -> Lists] BY <1>1, <2>2
  <2> QED BY <2>3, <2>4 DEF RegistryOK
<1>4. TypeOK'
  <2>1. FormsOK' BY <1>1 DEF IInv, TypeOK, FormsOK, HttpForm
  <2> QED BY <1>1, <1>3, <2>1 DEF IInv, TypeOK
<1>5. ASSUME NEW c \in Conns PROVE ConnOK(c)'
  <2>1. ConnOK(c) BY DEF IInv
  <2>2. Quiet(c)' BY <1>2 DEF Quiet
  <2>3. HttpOK(c) /\ conn[c].aff \in Affordances => HttpOK(c)'
    <3>1. HttpForm(conn[c].aff, conn[c].index) => HttpForm(conn[c].aff, conn[c].index)'
      BY <1>1 DEF HttpForm
    <3> QED BY <1>1, <1>2, <2>2, <3>1 DEF HttpOK
  <2>4. WsOK(c) => WsOK(c)' BY <1>1, <1>2, <2>2 DEF WsOK
  <2> QED BY <1>1, <2>1, <2>2, <2>3, <2>4 DEF ConnOK
<1>6. BrokersOK' BY <1>1, <1>2 DEF BrokersOK
<1> QED BY <1>1, <1>4, <1>5, <1>6 DEF IInv

LEMMA StepSame ==
    ASSUME IInv, UNCHANGED vars
    PROVE  IInv'
BY OthersStep DEF vars, IInv, TypeOK

LEMMA StepInv == IInv /\ [Next]_vars => IInv'
<1> SUFFICES ASSUME IInv, [Next]_vars PROVE IInv' OBVIOUS
<1>1. CASE UNCHANGED vars BY <1>1, StepSame
<1>2. CASE Next
  <2>0. uncaught = "no" BY <1>2 DEF Next
  <2>1. CASE \E s \in Servers : AddServer(s) BY <2>0, <2>1, StepAddServer
  <2>2. CASE \E c \in Conns, s \in Servers, a \in Affordances :
               Poll(c, s, a) \/ Connect(c, s, a)
    BY <2>0, <2>2, StepPoll, StepConnect
  <2>3. CASE \E c \in Conns :
               \/ CredentialsChecked(c)
               \/ Finish(c) \/ Close(c) \/ Timeout(c)
               \/ Disconnect(c)
               \/ Forget(c)
    BY <2>0, <2>3, StepChecked, StepFinish, StepClose, StepTimeout, StepDisconnect,
       StepForget
  <2>4. CASE \E l \in Listeners : HandlerDone(l) \/ HandlerRejects(l)
    BY <2>0, <2>4, StepHandlerDone, StepRejects
  <2>5. CASE \E a \in Affordances : Notify(a) BY <2>0, <2>5, StepNotify
  <2>6. CASE Destroy BY <2>0, <2>6, StepDestroy
  <2> QED BY <1>2, <2>1, <2>2, <2>3, <2>4, <2>5, <2>6 DEF Next
<1> QED BY <1>1, <1>2

-----------------------------------------------------------------------------
(* Theorems                                                                *)

LEMMA Invariance == Spec => []IInv
BY InitInv, StepInv, PTL DEF Spec

(* The forms that are appended, the registry of listeners and the records  *)
(* of requests are of their types, and the registry has a listener at most *)
(* once under each form.                                                   *)
THEOREM TypeCorrect == Spec => []TypeOK
<1>1. IInv => TypeOK BY DEF IInv
<1> QED BY <1>1, Invariance, PTL

(* One who listens under one form, once, has one place.                    *)
LEMMA OnePlace ==
    ASSUME RegistryOK(listeners), NEW l \in Listeners, NEW a \in Affordances,
           NEW k \in Nat, Listens(listeners, l, a, k),
           \A j \in Nat : Listens(listeners, l, a, j) => j = k,
           NEW able, forms[a][k] \in able
    PROVE  ListensOnce(l, a, able)
<1>1. /\ DOMAIN listeners[a] \subseteq Nat
      /\ \A j \in DOMAIN listeners[a] : Single(l, listeners[a][j])
  BY ListsFields
<1>2. k \in DOMAIN listeners[a] /\ l \in Range(listeners[a][k]) BY DEF Listens
<1>3. PICK n \in DOMAIN listeners[a][k] : listeners[a][k][n] = l BY <1>2 DEF Range
<1>4. ASSUME NEW j \in DOMAIN listeners[a], NEW m \in DOMAIN listeners[a][j],
             listeners[a][j][m] = l
      PROVE  j = k /\ m = n
  <2>1. Listens(listeners, l, a, j) BY <1>4 DEF Listens, Range
  <2>2. j = k BY <1>1, <2>1
  <2> QED BY <1>1, <1>3, <1>4, <2>2 DEF Single
<1>5. \A p : p \in Places(l, a) <=>
        \E j \in DOMAIN listeners[a] :
          \E m \in DOMAIN listeners[a][j] : listeners[a][j][m] = l /\ p = <<j, m>>
  BY DEF Places
<1>6. Places(l, a) = {<<k, n>>} BY <1>2, <1>3, <1>4, <1>5
<1> QED BY <1>6 DEF ListensOnce

(* While the Thing exists, each open long poll is in the registry exactly  *)
(* once, under a form of its protocol that offers what it asked for, and   *)
(* so is what a broker publishes, whoever else comes and goes.             *)
THEOREM ListenOnce == Spec => []EachListensOnce
<1>1. IInv => EachListensOnce
  <2> SUFFICES ASSUME IInv, ~destroyed PROVE EachListensOnce
    BY DEF EachListensOnce
  <2>0. RegistryOK(listeners) BY DEF IInv, TypeOK
  <2>1. ASSUME NEW c \in Conns, Waiting(c)
        PROVE  ListensOnce(c, conn[c].aff,
                 {f \in Range(forms[conn[c].aff]) :
                    f.type = "http" /\ ObserveOp(conn[c].aff) \in f.op})
    <3> DEFINE a == conn[c].aff
               k == conn[c].index
               able == {f \in Range(forms[a]) : f.type = "http" /\ ObserveOp(a) \in f.op}
    <3>1. /\ HttpOK(c) /\ k # 0 /\ a \in Affordances /\ conn[c] \in ConnType
      BY <2>1, LongPoll DEF Waiting
    <3>2. ~Released(c) BY <2>1 DEF Waiting, Released
    <3>3. /\ HttpForm(a, k) /\ Listens(listeners, c, a, k)
          /\ \A j \in Nat : Listens(listeners, c, a, j) => j = k
      BY <2>1, <3>1, <3>2 DEF HttpOK, Waiting
    <3>4. k \in Nat BY <3>1 DEF ConnType
    <3>5. forms[a][k] \in able BY <3>3 DEF HttpForm, Range
    <3>6. c \in Listeners BY Apartness
    <3> HIDE DEF a, k, able
    <3>7. ListensOnce(c, a, able)
      BY <2>0, <3>1, <3>3, <3>4, <3>5, <3>6, OnePlace
    <3> QED BY <3>7 DEF a, able
  <2>2. ASSUME NEW s \in exposing, NEW a \in Affordances, Type[s] = "mqtt"
        PROVE  ListensOnce(Publication(s, a), a,
                 {f \in Range(forms[a]) : f.type = "mqtt" /\ ObserveOp(a) \in f.op})
    <3> DEFINE able == {f \in Range(forms[a]) : f.type = "mqtt" /\ ObserveOp(a) \in f.op}
    <3>1. s \in Servers BY DEF IInv, TypeOK
    <3>2. PICK k \in DOMAIN forms[a] :
            /\ Listens(listeners, Publication(s, a), a, k)
            /\ \A j \in Nat : Listens(listeners, Publication(s, a), a, j) => j = k
            /\ forms[a][k].type = "mqtt" /\ ObserveOp(a) \in forms[a][k].op
      BY <2>2, <3>1 DEF IInv, BrokersOK
    <3>3. k \in Nat BY DEF IInv, TypeOK, FormsOK
    <3>4. forms[a][k] \in able BY <3>2 DEF Range
    <3>5. Publication(s, a) \in Listeners BY <3>1, Apartness
    <3> HIDE DEF able
    <3>6. ListensOnce(Publication(s, a), a, able)
      BY <2>0, <3>2, <3>3, <3>4, <3>5, OnePlace
    <3> QED BY <3>6 DEF able
  <2> QED BY <2>1, <2>2 DEF EachListensOnce
<1> QED BY <1>1, Invariance, PTL

(* A connection to an event that is closed after its callbacks have been   *)
(* attached listens no more, under whatever forms it listened.             *)
THEOREM ReleasedAtClose == Spec => []ReleasedOnClose
<1>1. IInv => ReleasedOnClose
  <2> SUFFICES ASSUME IInv, NEW c \in Conns, conn[c].closed, conn[c].attached,
                      conn[c].aff \in Events,
                      NEW k \in DOMAIN listeners[conn[c].aff]
               PROVE  ~IsListening(c, conn[c].aff, k)
    BY DEF ReleasedOnClose
  <2>1. ConnOK(c) /\ conn[c].server # None BY DEF IInv, ConnOK, Unused
  <2>2. conn[c].aff \in Affordances BY DEF Events
  <2>3. k \in Nat BY <2>2, ListsFields DEF IInv, TypeOK
  <2>4. Quiet(c) BY <2>1 DEF ConnOK, HttpOK, WsOK
  <2> QED BY <2>2, <2>3, <2>4, ListensIs DEF Quiet
<1> QED BY <1>1, Invariance, PTL

(* A long poll that is released before its own hour finds its listener.    *)
LEMMA PollFinds ==
    ASSUME IInv, NEW c \in Conns, IsOn(c, "http"), conn[c].attached,
           ~conn[c].timedOut, ~Released(c), ~destroyed, Release(c, conn[c].index)
    PROVE  uncaught' = uncaught
<1>1. HttpOK(c) /\ conn[c].index # 0 BY LongPoll
<1>2. Listens(listeners, c, conn[c].aff, conn[c].index) BY <1>1 DEF HttpOK
<1> QED BY <1>1, <1>2, ReleaseEffect

(* A WebSocket to an event finds its listener under each form that there   *)
(* was when it came.                                                       *)
LEMMA SocketFinds ==
    ASSUME IInv, NEW c \in Conns, ~destroyed, Disconnect(c), uncaught = "no",
           uncaught' = "listener"
    PROVE  Unlisted(c)
<1> DEFINE a == conn[c].aff
           missing == {k \in DOMAIN forms[a] : ~IsListening(c, a, k)}
<1>1. /\ conn[c] \in ConnType /\ WsOK(c) /\ a \in Affordances /\ ~conn[c].closed
      /\ IsOn(c, "ws")
  BY DEF Disconnect, IsOn, IInv, TypeOK, ConnOK
<1>2. PICK k \in DOMAIN forms[a] : ~IsListening(c, a, k)
  <2>1. missing # {} BY DEF Disconnect
  <2> QED BY <2>1
<1>3. forms[a] \in Seq(FormType) /\ conn[c].index \in Nat
  BY <1>1 DEF IInv, TypeOK, FormsOK, ConnType
<1>4. k \in Nat /\ 1 <= k /\ k <= Len(forms[a]) BY <1>2, <1>3
<1>5. ~Listens(listeners, c, a, k) BY <1>2, ListensIs
<1>6. k \notin 1 .. conn[c].index BY <1>1, <1>5 DEF WsOK
<1>7. conn[c].index < Len(forms[a]) /\ Len(forms[a]) \in Nat BY <1>3, <1>4, <1>6
<1> QED BY <1>1, <1>7 DEF Unlisted

(* No callback looks for its listener in vain but that of a request whose  *)
(* own hour has passed, or of a WebSocket to a property or one that came   *)
(* before a server joined, unless the Thing has been destroyed.            *)
THEOREM FoundOrRemoved == Spec => FoundUnlessRemoved
<1> DEFINE Own == uncaught' = "listener" =>
                    destroyed \/ \E c \in Conns : conn'[c] # conn[c] /\ Unlisted(c)
<1>1. ASSUME IInv, Next PROVE Own
  <2> SUFFICES ASSUME uncaught' = "listener", ~destroyed
               PROVE  \E c \in Conns : conn'[c] # conn[c] /\ Unlisted(c)
    OBVIOUS
  <2>0. uncaught = "no" /\ conn \in [Conns -> ConnType] BY <1>1 DEF Next, IInv, TypeOK
  <2>1. \E c \in Conns : Finish(c) \/ Close(c) \/ Timeout(c) \/ Disconnect(c)
    BY <1>1, <2>0 DEF Next, AddServer, Poll, Connect, CredentialsChecked, Forget,
       HandlerDone, HandlerRejects, Notify, Destroy
  <2>2. PICK c \in Conns : Finish(c) \/ Close(c) \/ Timeout(c) \/ Disconnect(c)
    BY <2>1
  <2>3. conn[c] \in ConnType BY <2>0
  <2>4. conn'[c] # conn[c]
    <3>1. CASE Finish(c)
      BY <2>0, <3>1 DEF Finish, ConnType
    <3>2. CASE Close(c) \/ Disconnect(c)
      BY <2>0, <3>2 DEF Close, Disconnect, ConnType
    <3>3. CASE Timeout(c)
      BY <2>0, <3>3 DEF Timeout, ConnType
    <3> QED BY <2>2, <3>1, <3>2, <3>3
  <2>5. CASE Finish(c)
    <3>1. /\ conn[c].attached /\ conn[c].aff \in Properties /\ IsOn(c, "http")
          /\ Release(c, conn[c].index) /\ ~conn[c].finished
      BY <2>0, <2>5 DEF Finish
    <3>2. ~Released(c) BY <3>1 DEF Released
    <3> QED BY <1>1, <2>0, <2>4, <3>1, <3>2, PollFinds DEF Unlisted
  <2>6. CASE Close(c)
    <3>1. /\ conn[c].attached /\ conn[c].aff \in Events /\ IsOn(c, "http")
          /\ Release(c, conn[c].index) /\ ~conn[c].closed
      BY <2>0, <2>6 DEF Close
    <3>2. ~Released(c) BY <3>1 DEF Released, Events
    <3> QED BY <1>1, <2>0, <2>4, <3>1, <3>2, PollFinds DEF Unlisted
  <2>7. CASE Timeout(c)
    <3>1. /\ conn[c].attached /\ IsOn(c, "http") /\ Release(c, conn[c].index)
          /\ ~conn[c].closed /\ ~conn[c].notified
      BY <2>7 DEF Timeout
    <3>2. HttpOK(c) /\ conn[c].index # 0 BY <1>1, <3>1, LongPoll
    <3>3. ~Released(c) BY <3>1, <3>2 DEF Released, HttpOK
    <3> QED BY <1>1, <2>0, <2>4, <3>1, <3>3, PollFinds DEF Unlisted
  <2>8. CASE Disconnect(c)
    BY <1>1, <2>0, <2>4, <2>8, SocketFinds
  <2> QED BY <2>2, <2>5, <2>6, <2>7, <2>8
<1>2. IInv /\ [Next]_vars => [Own]_vars BY <1>1
<1> HIDE DEF Own
<1>3. Init /\ [][Next]_vars => [][Own]_vars BY InitInv, StepInv, <1>2, PTL
<1> QED BY <1>3 DEF Spec, FoundUnlessRemoved, Own

=============================================================================
