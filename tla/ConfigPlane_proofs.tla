--------------------------- MODULE ConfigPlane_proofs ---------------------------
(***************************************************************************)
(* What the handlers of the configuration plane keep true when they run at *)
(* the same time, for any number of processes, requests and deaths.        *)
(***************************************************************************)
EXTENDS ConfigPlane, FiniteSetTheorems, FunctionTheorems, SequenceTheorems, WellFoundedInduction, TLAPS

-------------------------------------------------------------------------------
(* Smallest and largest elements *)

\* A set of naturals that is not empty has a smallest element.
LEMMA Smallest ==
    ASSUME NEW T \in SUBSET Nat, T # {}
    PROVE  \E x \in T : \A y \in T : x <= y
<1>1. PICK x \in T : \A y \in T : ~(<<y, x>> \in OpToRel(<, Nat))
  BY NatLessThanWellFounded, WFMin
<1>2. \A y \in T : ~(y < x)
  BY <1>1 DEF OpToRel
<1> QED
  BY <1>2

\* A bounded set of naturals that is not empty has a largest element.
LEMMA Largest ==
    ASSUME NEW b \in Nat, NEW T \in SUBSET (0..b), T # {}
    PROVE  \E x \in T : \A y \in T : y <= x
<1> DEFINE D == {b - x : x \in T}
<1>1. D \in SUBSET Nat /\ D # {}
  <2>1. \A x \in T : b - x \in Nat
    OBVIOUS
  <2>2. PICK x \in T : TRUE
    OBVIOUS
  <2>3. b - x \in D
    BY <2>2
  <2> QED
    BY <2>1, <2>3
<1>2. PICK m \in D : \A y \in D : m <= y
  <2> HIDE DEF D
  <2> QED
    BY <1>1, Smallest
<1>3. PICK x \in T : m = b - x
  OBVIOUS
<1>4. \A y \in T : b - x <= b - y
  BY <1>2, <1>3
<1> QED
  BY <1>3, <1>4

-------------------------------------------------------------------------------
(* The inductive invariant: rows and unique indexes *)

\* The columns of a row, and what the schema requires of them.
IsRow(r) ==
    /\ r = [id |-> r.id, tab |-> r.tab, key |-> r.key, val |-> r.val, num |-> r.num,
            from |-> r.from, upto |-> r.upto]
    /\ r.id \in Nat \ {0}
    /\ r.tab = "parameter_sets" => r.num \in Nat \ {0}
    /\ r.tab = "deployment_licenses" => r.key # None /\ r.from \in Int /\ r.upto \in Int \cup {None}
    /\ r.tab \in {"users", "user_identifiers"} => r.key # None
    /\ r.tab = "links" => r.num \in Nat

RowsOK ==
    /\ DOMAIN own = Procs
    /\ \A r \in tables : IsRow(r)
    /\ \A q \in Procs : \A r \in own[q] : IsRow(r)

\* There is always an id that nobody has.
IdsBounded ==
    \E b \in Nat : /\ \A r \in tables : r.id <= b
                   /\ \A q \in Procs : \A r \in own[q] : r.id <= b

\* An id names one row, and a row is written by one transaction at a time.
IdsOK ==
    /\ \A r, s \in tables : r.id = s.id => r = s
    /\ \A q \in Procs : \A r, s \in own[q] : r.id = s.id => r = s
    /\ \A p, q \in Procs : p # q => \A r \in own[p], s \in own[q] : r.id # s.id

Clash(r, s) == Entries(r) \cap Entries(s) # {}

\* The rows that q has written, and what they were before.
Locked(q) == own[q] \cup {t \in tables : t.id \in Ids(own[q])}

\* The unique indexes hold of the committed rows and of what each transaction
\* sees, and no transaction has an entry that another one has or gives up.
EntriesOK ==
    /\ \A r, s \in tables : Clash(r, s) => r = s
    /\ \A q \in Procs : \A r, s \in View(q) : Clash(r, s) => r = s
    /\ \A p, q \in Procs : p # q => \A r \in own[p], s \in Locked(q) : ~Clash(r, s)

\* What an UPDATE leaves alone.
Follows(t, r) ==
    /\ r.tab = t.tab /\ r.key = t.key /\ r.from = t.from
    /\ r.tab # "change_log" => r.num = t.num
    /\ t.upto # None => r.upto = t.upto

UpdatesOK == \A q \in Procs : \A r \in own[q], t \in tables : r.id = t.id => Follows(t, r)

\* A link is written with the row that it belongs to, and an identifier with or
\* after its user.
RefsOK ==
    /\ \A l \in tables :
        /\ l.tab = "links" => l.num \in Ids(tables)
        /\ l.tab = "user_identifiers" => \E u \in tables : u.tab = "users" /\ u.id = l.num
    /\ \A q \in Procs : \A l \in own[q] :
        /\ l.tab = "links" => l.num \in Ids(own[q]) \ Ids(tables)
        /\ l.tab = "user_identifiers" => \E u \in own[q] : u.tab = "users" /\ u.id = l.num

Db == RowsOK /\ IdsBounded /\ IdsOK /\ EntriesOK /\ UpdatesOK /\ RefsOK

-------------------------------------------------------------------------------
(* What a transaction sees *)

\* The committed rows that p has not written, and the ones it has.
LEMMA InView ==
    ASSUME NEW p \in Procs, NEW r
    PROVE  r \in View(p) <=> r \in own[p] \/ (r \in tables /\ r.id \notin Ids(own[p]))
BY DEF View

\* Without a transaction, these are the committed rows.
LEMMA ViewOfNothing ==
    ASSUME NEW p \in Procs, own[p] = {}
    PROVE  View(p) = tables
BY DEF View, Ids

\* An id names one row of what a transaction sees.
LEMMA ViewIds ==
    ASSUME IdsOK, NEW p \in Procs, NEW r \in View(p), NEW s \in View(p), r.id = s.id
    PROVE  r = s
BY DEF IdsOK, View, Ids

\* The id of a new row is nobody's.
LEMMA NewIdIsNew ==
    ASSUME RowsOK, IdsBounded
    PROVE  /\ NewId \in Nat \ {0}
           /\ \A r \in tables : r.id < NewId
           /\ \A q \in Procs : \A r \in own[q] : r.id < NewId
<1> DEFINE T == {0} \cup Ids(tables) \cup UNION {Ids(own[q]) : q \in Procs}
<1>1. PICK b \in Nat : /\ \A r \in tables : r.id <= b
                       /\ \A q \in Procs : \A r \in own[q] : r.id <= b
  BY DEF IdsBounded
<1>2. \A x \in T : x \in 0..b
  BY <1>1 DEF RowsOK, IsRow, Ids
<1>3. PICK x \in T : \A y \in T : x >= y
  <2>1. T \in SUBSET (0..b) /\ 0 \in T
    BY <1>2
  <2> HIDE DEF T
  <2>2. \E x \in T : \A y \in T : y <= x
    BY <2>1, Largest
  <2> QED
    BY <2>1, <2>2
<1>4. Max(T) \in T /\ \A y \in T : Max(T) >= y
  <2> HIDE DEF T
  <2> QED
    BY <1>3 DEF Max
<1>5. NewId = 1 + Max(T)
  BY DEF NewId
<1>6. \A r \in tables : r.id \in T
  BY DEF Ids
<1>7. \A q \in Procs : \A r \in own[q] : r.id \in T
  BY DEF Ids
<1> HIDE DEF T
<1> QED
  BY <1>2, <1>4, <1>5, <1>6, <1>7

-------------------------------------------------------------------------------
(* The unique indexes: one lemma for each way to change the tables *)

\* A transaction that ends without COMMIT.
LEMMA DbAbort ==
    ASSUME Db, NEW p \in Procs, UNCHANGED tables, own' = [own EXCEPT ![p] = {}]
    PROVE  Db'
<1>1. /\ DOMAIN own' = Procs /\ own'[p] = {}
      /\ \A q \in Procs \ {p} : own'[q] = own[q]
  BY DEF Db, RowsOK
<1>2. RowsOK'
  BY <1>1 DEF Db, RowsOK
<1>3. IdsBounded'
  <2>1. PICK b \in Nat : /\ \A r \in tables : r.id <= b
                         /\ \A q \in Procs : \A r \in own[q] : r.id <= b
    BY DEF Db, IdsBounded
  <2>2. \A q \in Procs : \A r \in own'[q] : r.id <= b
    BY <1>1, <2>1
  <2> QED
    BY <2>1, <2>2 DEF IdsBounded
<1>4. IdsOK'
  BY <1>1 DEF Db, IdsOK
<1>5. EntriesOK'
  <2>1. /\ View(p)' = tables
        /\ \A q \in Procs \ {p} : View(q)' = View(q)
    BY <1>1 DEF View, Ids
  <2>2. \A q \in Procs : Locked(q)' \subseteq Locked(q)
    BY <1>1 DEF Locked, Ids
  <2>3. \A r, s : Clash(r, s)' = Clash(r, s)
    BY DEF Clash
  <2> QED
    BY <1>1, <2>1, <2>2, <2>3 DEF Db, EntriesOK
<1>6. UpdatesOK' /\ RefsOK'
  BY <1>1 DEF Db, UpdatesOK, Follows, RefsOK, Ids
<1> QED
  BY <1>2, <1>3, <1>4, <1>5, <1>6 DEF Db

\* A statement that writes a row of an id that nobody has, when nobody else has
\* an entry of it and p sees none.
LEMMA DbInsert ==
    ASSUME Db, NEW p \in Procs, NEW r, IsRow(r), r.id = NewId,
           \A q \in Procs \ {p} : \A s \in Locked(q) : ~Clash(r, s),
           ~Taken(p, r),
           r.tab = "links" => r.num \in Ids(own[p]) \ Ids(tables),
           r.tab = "user_identifiers" => \E u \in own[p] : u.tab = "users" /\ u.id = r.num,
           UNCHANGED tables, own' = [own EXCEPT ![p] = {s \in @ : s.id # r.id} \cup {r}]
    PROVE  Db' /\ View(p)' = View(p) \cup {r} /\ own'[p] = own[p] \cup {r}
<1>0. /\ r.id \in Nat \ {0}
      /\ \A s \in tables : s.id < r.id
      /\ \A q \in Procs : \A s \in own[q] : s.id < r.id
  BY NewIdIsNew DEF Db
<1>a. /\ \A s \in tables : s.id # r.id
      /\ \A q \in Procs : \A s \in own[q] : s.id # r.id
  BY <1>0 DEF Db, RowsOK, IsRow
<1>1. /\ DOMAIN own' = Procs /\ own'[p] = own[p] \cup {r}
      /\ \A q \in Procs \ {p} : own'[q] = own[q]
  BY <1>a DEF Db, RowsOK
<1>2. RowsOK'
  BY <1>1 DEF Db, RowsOK
<1>3. IdsBounded'
  <2>1. \A s \in tables' : s.id <= r.id
    BY <1>0 DEF Db, RowsOK, IsRow
  <2>2. \A q \in Procs : \A s \in own'[q] : s.id <= r.id
    BY <1>0, <1>1 DEF Db, RowsOK, IsRow
  <2> QED
    BY <1>0, <2>1, <2>2 DEF IdsBounded
<1>4. IdsOK'
  BY <1>1, <1>a DEF Db, IdsOK
<1>v. /\ View(p)' = View(p) \cup {r}
      /\ \A q \in Procs \ {p} : View(q)' = View(q)
  BY <1>1, <1>a DEF View, Ids
<1>5. EntriesOK'
  <2>1. /\ Locked(p)' = Locked(p) \cup {r}
        /\ \A q \in Procs \ {p} : Locked(q)' = Locked(q)
    BY <1>1, <1>a DEF Locked, Ids
  <2>2. \A s, t : Clash(s, t) = Clash(t, s)
    BY DEF Clash
  <2>3. \A s \in View(p) : ~Clash(r, s)
    BY DEF Taken, Clash
  <2>4. \A s \in Locked(p) : s \in own[p] \/ s \in tables
    BY DEF Locked
  <2>5. \A q \in Procs : own[q] \subseteq Locked(q)
    BY DEF Locked
  <2>6. \A q, v \in Procs : q # v => \A s \in own'[q], t \in Locked(v)' : ~Clash(s, t)
    <3> SUFFICES ASSUME NEW q \in Procs, NEW v \in Procs, q # v,
                        NEW s \in own'[q], NEW t \in Locked(v)'
                 PROVE  ~Clash(s, t)
      OBVIOUS
    <3>1. CASE s \in own[q] /\ t \in Locked(v)
      BY <3>1 DEF Db, EntriesOK
    <3>2. CASE s = r /\ q = p
      BY <3>2, <2>1
    <3>3. CASE t = r /\ v = p /\ s \in own[q]
      BY <3>3, <2>2, <2>5
    <3> QED
      BY <1>1, <2>1, <3>1, <3>2, <3>3
  <2>7. \A q \in Procs : \A s, t \in View(q)' : Clash(s, t) => s = t
    BY <1>v, <2>2, <2>3 DEF Db, EntriesOK
  <2>8. \A s, t : Clash(s, t)' = Clash(s, t)
    BY DEF Clash
  <2>9. \A s, t \in tables' : Clash(s, t) => s = t
    BY DEF Db, EntriesOK
  <2> QED
    BY <2>6, <2>7, <2>8, <2>9 DEF EntriesOK
<1>6. UpdatesOK'
  BY <1>1, <1>a DEF Db, UpdatesOK, Follows
<1>7. RefsOK'
  BY <1>1 DEF Db, RefsOK, Ids
<1> QED
  BY <1>1, <1>2, <1>3, <1>4, <1>5, <1>6, <1>7, <1>v DEF Db

\* A statement that changes a row that p sees and nobody else has written.
LEMMA DbUpdate ==
    ASSUME Db, NEW p \in Procs, NEW old \in View(p), NEW r, IsRow(r), r.id = old.id,
           Follows(old, r), Entries(r) \subseteq Entries(old),
           old.tab \notin {"links", "user_identifiers"},
           Lockers(p, old.id) = {},
           UNCHANGED tables, own' = [own EXCEPT ![p] = {s \in @ : s.id # r.id} \cup {r}]
    PROVE  /\ Db'
           /\ View(p)' = (View(p) \ {old}) \cup {r}
           /\ own'[p] = (own[p] \ {old}) \cup {r}
<1>a. \A q \in Procs \ {p} : \A s \in own[q] : s.id # old.id
  BY DEF Lockers, Ids
<1>b. old \in own[p] \/ (old \in tables /\ \A s \in own[p] : s.id # old.id)
  BY DEF View, Ids
<1>c. {s \in own[p] : s.id # r.id} = own[p] \ {old}
  BY <1>b DEF Db, IdsOK
<1>1. /\ DOMAIN own' = Procs /\ own'[p] = (own[p] \ {old}) \cup {r}
      /\ \A q \in Procs \ {p} : own'[q] = own[q]
  BY <1>c DEF Db, RowsOK
<1>2. RowsOK'
  BY <1>1 DEF Db, RowsOK
<1>3. IdsBounded'
  <2>1. PICK b \in Nat : /\ \A s \in tables : s.id <= b
                         /\ \A q \in Procs : \A s \in own[q] : s.id <= b
    BY DEF Db, IdsBounded
  <2>2. r.id <= b
    BY <1>b, <2>1
  <2>3. \A q \in Procs : \A s \in own'[q] : s.id <= b
    BY <1>1, <2>1, <2>2
  <2> QED
    BY <2>1, <2>3 DEF IdsBounded
<1>4. IdsOK'
  <2>1. \A s \in own'[p] : s = r \/ (s \in own[p] /\ s.id # r.id)
    BY <1>1, <1>c
  <2> QED
    BY <1>1, <1>a, <2>1 DEF Db, IdsOK
<1>v. /\ View(p)' = (View(p) \ {old}) \cup {r}
      /\ \A q \in Procs \ {p} : View(q)' = View(q)
  <2>1. Ids(own'[p]) = Ids(own[p]) \cup {old.id}
    BY <1>1, <1>b DEF Ids
  <2>2. \A s \in tables : s.id = old.id => s = old \/ old \in own[p]
    BY <1>b DEF Db, IdsOK
  <2>3. old \in own[p] => old.id \in Ids(own[p])
    BY DEF Ids
  <2> QED
    BY <1>1, <1>b, <2>1, <2>2, <2>3 DEF View
<1>5. EntriesOK'
  <2>1. /\ Locked(p)' \subseteq Locked(p) \cup {r, old}
        /\ \A q \in Procs \ {p} : Locked(q)' = Locked(q)
    <3>1. Ids(own'[p]) \subseteq Ids(own[p]) \cup {old.id}
      BY <1>1 DEF Ids
    <3>2. \A s \in tables : s.id = old.id => s = old \/ s \in Locked(p)
      BY <1>b DEF Db, IdsOK, Locked, Ids
    <3> QED
      BY <1>1, <3>1, <3>2 DEF Locked
  <2>2. \A s, t : Clash(s, t) = Clash(t, s)
    BY DEF Clash
  <2>3. \A s : Clash(r, s) => Clash(old, s)
    BY DEF Clash
  <2>4. \A q \in Procs \ {p} : \A s \in Locked(q) : ~Clash(old, s)
    <3> SUFFICES ASSUME NEW q \in Procs \ {p}, NEW s \in Locked(q), Clash(old, s), old \in tables
                 PROVE  FALSE
      BY <1>b DEF Db, EntriesOK
    <3>1. old \in View(q)
      BY <1>a DEF View, Ids
    <3>2. s \in own[q] \/ (s \in tables /\ s.id \in Ids(own[q]))
      BY DEF Locked
    <3>3. s = old
      BY <3>1, <3>2 DEF Db, EntriesOK, View
    <3> QED
      BY <3>2, <3>3, <1>a DEF Ids
  <2>5. \A q \in Procs : own[q] \subseteq Locked(q)
    BY DEF Locked
  <2>6. \A q, v \in Procs : q # v => \A s \in own'[q], t \in Locked(v)' : ~Clash(s, t)
    <3> SUFFICES ASSUME NEW q \in Procs, NEW v \in Procs, q # v,
                        NEW s \in own'[q], NEW t \in Locked(v)'
                 PROVE  ~Clash(s, t)
      OBVIOUS
    <3>1. CASE s \in own[q] /\ t \in Locked(v)
      BY <3>1 DEF Db, EntriesOK
    <3>2. CASE s = r /\ q = p
      BY <3>2, <2>1, <2>3, <2>4
    <3>3. CASE t \in {r, old} /\ v = p /\ s \in own[q]
      BY <3>3, <2>2, <2>3, <2>4, <2>5
    <3> QED
      BY <1>1, <2>1, <3>1, <3>2, <3>3
  <2>7. \A q \in Procs : \A s, t \in View(q)' : Clash(s, t) => s = t
    <3>1. \A s \in View(p) \ {old} : ~Clash(old, s)
      BY DEF Db, EntriesOK
    <3> QED
      BY <1>v, <2>2, <2>3, <3>1 DEF Db, EntriesOK
  <2>8. \A s, t : Clash(s, t)' = Clash(s, t)
    BY DEF Clash
  <2>9. \A s, t \in tables' : Clash(s, t) => s = t
    BY DEF Db, EntriesOK
  <2> QED
    BY <2>6, <2>7, <2>8, <2>9 DEF EntriesOK
<1>6. UpdatesOK'
  <2>1. \A t \in tables : t.id = r.id => Follows(t, r)
    <3> SUFFICES ASSUME NEW t \in tables, t.id = r.id PROVE Follows(t, r)
      OBVIOUS
    <3>1. CASE old \in own[p]
      BY <3>1 DEF Db, UpdatesOK, Follows
    <3>2. CASE old \in tables
      BY <3>2 DEF Db, IdsOK
    <3> QED
      BY <1>b, <3>1, <3>2
  <2> QED
    BY <1>1, <2>1 DEF Db, UpdatesOK, Follows
<1>7. RefsOK'
  <2>1. r.tab = old.tab
    BY DEF Follows
  <2>2. Ids(own[p]) \subseteq Ids(own'[p])
    BY <1>1 DEF Ids
  <2>3. \A l \in own'[p] :
            /\ l.tab = "links" => l.num \in Ids(own'[p]) \ Ids(tables)
            /\ l.tab = "user_identifiers" => \E u \in own'[p] : u.tab = "users" /\ u.id = l.num
    <3> SUFFICES ASSUME NEW l \in own[p], l.tab \in {"links", "user_identifiers"}
                 PROVE  /\ l.tab = "links" => l.num \in Ids(own'[p]) \ Ids(tables)
                        /\ l.tab = "user_identifiers" => \E u \in own'[p] : u.tab = "users" /\ u.id = l.num
      BY <1>1, <2>1
    <3>1. l.tab = "links" => l.num \in Ids(own'[p]) \ Ids(tables)
      BY <2>2 DEF Db, RefsOK
    <3>2. l.tab = "user_identifiers" => \E u \in own'[p] : u.tab = "users" /\ u.id = l.num
      <4> SUFFICES ASSUME l.tab = "user_identifiers"
                   PROVE  \E u \in own'[p] : u.tab = "users" /\ u.id = l.num
        OBVIOUS
      <4>1. PICK u \in own[p] : u.tab = "users" /\ u.id = l.num
        BY DEF Db, RefsOK
      <4> QED
        BY <1>1, <2>1, <4>1
    <3> QED
      BY <3>1, <3>2
  <2> QED
    BY <1>1, <2>3 DEF Db, RefsOK
<1> QED
  BY <1>1, <1>2, <1>3, <1>4, <1>5, <1>6, <1>7, <1>v DEF Db

\* What q sees when p commits: nothing new of what q has written, and the rows
\* of p instead of what they were.
LEMMA CommittedView ==
    ASSUME Db, NEW p \in Procs, tables' = View(p), own' = [own EXCEPT ![p] = {}],
           NEW q \in Procs \ {p}
    PROVE  /\ own'[q] = own[q]
           /\ View(q)' = own[q] \cup {r \in View(p) : r.id \notin Ids(own[q])}
BY DEF View, Db, RowsOK

\* COMMIT.
LEMMA DbCommit ==
    ASSUME Db, NEW p \in Procs, tables' = View(p), own' = [own EXCEPT ![p] = {}]
    PROVE  Db'
<1>1. /\ DOMAIN own' = Procs /\ own'[p] = {}
      /\ \A q \in Procs \ {p} : own'[q] = own[q]
  BY DEF Db, RowsOK
<1>2. \A r \in View(p) : r \in own[p] \/ (r \in tables /\ r.id \notin Ids(own[p]))
  BY DEF View
<1>3. RowsOK'
  BY <1>1, <1>2 DEF Db, RowsOK
<1>4. IdsBounded'
  <2>1. PICK b \in Nat : /\ \A s \in tables : s.id <= b
                         /\ \A q \in Procs : \A s \in own[q] : s.id <= b
    BY DEF Db, IdsBounded
  <2>2. /\ \A s \in tables' : s.id <= b
        /\ \A q \in Procs : \A s \in own'[q] : s.id <= b
    BY <1>1, <1>2, <2>1
  <2> QED
    BY <2>1, <2>2 DEF IdsBounded
<1>5. IdsOK'
  BY <1>1, ViewIds DEF Db, IdsOK
<1>6. EntriesOK'
  <2>1. View(p)' = View(p)
    BY <1>1 DEF View, Ids
  <2>2. \A q \in Procs \ {p} : \A s \in own[q], t \in own[p] : ~Clash(s, t) /\ ~Clash(t, s) /\ s.id # t.id
    BY DEF Db, EntriesOK, Locked, IdsOK, Clash
  <2>3. \A s, t : Clash(s, t)' = Clash(s, t) /\ Clash(s, t) = Clash(t, s)
    BY DEF Clash
  <2>4. \A q \in Procs \ {p} : \A r \in View(q)' : r \in own[p] \/ r \in View(q)
    BY <1>1, <1>2 DEF View
  <2>5. \A q \in Procs \ {p} : \A s \in own[p], t \in View(q) : t \in View(q)' => ~Clash(s, t) \/ s = t
    <3> SUFFICES ASSUME NEW q \in Procs \ {p}, NEW s \in own[p], NEW t \in View(q), t \in View(q)', Clash(s, t)
                 PROVE  s = t
      OBVIOUS
    <3>1. t \notin own[q]
      BY <2>2
    <3>2. t \in View(p)
      BY <3>1, <1>1 DEF View
    <3> QED
      BY <3>2 DEF Db, EntriesOK, View
  <2>6. \A q \in Procs : \A s, t \in View(q)' : Clash(s, t) => s = t
    <3> SUFFICES ASSUME NEW q \in Procs \ {p}, NEW s \in View(q)', NEW t \in View(q)', Clash(s, t)
                 PROVE  s = t
      BY <2>1 DEF Db, EntriesOK
    <3>1. CASE s \in View(q) /\ t \in View(q)
      BY <3>1 DEF Db, EntriesOK
    <3>2. CASE s \in own[p] /\ t \in own[p]
      BY <3>2 DEF Db, EntriesOK, View
    <3> QED
      BY <2>3, <2>4, <2>5, <3>1, <3>2
  <2>7. \A q \in Procs \ {p} : Locked(q)' \subseteq Locked(q)
    <3> SUFFICES ASSUME NEW q \in Procs \ {p}, NEW t \in Locked(q)' PROVE t \in Locked(q)
      OBVIOUS
    <3>1. t \in own[q] \/ (t \in View(p) /\ t.id \in Ids(own[q]))
      BY <1>1 DEF Locked
    <3>2. t \notin own[p] \/ t.id \notin Ids(own[q])
      BY <2>2 DEF Ids
    <3> QED
      BY <3>1, <3>2, <1>2 DEF Locked
  <2>8. Locked(p)' = {}
    BY <1>1 DEF Locked, Ids
  <2>9. \A q, v \in Procs : q # v => \A s \in own'[q], t \in Locked(v)' : ~Clash(s, t)
    BY <1>1, <2>7, <2>8 DEF Db, EntriesOK
  <2>10. \A s, t \in tables' : Clash(s, t) => s = t
    BY DEF Db, EntriesOK
  <2> QED
    BY <2>3, <2>6, <2>9, <2>10 DEF EntriesOK
<1>7. UpdatesOK'
  <2> SUFFICES ASSUME NEW q \in Procs \ {p}, NEW r \in own[q], NEW t \in View(p), r.id = t.id
               PROVE  Follows(t, r)
    BY <1>1 DEF UpdatesOK, Follows
  <2>1. t \in tables
    BY <1>2 DEF Db, IdsOK
  <2> QED
    BY <2>1 DEF Db, UpdatesOK
<1>8. RefsOK'
  <2>1. Ids(View(p)) = Ids(tables) \cup Ids(own[p])
    BY DEF View, Ids
  <2>2. \A u \in tables : u.tab = "users" => \E v \in View(p) : v.tab = "users" /\ v.id = u.id
    <3> SUFFICES ASSUME NEW u \in tables, u.tab = "users"
                 PROVE  \E v \in View(p) : v.tab = "users" /\ v.id = u.id
      OBVIOUS
    <3>1. CASE u.id \in Ids(own[p])
      <4>1. PICK v \in own[p] : v.id = u.id
        BY <3>1 DEF Ids
      <4> QED
        BY <4>1 DEF Db, UpdatesOK, Follows, View
    <3>2. CASE u.id \notin Ids(own[p])
      BY <3>2 DEF View
    <3> QED
      BY <3>1, <3>2
  <2>3. \A l \in View(p) :
            /\ l.tab = "links" => l.num \in Ids(View(p))
            /\ l.tab = "user_identifiers" => \E u \in View(p) : u.tab = "users" /\ u.id = l.num
    <3> SUFFICES ASSUME NEW l \in View(p)
                 PROVE  /\ l.tab = "links" => l.num \in Ids(View(p))
                        /\ l.tab = "user_identifiers" => \E u \in View(p) : u.tab = "users" /\ u.id = l.num
      OBVIOUS
    <3>1. CASE l \in own[p]
      BY <3>1, <2>1 DEF Db, RefsOK, View
    <3>2. CASE l \in tables
      BY <3>2, <2>1, <2>2 DEF Db, RefsOK
    <3> QED
      BY <1>2, <3>1, <3>2
  <2>4. \A q \in Procs \ {p} : \A x \in Ids(own[q]) : x \notin Ids(own[p])
    BY DEF Db, IdsOK, Ids
  <2>5. \A q \in Procs \ {p} : \A l \in own[q] :
            /\ l.tab = "links" => l.num \in Ids(own[q]) \ Ids(View(p))
            /\ l.tab = "user_identifiers" => \E u \in own[q] : u.tab = "users" /\ u.id = l.num
    BY <2>1, <2>4 DEF Db, RefsOK
  <2> QED
    BY <1>1, <2>3, <2>5 DEF RefsOK
<1> QED
  BY <1>3, <1>4, <1>5, <1>6, <1>7, <1>8 DEF Db

\* A step that writes nothing.
LEMMA DbQuiet == ASSUME Db, UNCHANGED <<tables, own>> PROVE Db'
<1>1. \A q \in Procs : View(q)' = View(q) /\ Locked(q)' = Locked(q)
  BY DEF View, Locked, Ids
<1>2. \A s, t : Clash(s, t)' = Clash(s, t)
  BY DEF Clash
<1>3. EntriesOK'
  BY <1>1, <1>2 DEF Db, EntriesOK
<1> QED
  BY <1>3 DEF Db, RowsOK, IdsBounded, IdsOK, UpdatesOK, Follows, RefsOK, Ids

-------------------------------------------------------------------------------
(* The entries of a row *)

PlainTab(t) == t \notin {"parameter_sets", "deployment_licenses", "links", "change_log"}

\* Which entries a row has.
LEMMA EntriesHad ==
    ASSUME NEW r
    PROVE  /\ r.tab = "parameter_sets" /\ r.num # None => <<"version", r.num>> \in Entries(r)
           /\ r.tab = "parameter_sets" /\ r.key # None => <<"effective_from", r.key>> \in Entries(r)
           /\ r.tab = "deployment_licenses" /\ r.upto = None /\ r.key # None =>
                <<"current", r.key>> \in Entries(r)
           /\ PlainTab(r.tab) /\ r.key # None => <<r.tab, r.key>> \in Entries(r)
           /\ r.tab = "deployment_licenses" /\ r.upto # None => Entries(r) = {}
           /\ r.tab = "change_log" => Entries(r) = {}
BY DEF Entries, UniqueColumns, PlainTab

\* An entry tells which row it may belong to.
LEMMA EntriesTell ==
    ASSUME NEW r, NEW t, NEW k
    PROVE  /\ <<t, k>> \in Entries(r) /\ t \notin {"version", "effective_from", "current"} =>
                r.tab = t /\ r.key = k
           /\ <<"current", k>> \in Entries(r) /\ r.tab # "current" =>
                r.tab = "deployment_licenses" /\ r.key = k /\ r.upto = None
<1>1. <<t, k>> # <<"links", r.num, r.key>> /\ <<"current", k>> # <<"links", r.num, r.key>>
  OBVIOUS
<1> QED
  BY <1>1 DEF Entries, UniqueColumns

\* The entry of a link.
LEMMA LinkEntries ==
    ASSUME NEW r, r.tab = "links"
    PROVE  /\ Entries(r) \subseteq {<<"links", r.num, r.key>>}
           /\ \A s : Clash(r, s) => s.tab = "links" /\ s.num = r.num
<1>1. Entries(r) \subseteq {<<"links", r.num, r.key>>}
  BY DEF Entries, UniqueColumns
<1>2. ASSUME NEW s, <<"links", r.num, r.key>> \in Entries(s) PROVE s.tab = "links" /\ s.num = r.num
  <2>1. /\ <<"links", r.num, r.key>> # <<"version", s.num>>
        /\ <<"links", r.num, r.key>> # <<"effective_from", s.key>>
        /\ <<"links", r.num, r.key>> # <<"current", s.key>>
        /\ <<"links", r.num, r.key>> # <<s.tab, s.key>>
    OBVIOUS
  <2> QED
    BY <1>2, <2>1 DEF Entries, UniqueColumns
<1> QED
  BY <1>1, <1>2 DEF Clash

\* An UPDATE of a row of such a table keeps its entries.
LEMMA EntriesKept ==
    ASSUME NEW r, NEW old, PlainTab(old.tab), r.tab = old.tab, r.key = old.key
    PROVE  Entries(r) = Entries(old)
BY DEF Entries, UniqueColumns, PlainTab

-------------------------------------------------------------------------------
(* The inductive invariant: the requests that are being served *)

Requests == UNION Workloads

RosterEntries ==
    UNION {{r.list[n] : n \in DOMAIN r.list} : r \in {q \in Requests : q.op = "upsert_roster"}}

Codes == {"done", "upserted", "idempotent", "TF-AUTH-002", "TF-CFG-001", "TF-CFG-002", "TF-CFG-003",
          "TF-CFG-004", "TF-CFG-006", "TF-CFG-007", "TF-EVT-002", "TF-READ-001", "TF-SRV-001"}

Said == [about : Requests \cup RosterEntries, out : Codes, id : Nat \cup {None}]

Jobs ==
    [req : Requests \cup {None}, item : Nat \ {0}, pos : Nat \ {0}, id : Nat \cup {None},
     target : Nat \cup {None}, version : Nat, said : SUBSET Said]

\* The statements before the first one that writes.
Reading == {"idle", "reply", "role", "resolve", "check", "number", "find", "close", "delete",
            "retype", "rename", "user"}

Steps == Reading \cup {"insert", "link", "licensed", "supersede", "owner", "claim", "commit"}

\* Which handler is at step s, and how far it is, in its job j.
Control(s, j) ==
    /\ s # "idle" => j.req \in Requests
    /\ s \in {"role", "number"} => j.req.op = "create_parameter_version"
    /\ s = "resolve" => j.req.op \in {"register_id_namespace", "declare_license", "update_deployment"}
    /\ s = "check" => j.req.op \in Keyed
    /\ s = "insert" => j.req.op \in Declaring /\ j.pos = 1
    /\ s = "insert" /\ j.req.op = "create_parameter_version" => j.version # 0
    /\ s \in {"find", "close", "licensed"} => j.req.op = "declare_license"
    /\ s = "link" => j.req.op \in Declaring \ {"declare_license"}
    /\ s \in {"link", "licensed"} => j.pos \in 1..Len(j.req.list)
    /\ s = "supersede" => j.req.op = "declare_change_event" /\ j.pos = 1
    /\ s = "delete" => j.req.op = "delete_webhook"
    /\ s \in {"retype", "rename"} => j.req.op = "update_deployment"
    /\ s \in {"resolve", "check", "role", "number", "find", "close", "user"} => j.pos = 1
    /\ s \in {"user", "owner", "claim"} => j.req.op = "upsert_roster"
    /\ s \in {"user", "owner", "claim", "commit"} /\ j.req.op = "upsert_roster" =>
            j.item \in 1..Len(j.req.list)
    /\ s \in {"owner", "claim"} => j.pos \in 1..Len(j.req.list[j.item].identifiers)
    /\ s = "commit" /\ j.req.op = "upsert_roster" => j.pos = Len(j.req.list[j.item].identifiers) + 1

\* The license that j closes: the committed one is current.
Closes(j, c, T) ==
    /\ j.req.op = "declare_license"
    /\ c.tab = "deployment_licenses" /\ c.key = j.req.key /\ c.upto = j.req.from
    /\ \E t \in T : /\ t.id = c.id /\ t.tab = c.tab /\ t.key = c.key /\ t.from = c.from
                    /\ t.upto = None /\ t.from <= j.req.from

LinksIn(o) == {l \in o : l.tab = "links"}

\* A transaction o that has inserted its row: the row, its links, and the change
\* or the license that it supersedes.
Declared(j, o, T) ==
    \E d \in o :
        /\ d.id = j.id /\ d.id \notin Ids(T)
        /\ d.tab = TableOf(j.req.op) /\ d.key = j.req.key /\ d.from = j.req.from /\ d.upto = None
        /\ j.req.op = "create_parameter_version" => d.num = j.version
        /\ \A r \in o : \/ r = d
                        \/ r.tab = "links" /\ r.num = d.id
                        \/ r.tab = "change_log" /\ j.req.op = "declare_change_event"
                        \/ Closes(j, r, T)

\* A transaction o that has written a roster entry: the user, and identifiers of
\* that user; those that were passed belong to somebody.
Enrolled(j, o, T) ==
    LET e == j.req.list[j.item] IN
    \E u \in o :
        /\ u.id = j.id /\ u.tab = "users" /\ u.key = e.user
        /\ \A r \in o : r = u \/ (r.tab = "user_identifiers" /\ r.num = u.id)
        /\ \A n \in 1..(j.pos - 1) : \E r \in o \cup {t \in T : t.id \notin Ids(o)} :
                r.tab = "user_identifiers" /\ r.key = e.identifiers[n]

\* What a transaction has written when it is at step s.
Written(s, j, o, T) ==
    /\ s \in Reading => o = {}
    /\ s = "insert" => o = {} \/ \E c : o = {c} /\ Closes(j, c, T)
    /\ s \in {"link", "licensed", "supersede"} \/ (s = "commit" /\ j.req.op \in Declaring) =>
            Declared(j, o, T)
    /\ s = "link" => IsFiniteSet(LinksIn(o)) /\ Cardinality(LinksIn(o)) = j.pos - 1
    /\ s = "supersede" => LinksIn(o) = {}
    /\ s = "commit" /\ j.req.op \in Keyed =>
            IsFiniteSet(LinksIn(o)) /\ Cardinality(LinksIn(o)) = Len(j.req.list)
    /\ s \in {"owner", "claim"} \/ (s = "commit" /\ j.req.op = "upsert_roster") => Enrolled(j, o, T)
    /\ s = "commit" /\ j.req.op \in {"delete_webhook", "update_deployment"} =>
            \A r \in o : r.tab \in {"webhooks", "deployments"}
    /\ s = "close" => \E t \in T : t.id = j.target /\ t.tab = "deployment_licenses" /\ t.key = j.req.key
    /\ s \in {"retype", "rename"} => \E t \in T : t.id = j.target /\ t.tab = "deployments"

Local(p) == Control(pc[p], job[p]) /\ Written(pc[p], job[p], own[p], tables)

Core ==
    /\ Db
    /\ pc \in [Procs -> Steps]
    /\ job \in [Procs -> Jobs]
    /\ workload \in Workloads
    /\ \A p \in Procs : Local(p)

\* Process p takes a step that leaves the others alone.
Alone(p) ==
    \A q \in Procs \ {p} : pc'[q] = pc[q] /\ job'[q] = job[q] /\ own'[q] = own[q]

-------------------------------------------------------------------------------
(* A step of one process, seen from another *)

\* A row that was seen is still there after a commit: same id, table and key.
LEMMA StillThere ==
    ASSUME Db, NEW p \in Procs, NEW t \in tables
    PROVE  \E r \in View(p) : r.id = t.id /\ Follows(t, r)
<1>1. CASE t.id \in Ids(own[p])
  <2>1. PICK r \in own[p] : r.id = t.id
    BY <1>1 DEF Ids
  <2> QED
    BY <2>1 DEF Db, UpdatesOK, View
<1>2. CASE t.id \notin Ids(own[p])
  BY <1>2 DEF View, Follows
<1> QED
  BY <1>1, <1>2

\* What q has written fits the tables after p has committed.
LEMMA WrittenAfterCommit ==
    ASSUME Db, NEW p \in Procs, NEW q \in Procs \ {p}, NEW s, NEW j, Written(s, j, own[q], tables)
    PROVE  Written(s, j, own[q], View(p))
<1> DEFINE o == own[q]
<1>1. \A t \in tables : t.id \in Ids(o) => t \in View(p)
  BY DEF Db, IdsOK, View, Ids
<1>2. ASSUME NEW c \in o, Closes(j, c, tables) PROVE Closes(j, c, View(p))
  BY <1>1, <1>2 DEF Closes, Ids
<1>3. \A x \in Ids(o) : x \notin Ids(tables) => x \notin Ids(View(p))
  BY DEF Db, IdsOK, View, Ids
<1>4. Declared(j, o, tables) => Declared(j, o, View(p))
  <2> SUFFICES ASSUME Declared(j, o, tables) PROVE Declared(j, o, View(p))
    OBVIOUS
  <2>1. PICK d \in o :
        /\ d.id = j.id /\ d.id \notin Ids(tables)
        /\ d.tab = TableOf(j.req.op) /\ d.key = j.req.key /\ d.from = j.req.from /\ d.upto = None
        /\ j.req.op = "create_parameter_version" => d.num = j.version
        /\ \A r \in o : \/ r = d
                        \/ r.tab = "links" /\ r.num = d.id
                        \/ r.tab = "change_log" /\ j.req.op = "declare_change_event"
                        \/ Closes(j, r, tables)
    BY DEF Declared
  <2>2. d.id \notin Ids(View(p))
    BY <1>3, <2>1 DEF Ids
  <2> QED
    BY <1>2, <2>1, <2>2 DEF Declared
<1>5. Enrolled(j, o, tables) => Enrolled(j, o, View(p))
  <2> SUFFICES ASSUME Enrolled(j, o, tables) PROVE Enrolled(j, o, View(p))
    OBVIOUS
  <2> DEFINE e == j.req.list[j.item]
  <2>1. PICK u \in o :
        /\ u.id = j.id /\ u.tab = "users" /\ u.key = e.user
        /\ \A r \in o : r = u \/ (r.tab = "user_identifiers" /\ r.num = u.id)
        /\ \A n \in 1..(j.pos - 1) : \E r \in o \cup {t \in tables : t.id \notin Ids(o)} :
                r.tab = "user_identifiers" /\ r.key = e.identifiers[n]
    BY DEF Enrolled
  <2>2. ASSUME NEW n \in 1..(j.pos - 1)
        PROVE  \E r \in o \cup {t \in View(p) : t.id \notin Ids(o)} :
                    r.tab = "user_identifiers" /\ r.key = e.identifiers[n]
    <3>1. PICK r \in o \cup {t \in tables : t.id \notin Ids(o)} :
                    r.tab = "user_identifiers" /\ r.key = e.identifiers[n]
      BY <2>1
    <3>2. CASE r \in tables /\ r.id \notin Ids(o)
      <4>1. PICK v \in View(p) : v.id = r.id /\ Follows(r, v)
        BY <3>2, StillThere
      <4> QED
        BY <3>1, <3>2, <4>1 DEF Follows
    <3> QED
      BY <3>1, <3>2
  <2> QED
    BY <2>1, <2>2 DEF Enrolled
<1>6. \A t \in tables : \E r \in View(p) : r.id = t.id /\ r.tab = t.tab /\ r.key = t.key
  BY StillThere DEF Follows
<1>7. s = "insert" => o = {} \/ \E c : o = {c} /\ Closes(j, c, View(p))
  <2> SUFFICES ASSUME NEW c, o = {c}, Closes(j, c, tables) PROVE Closes(j, c, View(p))
    BY DEF Written
  <2>1. c \in o
    OBVIOUS
  <2> QED
    BY <2>1, <1>2
<1>8. /\ s = "close" => \E t \in View(p) : t.id = j.target /\ t.tab = "deployment_licenses" /\ t.key = j.req.key
      /\ s \in {"retype", "rename"} => \E t \in View(p) : t.id = j.target /\ t.tab = "deployments"
  BY <1>6 DEF Written
<1> QED
  BY <1>4, <1>5, <1>7, <1>8 DEF Written

\* A step of p preserves the invariant if it does so for p.
LEMMA StepOK ==
    ASSUME Core, NEW p \in Procs, Db', Alone(p), tables' = tables \/ tables' = View(p),
           pc' \in [Procs -> Steps], job' \in [Procs -> Jobs], workload' = workload,
           Control(pc'[p], job'[p]), Written(pc'[p], job'[p], own'[p], tables')
    PROVE  Core'
<1>1. ASSUME NEW q \in Procs \ {p} PROVE Local(q)'
  <2>1. Control(pc'[q], job'[q])
    BY DEF Core, Local, Alone
  <2>2. Written(pc'[q], job'[q], own'[q], tables')
    BY WrittenAfterCommit DEF Core, Local, Alone
  <2> QED
    BY <2>1, <2>2 DEF Local
<1>2. Local(p)'
  BY DEF Local
<1> QED
  BY <1>1, <1>2 DEF Core

-------------------------------------------------------------------------------
(* Steps that read, and steps that end a transaction *)

\* What the request models guarantee.
LEMMA RequestFacts ==
    ASSUME NEW r \in Requests
    PROVE  /\ r.op \in Handlers
           /\ "op" \in DOMAIN r /\ "identifiers" \notin DOMAIN r
           /\ r.list \in Seq({r.list[n] : n \in DOMAIN r.list})
           /\ Len(r.list) \in Nat /\ DOMAIN r.list = 1..Len(r.list)
           /\ r.op = "declare_license" => r.key # None /\ r.from \in Int
           /\ r.op = "upsert_roster" => \A n \in 1..Len(r.list) :
                /\ r.list[n] \in RosterEntries
                /\ "identifiers" \in DOMAIN r.list[n] /\ "op" \notin DOMAIN r.list[n]
                /\ r.list[n].user # None
                /\ Len(r.list[n].identifiers) \in Nat
                /\ r.list[n].identifiers # <<>> => Len(r.list[n].identifiers) # 0
                /\ \A i \in 1..Len(r.list[n].identifiers) : r.list[n].identifiers[i] # None
<1>1. PICK w \in Workloads : r \in w
  BY DEF Requests
<1>2. /\ r.op \in Handlers
      /\ "op" \in DOMAIN r /\ "identifiers" \notin DOMAIN r
      /\ r.list \in Seq({r.list[n] : n \in DOMAIN r.list})
      /\ r.op = "declare_license" => r.key # None /\ r.from \in Int
  BY <1>1, RequestsAssumption
<1>3. Len(r.list) \in Nat /\ DOMAIN r.list = 1..Len(r.list)
  BY <1>2
<1>4. ASSUME r.op = "upsert_roster", NEW n \in 1..Len(r.list)
      PROVE  /\ r.list[n] \in RosterEntries
             /\ "identifiers" \in DOMAIN r.list[n] /\ "op" \notin DOMAIN r.list[n]
             /\ r.list[n].user # None
             /\ Len(r.list[n].identifiers) \in Nat
             /\ r.list[n].identifiers # <<>> => Len(r.list[n].identifiers) # 0
             /\ \A i \in 1..Len(r.list[n].identifiers) : r.list[n].identifiers[i] # None
  <2>1. r.list[n] \in RosterEntries
    BY <1>3, <1>4 DEF RosterEntries
  <2> DEFINE e == r.list[n]
             I == {e.identifiers[i] : i \in DOMAIN e.identifiers} \ {None}
  <2>2. /\ "identifiers" \in DOMAIN e /\ "op" \notin DOMAIN e
        /\ e.user # None /\ e.identifiers \in Seq(I)
    <3>1. \A m \in DOMAIN r.list :
            /\ "identifiers" \in DOMAIN r.list[m] /\ "op" \notin DOMAIN r.list[m]
            /\ r.list[m].user # None
            /\ r.list[m].identifiers \in Seq({r.list[m].identifiers[i] : i \in DOMAIN r.list[m].identifiers} \ {None})
      BY <1>1, <1>4, RequestsAssumption, Zenon
    <3> QED
      BY <1>3, <3>1
  <2>3. None \notin I
    OBVIOUS
  <2> HIDE DEF I
  <2>4. Len(e.identifiers) \in Nat /\ \A i \in 1..Len(e.identifiers) : e.identifiers[i] \in I
    BY <2>2
  <2>5. e.identifiers # <<>> => Len(e.identifiers) # 0
    BY <2>2, EmptySeq
  <2> QED
    BY <2>1, <2>2, <2>3, <2>4, <2>5
<1> QED
  BY <1>2, <1>3, <1>4

\* The identifiers of a roster entry are a list.
LEMMA IdentifierList ==
    ASSUME NEW e \in RosterEntries
    PROVE  /\ DOMAIN e.identifiers = 1..Len(e.identifiers)
           /\ \A i \in 1..Len(e.identifiers) : e.identifiers[i] # None
<1>1. PICK r \in Requests : r.op = "upsert_roster" /\ \E n \in DOMAIN r.list : e = r.list[n]
  BY DEF RosterEntries
<1>2. PICK w \in Workloads : r \in w
  BY DEF Requests
<1>3. \A m \in DOMAIN r.list :
        /\ "identifiers" \in DOMAIN r.list[m] /\ "op" \notin DOMAIN r.list[m]
        /\ r.list[m].user # None
        /\ r.list[m].identifiers \in Seq({r.list[m].identifiers[i] : i \in DOMAIN r.list[m].identifiers} \ {None})
  BY <1>1, <1>2, RequestsAssumption, Zenon
<1> DEFINE I == {e.identifiers[i] : i \in DOMAIN e.identifiers} \ {None}
<1>4. e.identifiers \in Seq(I)
  BY <1>1, <1>3, Zenon
<1>5. None \notin I
  OBVIOUS
<1> HIDE DEF I
<1> QED
  BY <1>4, <1>5

\* A step that writes nothing moves p to step s with job j.
LEMMA QuietOK ==
    ASSUME Core, NEW p \in Procs, UNCHANGED <<tables, own, workload>>,
           NEW s \in Steps, NEW j \in Jobs, pc' = [pc EXCEPT ![p] = s], job' = [job EXCEPT ![p] = j],
           Control(s, j), Written(s, j, own[p], tables)
    PROVE  Core'
<1>1. Db'
  BY DbQuiet DEF Core
<1>2. /\ pc' \in [Procs -> Steps] /\ job' \in [Procs -> Jobs]
      /\ pc'[p] = s /\ job'[p] = j /\ Alone(p)
  BY DEF Core, Alone
<1>3. Control(pc'[p], job'[p]) /\ Written(pc'[p], job'[p], own'[p], tables')
  BY <1>2
<1> QED
  BY <1>1, <1>2, <1>3, StepOK

\* A transaction that ends without COMMIT moves p to step s with job j.
LEMMA AbortOK ==
    ASSUME Core, NEW p \in Procs, UNCHANGED <<tables, workload>>, own' = [own EXCEPT ![p] = {}],
           NEW s \in Steps, NEW j \in Jobs, pc' = [pc EXCEPT ![p] = s], job' = [job EXCEPT ![p] = j],
           Control(s, j), Written(s, j, {}, tables)
    PROVE  Core'
<1>1. Db'
  BY DbAbort DEF Core
<1>2. /\ pc' \in [Procs -> Steps] /\ job' \in [Procs -> Jobs]
      /\ pc'[p] = s /\ job'[p] = j /\ Alone(p) /\ own'[p] = {}
  BY DEF Core, Alone, Db, RowsOK
<1>3. Control(pc'[p], job'[p]) /\ Written(pc'[p], job'[p], own'[p], tables')
  BY <1>2
<1> QED
  BY <1>1, <1>2, <1>3, StepOK

\* Nothing is required of a process at these steps.
LEMMA Outside ==
    ASSUME NEW j, NEW T
    PROVE  /\ Control("idle", j) /\ Written("idle", j, {}, T)
           /\ j.req \in Requests => Control("reply", j) /\ Written("reply", j, {}, T)
BY DEF Control, Written, Reading

\* A request that fails.
LEMMA FailOK ==
    ASSUME Core, NEW p \in Procs, pc[p] # "idle", NEW code \in Codes, NEW id \in Nat \cup {None},
           Fail(p, code, id), workload' = workload
    PROVE  Core'
<1> DEFINE j == [job[p] EXCEPT !.said = {Answer(job[p].req, code, id)}]
<1>1. job[p] \in Jobs /\ job[p].req \in Requests
  BY DEF Core, Local, Control
<1>2. Answer(job[p].req, code, id) \in Said
  BY <1>1 DEF Answer, Said
<1>3. j \in Jobs /\ j.req = job[p].req
  BY <1>1, <1>2 DEF Jobs
<1>4. /\ UNCHANGED tables /\ own' = [own EXCEPT ![p] = {}]
      /\ pc' = [pc EXCEPT ![p] = "reply"] /\ job' = [job EXCEPT ![p] = j]
  BY DEF Fail, Goto
<1>5. "reply" \in Steps
  BY DEF Steps, Reading
<1> HIDE DEF j
<1> QED
  BY <1>1, <1>3, <1>4, <1>5, Outside, AbortOK

\* A request that fails, and names no row.
LEMMA FailPlainOK ==
    ASSUME Core, NEW p \in Procs, pc[p] # "idle", NEW code \in Codes, Fail(p, code, None),
           workload' = workload
    PROVE  Core'
<1>1. None \in Nat \cup {None}
  OBVIOUS
<1> QED
  BY <1>1, FailOK, Zenon

\* A request arrives.
LEMMA BeginOK == ASSUME Core, NEW p \in Procs, Begin(p) PROVE Core'
<1>0. PICK r \in workload : \E t \in Targets(r) :
        /\ pc[p] = "idle"
        /\ job' = [job EXCEPT ![p] = [NoJob EXCEPT !.req = r, !.target = t]]
        /\ pc' = [pc EXCEPT ![p] = FirstStep(r)]
        /\ UNCHANGED <<tables, own, workload>>
  BY DEF Begin, Goto
<1>1. PICK t \in Targets(r) :
        /\ pc[p] = "idle"
        /\ job' = [job EXCEPT ![p] = [NoJob EXCEPT !.req = r, !.target = t]]
        /\ pc' = [pc EXCEPT ![p] = FirstStep(r)]
        /\ UNCHANGED <<tables, own, workload>>
  BY <1>0
<1> DEFINE j == [NoJob EXCEPT !.req = r, !.target = t]
<1>2. r \in Requests
  BY <1>1 DEF Core, Requests
<1>3. t \in Nat \cup {None}
  <2>1. \A u \in tables : u.id \in Nat
    BY DEF Core, Db, RowsOK, IsRow
  <2>2. Targets(r) \in {{None}, Ids({u \in tables : u.tab = "change_log"}) \cup {0}, Ids({u \in tables : u.tab = "webhooks"}) \cup {0}}
    BY DEF Targets
  <2> QED
    BY <2>1, <2>2 DEF Ids
<1>4. /\ j \in Jobs /\ j.req = r /\ j.item = 1 /\ j.pos = 1 /\ j.target = t
  <2>1. NoJob \in Jobs /\ NoJob.item = 1 /\ NoJob.pos = 1
    BY DEF NoJob, Jobs
  <2>a. /\ [NoJob EXCEPT !.req = r] \in Jobs
        /\ [NoJob EXCEPT !.req = r].req = r
        /\ [NoJob EXCEPT !.req = r].item = 1 /\ [NoJob EXCEPT !.req = r].pos = 1
    BY <1>2, <2>1 DEF Jobs
  <2>2. PICK k \in Jobs : k = [NoJob EXCEPT !.req = r] /\ k.req = r /\ k.item = 1 /\ k.pos = 1
    BY <2>a, Zenon
  <2>3. j = [k EXCEPT !.target = t]
    BY <2>2, Zenon
  <2> HIDE DEF j
  <2> QED
    BY <1>3, <2>2, <2>3 DEF Jobs
<1>5. r.op \in Handlers /\ Len(r.list) \in Nat /\ (r.list # <<>> => Len(r.list) # 0)
  <2>1. r.op \in Handlers /\ r.list \in Seq({r.list[n] : n \in DOMAIN r.list})
    BY <1>2, RequestFacts
  <2> QED
    BY <2>1, EmptySeq
<1>6. own[p] = {}
  BY <1>1 DEF Core, Local, Written, Reading
<1>7. FirstStep(r) \in Steps /\ Control(FirstStep(r), j)
  <2> HIDE DEF j
  <2> QED
    BY <1>2, <1>4, <1>5 DEF FirstStep, Steps, Reading, Control, Handlers, Declaring, Keyed
<1>8. Written(FirstStep(r), j, own[p], tables)
  <2> HIDE DEF j
  <2> QED
    BY <1>4, <1>5, <1>6 DEF FirstStep, Written, Reading, Handlers, Declaring, Closes
<1>9. job' = [job EXCEPT ![p] = j]
  BY <1>1
<1> HIDE DEF j
<1> QED
  BY <1>1, <1>4, <1>7, <1>8, <1>9, QuietOK

\* What is known of a process.
LEMMA Known ==
    ASSUME Core, NEW p \in Procs
    PROVE  /\ job[p] \in Jobs /\ pc[p] \in Steps /\ DOMAIN own = Procs
           /\ Control(pc[p], job[p]) /\ Written(pc[p], job[p], own[p], tables)
           /\ pc[p] \in Reading => own[p] = {} /\ View(p) = tables
           /\ pc[p] # "idle" => job[p].req \in Requests
BY ViewOfNothing DEF Core, Local, Db, RowsOK, Written, Control

\* "finance_params" not in principal.roles
LEMMA RequireRoleOK == ASSUME Core, NEW p \in Procs, RequireRole(p) PROVE Core'
<1>1. pc[p] = "role" /\ workload' = workload
  BY DEF RequireRole, Step
<1>2. CASE Fail(p, "TF-CFG-002", None)
  <2>1. "TF-CFG-002" \in Codes /\ pc[p] # "idle" /\ workload' = workload
    BY <1>1 DEF Codes
  <2> QED
    BY <1>2, <2>1, FailPlainOK, Zenon
<1>3. CASE Goto(p, "check") /\ UNCHANGED <<tables, own, job>>
  <2>1. Control("check", job[p]) /\ "check" \in Steps
    BY <1>1, Known DEF Control, Keyed, Steps, Reading
  <2>2. Written("check", job[p], own[p], tables)
    BY <1>1, Known DEF Written, Reading
  <2>3. job' = [job EXCEPT ![p] = job[p]] /\ pc' = [pc EXCEPT ![p] = "check"] /\ job[p] \in Jobs
    BY <1>3, Known DEF Goto, Core
  <2> QED
    BY <1>1, <1>3, <2>1, <2>2, <2>3, QuietOK
<1> QED
  BY <1>2, <1>3 DEF RequireRole

\* _resolve_deployment
LEMMA ResolveDeploymentOK == ASSUME Core, NEW p \in Procs, ResolveDeployment(p) PROVE Core'
<1>1. pc[p] = "resolve" /\ workload' = workload
  BY DEF ResolveDeployment, Step
<1>2. CASE Fail(p, "TF-EVT-002", None)
  <2>1. "TF-EVT-002" \in Codes /\ pc[p] # "idle" /\ workload' = workload
    BY <1>1 DEF Codes
  <2> QED
    BY <1>2, <2>1, FailPlainOK, Zenon
<1>3. CASE Fail(p, "TF-AUTH-002", None)
  <2>1. "TF-AUTH-002" \in Codes /\ pc[p] # "idle" /\ workload' = workload
    BY <1>1 DEF Codes
  <2> QED
    BY <1>3, <2>1, FailPlainOK, Zenon
<1>4. CASE \E d \in Named(p, "deployments", job[p].req.dep) :
                /\ job' = [job EXCEPT ![p].target = d.id]
                /\ Goto(p, CASE job[p].req.op = "declare_license" -> "find"
                             [] job[p].req.op = "update_deployment" -> "retype"
                             [] OTHER -> "check")
                /\ UNCHANGED <<tables, own>>
  <2>1. PICK d \in tables :
                /\ d.tab = "deployments"
                /\ job' = [job EXCEPT ![p].target = d.id]
                /\ Goto(p, CASE job[p].req.op = "declare_license" -> "find"
                             [] job[p].req.op = "update_deployment" -> "retype"
                             [] OTHER -> "check")
                /\ UNCHANGED <<tables, own>>
    BY <1>1, <1>4, Known DEF Named, In, Reading
  <2> DEFINE j == [job[p] EXCEPT !.target = d.id]
             s == CASE job[p].req.op = "declare_license" -> "find"
                    [] job[p].req.op = "update_deployment" -> "retype"
                    [] OTHER -> "check"
  <2>2. d.id \in Nat
    BY DEF Core, Db, RowsOK, IsRow
  <2>3. j \in Jobs /\ j.req = job[p].req /\ j.target = d.id /\ j.pos = job[p].pos
    BY <2>2, Known DEF Jobs
  <2>4. s \in Steps /\ Control(s, j)
    <3> HIDE DEF j
    <3> QED
      BY <1>1, <2>3, Known DEF Control, Steps, Reading, Keyed
  <2>5. Written(s, j, own[p], tables)
    <3> HIDE DEF j
    <3> QED
      BY <1>1, <2>1, <2>3, Known DEF Written, Reading, Control
  <2>6. job' = [job EXCEPT ![p] = j] /\ pc' = [pc EXCEPT ![p] = s]
    BY <2>1 DEF Goto
  <2> HIDE DEF j, s
  <2> QED
    BY <1>1, <2>1, <2>3, <2>4, <2>5, <2>6, QuietOK
<1> QED
  BY <1>2, <1>3, <1>4 DEF ResolveDeployment

\* SELECT ... WHERE the natural key is the same
LEMMA CheckExistingOK == ASSUME Core, NEW p \in Procs, CheckExisting(p) PROVE Core'
<1>1. pc[p] = "check" /\ workload' = workload /\ job[p].req.op \in Keyed
  BY Known DEF CheckExisting, Step, Control
<1>2. CASE \E s \in Named(p, TableOf(job[p].req.op), job[p].req.key) :
                Fail(p, ExistsCode(job[p].req.op), s.id)
  <2>1. PICK s \in tables : Fail(p, ExistsCode(job[p].req.op), s.id)
    BY <1>1, <1>2, Known DEF Named, In, Reading
  <2>2. s.id \in Nat
    BY DEF Core, Db, RowsOK, IsRow
  <2>3. ExistsCode(job[p].req.op) \in Codes
    BY <1>1 DEF ExistsCode, Keyed, Codes
  <2> QED
    BY <1>1, <2>1, <2>2, <2>3, FailOK
<1>3. CASE /\ Goto(p, IF job[p].req.op = "create_parameter_version" THEN "number" ELSE "insert")
           /\ UNCHANGED <<tables, own, job>>
  <2> DEFINE s == IF job[p].req.op = "create_parameter_version" THEN "number" ELSE "insert"
  <2>1. s \in Steps /\ Control(s, job[p])
    BY <1>1, Known DEF Control, Keyed, Declaring, Steps, Reading
  <2>2. Written(s, job[p], own[p], tables)
    BY <1>1, Known DEF Written, Reading
  <2>3. job' = [job EXCEPT ![p] = job[p]] /\ pc' = [pc EXCEPT ![p] = s] /\ job[p] \in Jobs
    BY <1>3, Known DEF Goto, Core
  <2> HIDE DEF s
  <2> QED
    BY <1>1, <1>3, <2>1, <2>2, <2>3, QuietOK
<1> QED
  BY <1>2, <1>3 DEF CheckExisting

\* UPDATE deployment_licenses finds the current license
LEMMA FindCurrentOK == ASSUME Core, NEW p \in Procs, FindCurrent(p) PROVE Core'
<1>1. /\ pc[p] = "find" /\ workload' = workload /\ UNCHANGED <<tables, own>>
      /\ job[p].req.op = "declare_license" /\ own[p] = {}
  BY Known DEF FindCurrent, Step, Control, Reading
<1>2. CASE Goto(p, "insert") /\ job' = job
  <2>1. "insert" \in Steps /\ Control("insert", job[p])
    BY <1>1, Known DEF Control, Declaring, Steps
  <2>2. Written("insert", job[p], own[p], tables)
    BY <1>1, Known DEF Written, Reading
  <2>3. job' = [job EXCEPT ![p] = job[p]] /\ pc' = [pc EXCEPT ![p] = "insert"] /\ job[p] \in Jobs
    BY <1>2, Known DEF Goto, Core
  <2> QED
    BY <1>1, <2>1, <2>2, <2>3, QuietOK
<1>3. CASE \E r \in Named(p, "deployment_licenses", job[p].req.key) :
                job' = [job EXCEPT ![p].target = r.id] /\ Goto(p, "close")
  <2>1. PICK r \in tables : /\ r.tab = "deployment_licenses" /\ r.key = job[p].req.key
                            /\ job' = [job EXCEPT ![p].target = r.id] /\ Goto(p, "close")
    BY <1>1, <1>3, Known DEF Named, In, Reading
  <2> DEFINE j == [job[p] EXCEPT !.target = r.id]
  <2>2. r.id \in Nat
    BY DEF Core, Db, RowsOK, IsRow
  <2>3. j \in Jobs /\ j.req = job[p].req /\ j.target = r.id /\ j.pos = job[p].pos
    BY <2>2, Known DEF Jobs
  <2>4. "close" \in Steps /\ Control("close", j)
    <3> HIDE DEF j
    <3> QED
      BY <1>1, <2>3, Known DEF Control, Steps, Reading
  <2>5. Written("close", j, own[p], tables)
    <3> HIDE DEF j
    <3> QED
      BY <1>1, <2>1, <2>3 DEF Written, Reading
  <2>6. job' = [job EXCEPT ![p] = j] /\ pc' = [pc EXCEPT ![p] = "close"]
    BY <2>1 DEF Goto
  <2> HIDE DEF j
  <2> QED
    BY <1>1, <2>3, <2>4, <2>5, <2>6, QuietOK
<1> QED
  BY <1>2, <1>3 DEF FindCurrent

\* update_deployment looks at the type
LEMMA CheckTypeOK == ASSUME Core, NEW p \in Procs, CheckType(p) PROVE Core'
<1>1. /\ pc[p] = "retype" /\ workload' = workload /\ own[p] = {} /\ job[p].req.op = "update_deployment"
  BY Known DEF CheckType, Step, Reading, Control
<1>2. CASE Fail(p, "TF-CFG-006", None)
  <2>1. "TF-CFG-006" \in Codes /\ pc[p] # "idle" /\ workload' = workload
    BY <1>1 DEF Codes
  <2> QED
    BY <1>2, <2>1, FailPlainOK, Zenon
<1>3. CASE /\ Goto(p, IF "name" \in job[p].req.val THEN "rename" ELSE "commit")
           /\ job' = [job EXCEPT ![p].id = job[p].target]
           /\ UNCHANGED <<tables, own>>
  <2> DEFINE s == IF "name" \in job[p].req.val THEN "rename" ELSE "commit"
             j == [job[p] EXCEPT !.id = job[p].target]
  <2>1. j \in Jobs /\ j.req = job[p].req /\ j.target = job[p].target
    BY Known DEF Jobs
  <2>2. s \in Steps /\ Control(s, j)
    <3> HIDE DEF j
    <3> QED
      BY <1>1, <2>1, Known DEF Control, Steps, Reading
  <2>3. Written(s, j, own[p], tables)
    <3> HIDE DEF j
    <3> QED
      BY <1>1, <2>1, Known DEF Written, Reading, Declaring, Keyed
  <2>4. job' = [job EXCEPT ![p] = j] /\ pc' = [pc EXCEPT ![p] = s]
    BY <1>3 DEF Goto
  <2> HIDE DEF j, s
  <2> QED
    BY <1>1, <1>3, <2>1, <2>2, <2>3, <2>4, QuietOK
<1> QED
  BY <1>2, <1>3 DEF CheckType

\* The answer is sent, or the process dies.
LEMMA EndsOK == ASSUME Core, NEW p \in Procs, Reply(p) \/ Crash(p) PROVE Core'
<1>1. NoJob \in Jobs /\ "idle" \in Steps
  BY DEF NoJob, Jobs, Steps, Reading
<1>2. /\ pc' = [pc EXCEPT ![p] = "idle"] /\ job' = [job EXCEPT ![p] = NoJob]
      /\ UNCHANGED <<tables, workload>>
  BY DEF Leave, Goto, Reply, Crash
<1>3. CASE Reply(p)
  <2>1. own[p] = {} /\ own' = own
    BY <1>3, Known DEF Reply, Reading
  <2> QED
    BY <1>1, <1>2, <2>1, Outside, QuietOK
<1>4. CASE Crash(p)
  BY <1>1, <1>2, <1>4, Outside, AbortOK DEF Crash
<1> QED
  BY <1>3, <1>4

\* PostgreSQL ends a transaction that waits in a circle.
LEMMA DeadlockOK == ASSUME Core, NEW p \in Procs, Deadlock(p) PROVE Core'
<1>1. WaitsFor(p) # {} /\ Fail(p, "TF-SRV-001", None) /\ workload' = workload
  BY DEF Deadlock
<1>2. pc[p] # "idle"
  BY <1>1 DEF WaitsFor
<1>3. "TF-SRV-001" \in Codes
  BY DEF Codes
<1> QED
  BY <1>1, <1>2, <1>3, FailPlainOK, Zenon

-------------------------------------------------------------------------------
(* Steps that write *)

\* Whom the INSERT would have waited for.
LEMMA NoHolder ==
    ASSUME NEW p \in Procs, NEW r, Holders(p, r) = {}
    PROVE  \A q \in Procs \ {p} : \A s \in Locked(q) : ~Clash(r, s)
BY DEF Holders, Locked, Clash

\* A statement that writes a row moves p to step s with job j.
LEMMA WriteOK ==
    ASSUME Core, NEW p \in Procs, Db', UNCHANGED <<tables, workload>>, NEW o,
           own' = [own EXCEPT ![p] = o],
           NEW s \in Steps, NEW j \in Jobs, pc' = [pc EXCEPT ![p] = s], job' = [job EXCEPT ![p] = j],
           Control(s, j), Written(s, j, own'[p], tables)
    PROVE  Core'
<1>1. /\ pc' \in [Procs -> Steps] /\ job' \in [Procs -> Jobs]
      /\ pc'[p] = s /\ job'[p] = j /\ Alone(p)
  BY Known DEF Core, Alone
<1>2. Control(pc'[p], job'[p]) /\ Written(pc'[p], job'[p], own'[p], tables')
  BY <1>1
<1> QED
  BY <1>1, <1>2, StepOK

\* The row that a handler inserts.
LEMMA DraftFacts ==
    ASSUME Core, NEW p \in Procs, pc[p] = "insert"
    PROVE  LET d == Draft(p) IN
           /\ IsRow(d) /\ d.id = NewId
           /\ d.tab = TableOf(job[p].req.op) /\ d.key = job[p].req.key
           /\ d.from = job[p].req.from /\ d.upto = None
           /\ job[p].req.op = "create_parameter_version" => d.num = job[p].version
           /\ d.tab \notin {"links", "users", "user_identifiers"}
           /\ d.tab = "change_log" => job[p].req.op = "declare_change_event"
<1> DEFINE r == job[p].req
           d == Draft(p)
           v == IF r.op = "create_webhook" THEN "unverified" ELSE None
           n == IF r.op = "create_parameter_version" THEN job[p].version ELSE None
<1>1. /\ r \in Requests /\ r.op \in Declaring /\ job[p].version \in Nat
      /\ r.op = "create_parameter_version" => job[p].version # 0
  BY Known DEF Control, Jobs
<1>2. NewId \in Nat \ {0}
  BY NewIdIsNew DEF Core, Db
<1>3. /\ TableOf(r.op) \notin {"links", "users", "user_identifiers"}
      /\ TableOf(r.op) = "parameter_sets" <=> r.op = "create_parameter_version"
      /\ TableOf(r.op) = "deployment_licenses" <=> r.op = "declare_license"
      /\ TableOf(r.op) = "change_log" <=> r.op = "declare_change_event"
  BY <1>1 DEF TableOf, Declaring
<1>4. r.op = "declare_license" => r.key # None /\ r.from \in Int
  BY <1>1, RequestFacts
<1>5. d = [id |-> NewId, tab |-> TableOf(r.op), key |-> r.key, val |-> v, num |-> n,
           from |-> r.from, upto |-> None]
  BY DEF Draft, Row
<1> HIDE DEF d, r, v
<1>6. /\ d.id = NewId /\ d.tab = TableOf(r.op) /\ d.key = r.key /\ d.val = v /\ d.num = n
      /\ d.from = r.from /\ d.upto = None
  BY <1>5
<1>7. d = [id |-> d.id, tab |-> d.tab, key |-> d.key, val |-> d.val, num |-> d.num,
           from |-> d.from, upto |-> d.upto]
  BY <1>5, <1>6
<1>8. IsRow(d)
  BY <1>1, <1>2, <1>3, <1>4, <1>6, <1>7 DEF IsRow
<1> QED
  BY <1>1, <1>3, <1>6, <1>8 DEF d, r

\* Where a handler goes after it has written a row or a link.
LEMMA AfterInsertOK ==
    ASSUME NEW p \in Procs, NEW j \in Jobs, j.req = job[p].req, j.req \in Requests,
           j.req.op \in Declaring
    PROVE  /\ AfterInsert(p, j.pos) \in {"commit", "licensed", "link"}
           /\ Control(AfterInsert(p, j.pos), j)
           /\ AfterInsert(p, j.pos) = "commit" => j.pos > Len(j.req.list)
<1>1. Len(j.req.list) \in Nat /\ j.pos \in Nat \ {0}
  BY RequestFacts DEF Jobs
<1>2. j.req.op # "upsert_roster"
  BY DEF Declaring
<1>3. CASE j.pos > Len(j.req.list)
  <2>1. AfterInsert(p, j.pos) = "commit"
    BY <1>3 DEF AfterInsert
  <2>2. Control("commit", j)
    BY <1>2 DEF Control
  <2> QED
    BY <1>3, <2>1, <2>2
<1>4. CASE j.pos <= Len(j.req.list) /\ j.req.op = "declare_license"
  <2>1. AfterInsert(p, j.pos) = "licensed"
    BY <1>1, <1>4 DEF AfterInsert
  <2>2. Control("licensed", j)
    BY <1>1, <1>4 DEF Control
  <2> QED
    BY <2>1, <2>2
<1>5. CASE j.pos <= Len(j.req.list) /\ j.req.op # "declare_license"
  <2>1. AfterInsert(p, j.pos) = "link"
    BY <1>1, <1>5 DEF AfterInsert
  <2>2. Control("link", j)
    BY <1>1, <1>5 DEF Control
  <2> QED
    BY <2>1, <2>2
<1> QED
  BY <1>1, <1>3, <1>4, <1>5

\* INSERT of the handler.
LEMMA InsertOK == ASSUME Core, NEW p \in Procs, Insert(p) PROVE Core'
<1> DEFINE d == Draft(p)
           j == [job[p] EXCEPT !.id = d.id]
           s == IF d.tab = "change_log" /\ job[p].target # None THEN "supersede"
                ELSE AfterInsert(p, 1)
<1>1. /\ pc[p] = "insert" /\ workload' = workload /\ Holders(p, d) = {}
      /\ job[p].req \in Requests /\ job[p].req.op \in Declaring /\ job[p].pos = 1
  BY Known DEF Insert, Step, WaitsFor, Control
<1>2. CASE Fail(p, "TF-SRV-001", None)
  <2>1. "TF-SRV-001" \in Codes /\ pc[p] # "idle"
    BY <1>1 DEF Codes
  <2> QED
    BY <1>1, <1>2, <2>1, FailPlainOK, Zenon
<1>3. CASE ~Taken(p, d) /\ Wrote(p, d, s) /\ job' = [job EXCEPT ![p].id = d.id] /\ UNCHANGED tables
  <2>1. /\ IsRow(d) /\ d.id = NewId
        /\ d.tab = TableOf(job[p].req.op) /\ d.key = job[p].req.key
        /\ d.from = job[p].req.from /\ d.upto = None
        /\ job[p].req.op = "create_parameter_version" => d.num = job[p].version
        /\ d.tab \notin {"links", "users", "user_identifiers"}
        /\ d.tab = "change_log" => job[p].req.op = "declare_change_event"
    BY <1>1, DraftFacts
  <2>2. own' = [own EXCEPT ![p] = {t \in @ : t.id # d.id} \cup {d}]
    BY <1>3 DEF Wrote
  <2>3. Db' /\ own'[p] = own[p] \cup {d}
    <3> HIDE DEF d, j, s
    <3>1. \A q \in Procs \ {p} : \A t \in Locked(q) : ~Clash(d, t)
      BY <1>1, NoHolder
    <3> QED
      BY <1>3, <2>1, <2>2, <3>1, DbInsert DEF Core
  <2>4. d.id \in Nat /\ d.id \notin Ids(tables)
    <3>1. /\ NewId \in Nat /\ \A r \in tables : r.id < NewId /\ r.id \in Nat
      BY NewIdIsNew DEF Core, Db, RowsOK, IsRow
    <3> QED
      BY <2>1, <3>1 DEF Ids
  <2>5. /\ j \in Jobs /\ j.req = job[p].req /\ j.pos = 1 /\ j.id = d.id /\ j.version = job[p].version
        /\ j.target = job[p].target
    <3> HIDE DEF d
    <3> QED
      BY <1>1, <2>4, Known DEF Jobs
  <2>6. job' = [job EXCEPT ![p] = j] /\ pc' = [pc EXCEPT ![p] = s]
    BY <1>3 DEF Wrote, Goto
  <2> HIDE DEF d, j
  <2>7. s \in Steps /\ Control(s, j)
    <3>1. /\ AfterInsert(p, 1) \in {"commit", "licensed", "link"}
          /\ Control(AfterInsert(p, 1), j)
      BY <1>1, <2>5, AfterInsertOK
    <3>2. d.tab = "change_log" => Control("supersede", j)
      BY <1>1, <2>1, <2>5 DEF Control
    <3> QED
      BY <3>1, <3>2 DEF Steps
  <2>8. own[p] = {} \/ \E c : own[p] = {c} /\ Closes(j, c, tables)
    <3>1. own[p] = {} \/ \E c : own[p] = {c} /\ Closes(job[p], c, tables)
      BY <1>1, Known DEF Written
    <3> QED
      BY <2>5, <3>1 DEF Closes
  <2>9. \A r \in own'[p] : r = d \/ Closes(j, r, tables)
    BY <2>3, <2>8
  <2>10. Declared(j, own'[p], tables)
    <3>1. d \in own'[p]
      BY <2>3
    <3> QED
      BY <2>1, <2>4, <2>5, <2>9, <3>1 DEF Declared
  <2>11. LinksIn(own'[p]) = {}
    BY <2>1, <2>9 DEF LinksIn, Closes
  <2>12. IsFiniteSet(LinksIn(own'[p])) /\ Cardinality(LinksIn(own'[p])) = 0
    BY <2>11, FS_EmptySet
  <2>13. s = "commit" => Len(j.req.list) = 0
    <3>1. Len(j.req.list) \in Nat
      BY <1>1, <2>5, RequestFacts
    <3>2. AfterInsert(p, 1) = "commit" => 1 > Len(j.req.list)
      BY <1>1, <2>5, AfterInsertOK
    <3> QED
      BY <3>1, <3>2
  <2>14. s \in {"supersede", "commit", "licensed", "link"}
    BY <1>1, <2>5, AfterInsertOK
  <2> HIDE DEF s
  <2>15. Written(s, j, own'[p], tables)
    BY <1>1, <2>5, <2>10, <2>11, <2>12, <2>13, <2>14 DEF Written, Reading, Declaring, Keyed
  <2>16. own' = [own EXCEPT ![p] = {t \in own[p] : t.id # d.id} \cup {d}]
    BY <2>2
  <2> QED
    BY <1>1, <1>3, <2>3, <2>5, <2>6, <2>7, <2>15, <2>16, WriteOK
<1> QED
  BY <1>2, <1>3 DEF Insert

\* A link is inserted: its entries belong to a row that nobody else sees.
LEMMA LinkInserted ==
    ASSUME Core, NEW p \in Procs, pc[p] \in {"link", "licensed"}, NEW l, NEW ref,
           l = Row(NewId, "links", ref, None, job[p].id, None), ~Taken(p, l), UNCHANGED tables,
           own' = [own EXCEPT ![p] = {s \in @ : s.id # l.id} \cup {l}]
    PROVE  /\ Db' /\ own'[p] = own[p] \cup {l}
           /\ Declared(job[p], own'[p], tables)
           /\ LinksIn(own'[p]) = LinksIn(own[p]) \cup {l} /\ l \notin LinksIn(own[p])
<1>1. PICK d \in own[p] :
        /\ d.id = job[p].id /\ d.id \notin Ids(tables)
        /\ d.tab = TableOf(job[p].req.op) /\ d.key = job[p].req.key
        /\ d.from = job[p].req.from /\ d.upto = None
        /\ job[p].req.op = "create_parameter_version" => d.num = job[p].version
        /\ \A r \in own[p] : \/ r = d
                             \/ r.tab = "links" /\ r.num = d.id
                             \/ r.tab = "change_log" /\ job[p].req.op = "declare_change_event"
                             \/ Closes(job[p], r, tables)
  BY Known DEF Written, Declared
<1>2. l.id = NewId /\ l.tab = "links" /\ l.num = d.id /\ d.id \in Nat
  BY <1>1 DEF Row, Core, Db, RowsOK, IsRow
<1>3. NewId \in Nat \ {0} /\ \A s \in own[p] : s.id \in Nat /\ s.id < NewId
  BY NewIdIsNew DEF Core, Db, RowsOK, IsRow
<1>4. IsRow(l)
  <2>1. l = [id |-> l.id, tab |-> l.tab, key |-> l.key, val |-> l.val, num |-> l.num,
             from |-> l.from, upto |-> l.upto]
    BY DEF Row
  <2> QED
    BY <1>2, <1>3, <2>1 DEF IsRow
<1>5. l.num \in Ids(own[p]) \ Ids(tables)
  BY <1>1, <1>2 DEF Ids
<1>6. \A q \in Procs \ {p} : \A s \in Locked(q) : ~Clash(l, s)
  <2> SUFFICES ASSUME NEW q \in Procs \ {p}, NEW s \in Locked(q), Clash(l, s) PROVE FALSE
    OBVIOUS
  <2>1. s.tab = "links" /\ s.num = d.id
    BY <1>2, LinkEntries
  <2>2. CASE s \in tables
    BY <1>1, <2>1, <2>2 DEF Core, Db, RefsOK
  <2>3. CASE s \in own[q]
    <3>1. PICK r \in own[q] : r.id = d.id
      BY <2>1, <2>3 DEF Core, Db, RefsOK, Ids
    <3> QED
      BY <3>1 DEF Core, Db, IdsOK
  <2> QED
    BY <2>2, <2>3 DEF Locked
<1>7. Db' /\ own'[p] = own[p] \cup {l}
  BY <1>2, <1>4, <1>5, <1>6, DbInsert DEF Core
<1>8. l \notin own[p]
  BY <1>2, <1>3
<1>9. Declared(job[p], own'[p], tables)
  <2>1. d \in own'[p]
    BY <1>7
  <2>2. \A r \in own'[p] : \/ r = d
                           \/ r.tab = "links" /\ r.num = d.id
                           \/ r.tab = "change_log" /\ job[p].req.op = "declare_change_event"
                           \/ Closes(job[p], r, tables)
    BY <1>1, <1>2, <1>7
  <2> QED
    BY <1>1, <2>1, <2>2 DEF Declared
<1> QED
  BY <1>2, <1>7, <1>8, <1>9 DEF LinksIn

\* The next link, or COMMIT.
LEMMA NextLink ==
    ASSUME Core, NEW p \in Procs, pc[p] \in {"link", "licensed"},
           NEW j, j = [job[p] EXCEPT !.pos = @ + 1], NEW o, Declared(job[p], o, tables),
           pc[p] = "link" => IsFiniteSet(LinksIn(o)) /\ Cardinality(LinksIn(o)) = job[p].pos
    PROVE  LET s == AfterInsert(p, job[p].pos + 1) IN
           j \in Jobs /\ s \in Steps /\ Control(s, j) /\ Written(s, j, o, tables)
<1>1. /\ job[p] \in Jobs /\ job[p].req \in Requests /\ job[p].req.op \in Declaring
      /\ job[p].pos \in 1..Len(job[p].req.list)
      /\ pc[p] = "licensed" => job[p].req.op = "declare_license"
      /\ pc[p] = "link" => job[p].req.op # "declare_license"
  BY Known DEF Control, Declaring
<1>2. /\ j \in Jobs /\ j.req = job[p].req /\ j.pos = job[p].pos + 1 /\ j.id = job[p].id
      /\ j.version = job[p].version
  BY <1>1 DEF Jobs
<1> DEFINE s == AfterInsert(p, job[p].pos + 1)
<1>3. Declared(j, o, tables)
  BY <1>2 DEF Declared, Closes
<1>4. /\ s \in {"commit", "licensed", "link"} /\ Control(s, j)
      /\ s = "commit" => j.pos > Len(j.req.list)
  BY <1>1, <1>2, AfterInsertOK
<1>5. s = "licensed" => job[p].req.op = "declare_license"
  BY <1>4, <1>2 DEF Control
<1>6. s = "link" => job[p].req.op # "declare_license"
  BY <1>4, <1>2 DEF Control
<1>7. Len(j.req.list) \in Nat /\ job[p].pos \in Nat
  BY <1>1, <1>2, RequestFacts DEF Jobs
<1> HIDE DEF s
<1>8. s = "commit" => Len(j.req.list) = job[p].pos
  BY <1>1, <1>2, <1>4, <1>7
<1>9. Written(s, j, o, tables)
  BY <1>1, <1>2, <1>3, <1>4, <1>5, <1>6, <1>7, <1>8 DEF Written, Reading, Keyed, Declaring
<1>10. s \in Steps
  BY <1>4 DEF Steps
<1> QED
  BY <1>2, <1>4, <1>9, <1>10 DEF s

\* service_user_refs, deployment_refs
LEMMA LinkOK == ASSUME Core, NEW p \in Procs, Link(p) PROVE Core'
<1> DEFINE ref == job[p].req.list[job[p].pos]
           l == Row(NewId, "links", ref, None, job[p].id, None)
           j == [job[p] EXCEPT !.pos = @ + 1]
           s == AfterInsert(p, job[p].pos + 1)
<1>1. pc[p] = "link" /\ workload' = workload
  BY DEF Link, Step
<1>2. CASE Fail(p, IF job[p].req.op = "declare_change_event" THEN "TF-EVT-002" ELSE "TF-CFG-007", None)
  <2>1. (IF job[p].req.op = "declare_change_event" THEN "TF-EVT-002" ELSE "TF-CFG-007") \in Codes
    BY DEF Codes
  <2>2. pc[p] # "idle"
    BY <1>1
  <2> QED
    BY <1>1, <1>2, <2>1, <2>2, FailPlainOK, Zenon
<1>5. CASE Fail(p, "TF-AUTH-002", None)
  <2>1. "TF-AUTH-002" \in Codes /\ pc[p] # "idle"
    BY <1>1 DEF Codes
  <2> QED
    BY <1>1, <1>5, <2>1, FailPlainOK, Zenon
<1>3. CASE Fail(p, "TF-SRV-001", None)
  <2>1. "TF-SRV-001" \in Codes /\ pc[p] # "idle"
    BY <1>1 DEF Codes
  <2> QED
    BY <1>1, <1>3, <2>1, FailPlainOK, Zenon
<1>4. CASE ~Taken(p, l) /\ Wrote(p, l, s) /\ job' = [job EXCEPT ![p].pos = @ + 1] /\ UNCHANGED tables
  <2>1. /\ own' = [own EXCEPT ![p] = {t \in @ : t.id # l.id} \cup {l}]
        /\ own' = [own EXCEPT ![p] = {t \in own[p] : t.id # l.id} \cup {l}]
        /\ pc' = [pc EXCEPT ![p] = s] /\ job' = [job EXCEPT ![p] = j]
    BY <1>4 DEF Wrote, Goto
  <2>2. /\ Db' /\ Declared(job[p], own'[p], tables)
        /\ LinksIn(own'[p]) = LinksIn(own[p]) \cup {l} /\ l \notin LinksIn(own[p])
    <3>1. PICK x : x = l
      OBVIOUS
    <3> HIDE DEF l, ref
    <3> QED
      BY <1>1, <1>4, <2>1, LinkInserted DEF l
  <2>3. IsFiniteSet(LinksIn(own[p])) /\ Cardinality(LinksIn(own[p])) = job[p].pos - 1
    BY <1>1, Known DEF Written
  <2>4. IsFiniteSet(LinksIn(own'[p])) /\ Cardinality(LinksIn(own'[p])) = job[p].pos
    <3> HIDE DEF l
    <3>1. job[p].pos \in Nat
      BY Known DEF Jobs
    <3>2. /\ IsFiniteSet(LinksIn(own[p]) \cup {l})
          /\ Cardinality(LinksIn(own[p]) \cup {l}) = Cardinality(LinksIn(own[p])) + 1
      BY <2>2, <2>3, FS_AddElement
    <3> QED
      BY <2>2, <2>3, <3>1, <3>2
  <2>5. j \in Jobs /\ s \in Steps /\ Control(s, j) /\ Written(s, j, own'[p], tables)
    <3> HIDE DEF j
    <3> QED
      BY <1>1, <2>2, <2>4, NextLink DEF j
  <2> HIDE DEF l, j, s
  <2> QED
    BY <1>1, <1>4, <2>1, <2>2, <2>5, WriteOK
<1> QED
  BY <1>2, <1>3, <1>4, <1>5 DEF Link

\* licensed_user_refs
LEMMA LinkLicensedOK == ASSUME Core, NEW p \in Procs, LinkLicensed(p) PROVE Core'
<1> DEFINE ref == job[p].req.list[job[p].pos]
           l == Row(NewId, "links", ref, None, job[p].id, None)
           j == [job[p] EXCEPT !.pos = @ + 1]
           s == AfterInsert(p, job[p].pos + 1)
<1>1. /\ pc[p] = "licensed" /\ workload' = workload /\ UNCHANGED tables
      /\ job' = [job EXCEPT ![p] = j] /\ pc' = [pc EXCEPT ![p] = s]
  BY DEF LinkLicensed, Step, Wrote, Goto
<1>2. CASE UNCHANGED own
  <2>1. Declared(job[p], own[p], tables)
    BY <1>1, Known DEF Written
  <2>2. j \in Jobs /\ s \in Steps /\ Control(s, j) /\ Written(s, j, own[p], tables)
    <3> HIDE DEF j
    <3> QED
      BY <1>1, <2>1, NextLink DEF j
  <2> HIDE DEF j, s
  <2> QED
    BY <1>1, <1>2, <2>2, QuietOK
<1>3. CASE ~Taken(p, l) /\ Wrote(p, l, s)
  <2>1. /\ own' = [own EXCEPT ![p] = {t \in @ : t.id # l.id} \cup {l}]
        /\ own' = [own EXCEPT ![p] = {t \in own[p] : t.id # l.id} \cup {l}]
    BY <1>3 DEF Wrote
  <2>2. Db' /\ Declared(job[p], own'[p], tables)
    <3> HIDE DEF l, ref
    <3> QED
      BY <1>1, <1>3, <2>1, LinkInserted DEF l
  <2>3. j \in Jobs /\ s \in Steps /\ Control(s, j) /\ Written(s, j, own'[p], tables)
    <3> HIDE DEF j
    <3> QED
      BY <1>1, <2>2, NextLink DEF j
  <2> HIDE DEF l, j, s
  <2> QED
    BY <1>1, <2>1, <2>2, <2>3, WriteOK
<1> QED
  BY <1>2, <1>3 DEF LinkLicensed

\* UPDATE change_log SET superseded_by_id
LEMMA SupersedeOK == ASSUME Core, NEW p \in Procs, Supersede(p) PROVE Core'
<1>1. /\ pc[p] = "supersede" /\ workload' = workload /\ Lockers(p, job[p].target) = {}
      /\ job[p] \in Jobs /\ job[p].req \in Requests /\ job[p].req.op = "declare_change_event"
      /\ job[p].pos = 1
  BY Known DEF Supersede, Step, WaitsFor, Control
<1>2. CASE Fail(p, "TF-CFG-007", None)
  <2>1. "TF-CFG-007" \in Codes /\ pc[p] # "idle"
    BY <1>1 DEF Codes
  <2> QED
    BY <1>1, <1>2, <2>1, FailPlainOK, Zenon
<1>3. CASE \E old \in View(p) :
                /\ old.tab = "change_log" /\ old.id = job[p].target
                /\ Wrote(p, [old EXCEPT !.num = job[p].id], AfterInsert(p, 1))
                /\ UNCHANGED <<tables, job>>
  <2>1. PICK old \in View(p) :
                /\ old.tab = "change_log" /\ old.id = job[p].target
                /\ Wrote(p, [old EXCEPT !.num = job[p].id], AfterInsert(p, 1))
                /\ UNCHANGED <<tables, job>>
    BY <1>3
  <2> DEFINE r == [old EXCEPT !.num = job[p].id]
             s == AfterInsert(p, 1)
  <2>2. IsRow(old)
    BY DEF View, Core, Db, RowsOK
  <2>3. r = [id |-> old.id, tab |-> old.tab, key |-> old.key, val |-> old.val, num |-> job[p].id,
             from |-> old.from, upto |-> old.upto]
    BY <2>2 DEF IsRow
  <2>4. /\ own' = [own EXCEPT ![p] = {t \in @ : t.id # r.id} \cup {r}]
        /\ own' = [own EXCEPT ![p] = {t \in own[p] : t.id # r.id} \cup {r}]
        /\ pc' = [pc EXCEPT ![p] = s] /\ job' = [job EXCEPT ![p] = job[p]]
    BY <2>1 DEF Wrote, Goto, Core
  <2> HIDE DEF r
  <2>5. /\ r.id = old.id /\ r.tab = "change_log" /\ r.key = old.key /\ r.from = old.from
        /\ r.upto = old.upto /\ Follows(old, r) /\ IsRow(r)
    <3>1. /\ r.id = old.id /\ r.tab = "change_log" /\ r.key = old.key /\ r.val = old.val
          /\ r.from = old.from /\ r.upto = old.upto
      BY <2>1, <2>3
    <3> QED
      BY <2>1, <2>2, <2>3, <3>1 DEF Follows, IsRow
  <2>6. Entries(r) \subseteq Entries(old)
    BY <2>5, EntriesHad
  <2>7. Db' /\ own'[p] = (own[p] \ {old}) \cup {r}
    BY <1>1, <2>1, <2>4, <2>5, <2>6, DbUpdate DEF Core
  <2>8. Declared(job[p], own'[p], tables)
    <3>1. PICK d \in own[p] :
            /\ d.id = job[p].id /\ d.id \notin Ids(tables)
            /\ d.tab = TableOf(job[p].req.op) /\ d.key = job[p].req.key
            /\ d.from = job[p].req.from /\ d.upto = None
            /\ \A t \in own[p] : \/ t = d
                                 \/ t.tab = "links" /\ t.num = d.id
                                 \/ t.tab = "change_log" /\ job[p].req.op = "declare_change_event"
                                 \/ Closes(job[p], t, tables)
      BY <1>1, Known DEF Written, Declared
    <3>2. CASE old = d
      <4>1. /\ r \in own'[p] /\ r.id = job[p].id /\ r.id \notin Ids(tables)
            /\ r.tab = TableOf(job[p].req.op) /\ r.key = job[p].req.key
            /\ r.from = job[p].req.from /\ r.upto = None
        BY <2>5, <2>7, <3>1, <3>2 DEF Follows
      <4>2. \A t \in own'[p] : \/ t = r
                               \/ t.tab = "links" /\ t.num = r.id
                               \/ t.tab = "change_log" /\ job[p].req.op = "declare_change_event"
                               \/ Closes(job[p], t, tables)
        BY <2>5, <2>7, <3>1, <3>2
      <4>3. job[p].req.op # "create_parameter_version"
        BY <1>1
      <4> QED
        BY <4>1, <4>2, <4>3 DEF Declared
    <3>3. CASE old # d
      BY <1>1, <2>5, <2>7, <3>1, <3>3 DEF Declared
    <3> QED
      BY <3>2, <3>3
  <2>9. LinksIn(own'[p]) = {}
    <3>1. LinksIn(own[p]) = {}
      BY <1>1, Known DEF Written
    <3> QED
      BY <2>5, <2>7, <3>1 DEF LinksIn
  <2>10. IsFiniteSet(LinksIn(own'[p])) /\ Cardinality(LinksIn(own'[p])) = 0
    BY <2>9, FS_EmptySet
  <2>11. /\ s \in {"commit", "licensed", "link"} /\ Control(s, job[p])
    BY <1>1, AfterInsertOK DEF Declaring
  <2> HIDE DEF s
  <2>12. Written(s, job[p], own'[p], tables)
    BY <1>1, <2>8, <2>10, <2>11 DEF Written, Reading, Declaring, Keyed
  <2>13. s \in Steps
    BY <2>11 DEF Steps
  <2> QED
    BY <1>1, <2>1, <2>4, <2>7, <2>11, <2>12, <2>13, WriteOK
<1> QED
  BY <1>2, <1>3 DEF Supersede, In

\* UPDATE of a name, a status or a kind.
LEMMA ValUpdated ==
    ASSUME NEW old, IsRow(old), PlainTab(old.tab), NEW v, NEW r, r = [old EXCEPT !.val = v]
    PROVE  /\ r.id = old.id /\ r.tab = old.tab /\ r.key = old.key /\ r.num = old.num
           /\ IsRow(r) /\ Follows(old, r) /\ Entries(r) = Entries(old)
<1>1. r = [id |-> old.id, tab |-> old.tab, key |-> old.key, val |-> v, num |-> old.num,
           from |-> old.from, upto |-> old.upto]
  BY DEF IsRow
<1>2. /\ r.id = old.id /\ r.tab = old.tab /\ r.key = old.key /\ r.val = v /\ r.num = old.num
      /\ r.from = old.from /\ r.upto = old.upto
  BY <1>1
<1>3. IsRow(r)
  BY <1>1, <1>2 DEF IsRow
<1> QED
  BY <1>2, <1>3, EntriesKept DEF Follows

\* UPDATE of the end of a license.
LEMMA UptoUpdated ==
    ASSUME NEW old, IsRow(old), old.tab = "deployment_licenses", old.upto = None,
           NEW v \in Int, NEW r, r = [old EXCEPT !.upto = v]
    PROVE  /\ r.id = old.id /\ r.tab = old.tab /\ r.key = old.key /\ r.from = old.from /\ r.upto = v
           /\ IsRow(r) /\ Follows(old, r) /\ Entries(r) = {}
<1>1. r = [id |-> old.id, tab |-> old.tab, key |-> old.key, val |-> old.val, num |-> old.num,
           from |-> old.from, upto |-> v]
  BY DEF IsRow
<1>2. /\ r.id = old.id /\ r.tab = old.tab /\ r.key = old.key /\ r.val = old.val /\ r.num = old.num
      /\ r.from = old.from /\ r.upto = v /\ v # None
  BY <1>1, ConfigAssumption
<1>3. IsRow(r)
  BY <1>1, <1>2 DEF IsRow
<1> QED
  BY <1>2, <1>3, EntriesHad DEF Follows

\* UPDATE deployment_licenses SET valid_to
LEMMA CloseCurrentOK == ASSUME Core, NEW p \in Procs, CloseCurrent(p) PROVE Core'
<1> DEFINE old == CHOOSE s \in View(p) : s.id = job[p].target
           from == job[p].req.from
           r == [old EXCEPT !.upto = from]
<1>1. /\ pc[p] = "close" /\ workload' = workload /\ Lockers(p, job[p].target) = {}
      /\ job[p] \in Jobs /\ job[p].req \in Requests /\ job[p].req.op = "declare_license"
      /\ own[p] = {} /\ View(p) = tables
  BY Known DEF CloseCurrent, Step, WaitsFor, Control, Reading
<1>2. Control("insert", job[p]) /\ "insert" \in Steps
  BY <1>1, Known DEF Control, Declaring, Steps
<1>3. CASE Goto(p, "insert") /\ UNCHANGED <<tables, own, job>>
  <2>1. Written("insert", job[p], own[p], tables)
    BY <1>1 DEF Written, Reading
  <2>2. pc' = [pc EXCEPT ![p] = "insert"] /\ job' = [job EXCEPT ![p] = job[p]]
    BY <1>3 DEF Goto, Core
  <2> QED
    BY <1>1, <1>2, <1>3, <2>1, <2>2, QuietOK
<1>4. CASE Fail(p, "TF-SRV-001", None)
  <2>1. "TF-SRV-001" \in Codes /\ pc[p] # "idle"
    BY <1>1 DEF Codes
  <2> QED
    BY <1>1, <1>4, <2>1, FailPlainOK, Zenon
<1>5. CASE old.upto = None /\ from >= old.from /\ Wrote(p, r, "insert") /\ UNCHANGED <<tables, job>>
  <2>1. /\ old \in tables /\ old.id = job[p].target /\ IsRow(old)
        /\ old.tab = "deployment_licenses" /\ old.key = job[p].req.key
    <3>1. PICK t \in tables : /\ t.id = job[p].target /\ t.tab = "deployment_licenses"
                              /\ t.key = job[p].req.key
      BY <1>1, Known DEF Written
    <3>2. old \in tables /\ old.id = job[p].target
      BY <1>1, <3>1
    <3> QED
      BY <3>1, <3>2 DEF Core, Db, IdsOK, RowsOK
  <2>2. from \in Int
    BY <1>1, RequestFacts
  <2>3. /\ own' = [own EXCEPT ![p] = {t \in @ : t.id # r.id} \cup {r}]
        /\ own' = [own EXCEPT ![p] = {t \in own[p] : t.id # r.id} \cup {r}]
        /\ pc' = [pc EXCEPT ![p] = "insert"] /\ job' = [job EXCEPT ![p] = job[p]]
    BY <1>5 DEF Wrote, Goto, Core
  <2>4. /\ r.id = old.id /\ r.tab = old.tab /\ r.key = old.key /\ r.from = old.from /\ r.upto = from
        /\ IsRow(r) /\ Follows(old, r) /\ Entries(r) = {}
    <3> HIDE DEF old, r, from
    <3> QED
      BY <1>5, <2>1, <2>2, UptoUpdated DEF r
  <2> HIDE DEF old, r
  <2>a. /\ Db /\ old \in View(p) /\ Lockers(p, old.id) = {} /\ UNCHANGED tables
        /\ Entries(r) \subseteq Entries(old) /\ old.tab \notin {"links", "user_identifiers"}
    BY <1>1, <1>5, <2>1, <2>4 DEF Core
  <2>5. Db' /\ own'[p] = (own[p] \ {old}) \cup {r}
    BY <2>a, <2>3, <2>4, DbUpdate
  <2>6. own'[p] = {r}
    BY <1>1, <2>5
  <2>7. Closes(job[p], r, tables)
    <3>1. old.from \in Int
      BY <2>1 DEF IsRow
    <3> QED
      BY <1>1, <1>5, <2>1, <2>2, <2>4, <3>1 DEF Closes
  <2>8. Written("insert", job[p], own'[p], tables)
    BY <2>6, <2>7 DEF Written, Reading
  <2> QED
    BY <1>1, <1>2, <1>5, <2>3, <2>5, <2>8, WriteOK
<1> QED
  BY <1>3, <1>4, <1>5 DEF CloseCurrent

\* UPDATE webhooks SET webhook_status='deleted'
LEMMA DeleteWebhookOK == ASSUME Core, NEW p \in Procs, DeleteWebhook(p) PROVE Core'
<1>1. /\ pc[p] = "delete" /\ workload' = workload /\ Lockers(p, job[p].target) = {}
      /\ job[p] \in Jobs /\ job[p].req \in Requests /\ job[p].req.op = "delete_webhook"
      /\ own[p] = {} /\ View(p) = tables
  BY Known DEF DeleteWebhook, Step, WaitsFor, Control, Reading
<1>2. CASE Fail(p, "TF-READ-001", None)
  <2>1. "TF-READ-001" \in Codes /\ pc[p] # "idle"
    BY <1>1 DEF Codes
  <2> QED
    BY <1>1, <1>2, <2>1, FailPlainOK, Zenon
<1>3. CASE \E old \in View(p) :
                /\ old.tab = "webhooks" /\ old.id = job[p].target
                /\ Wrote(p, [old EXCEPT !.val = "deleted"], "commit")
                /\ job' = [job EXCEPT ![p].id = old.id]
                /\ UNCHANGED tables
  <2>1. PICK old \in View(p) :
                /\ old.tab = "webhooks" /\ old.id = job[p].target
                /\ Wrote(p, [old EXCEPT !.val = "deleted"], "commit")
                /\ job' = [job EXCEPT ![p].id = old.id]
                /\ UNCHANGED tables
    BY <1>3
  <2> DEFINE r == [old EXCEPT !.val = "deleted"]
             j == [job[p] EXCEPT !.id = old.id]
  <2>2. IsRow(old) /\ PlainTab(old.tab)
    BY <2>1 DEF View, Core, Db, RowsOK, PlainTab
  <2>3. /\ own' = [own EXCEPT ![p] = {t \in @ : t.id # r.id} \cup {r}]
        /\ own' = [own EXCEPT ![p] = {t \in own[p] : t.id # r.id} \cup {r}]
        /\ pc' = [pc EXCEPT ![p] = "commit"] /\ job' = [job EXCEPT ![p] = j]
    BY <2>1 DEF Wrote, Goto
  <2>4. /\ r.id = old.id /\ r.tab = old.tab
        /\ IsRow(r) /\ Follows(old, r) /\ Entries(r) = Entries(old)
    <3> HIDE DEF r
    <3> QED
      BY <2>2, ValUpdated DEF r
  <2>5. j \in Jobs /\ j.req = job[p].req
    BY <1>1, <2>2 DEF Jobs, IsRow
  <2> HIDE DEF r, j
  <2>a. /\ Db /\ old \in View(p) /\ Lockers(p, old.id) = {} /\ UNCHANGED tables
        /\ Entries(r) \subseteq Entries(old) /\ old.tab \notin {"links", "user_identifiers"}
    BY <1>1, <2>1, <2>4 DEF Core
  <2>6. Db' /\ own'[p] = (own[p] \ {old}) \cup {r}
    BY <2>a, <2>3, <2>4, DbUpdate
  <2>7. Written("commit", j, own'[p], tables)
    BY <1>1, <2>1, <2>4, <2>5, <2>6 DEF Written, Reading, Declaring, Keyed
  <2>8. Control("commit", j) /\ "commit" \in Steps
    BY <1>1, <2>5 DEF Control, Steps
  <2> QED
    BY <1>1, <2>1, <2>3, <2>5, <2>6, <2>7, <2>8, WriteOK
<1> QED
  BY <1>2, <1>3 DEF DeleteWebhook, In

\* UPDATE deployments SET name
LEMMA RenameOK == ASSUME Core, NEW p \in Procs, Rename(p) PROVE Core'
<1> DEFINE old == CHOOSE s \in View(p) : s.id = job[p].target
           r == [old EXCEPT !.val = "renamed"]
<1>1. /\ pc[p] = "rename" /\ workload' = workload /\ Lockers(p, job[p].target) = {}
      /\ job[p] \in Jobs /\ job[p].req \in Requests /\ job[p].req.op = "update_deployment"
      /\ own[p] = {} /\ View(p) = tables
  BY Known DEF Rename, Step, WaitsFor, Control, Reading
<1>2. Wrote(p, r, "commit") /\ UNCHANGED <<tables, job>>
  BY DEF Rename
<1>3. /\ old \in tables /\ old.id = job[p].target /\ IsRow(old)
      /\ old.tab = "deployments" /\ PlainTab(old.tab)
  <2>1. PICK t \in tables : t.id = job[p].target /\ t.tab = "deployments"
    BY <1>1, Known DEF Written
  <2>2. old \in tables /\ old.id = job[p].target
    BY <1>1, <2>1
  <2> QED
    BY <2>1, <2>2 DEF Core, Db, IdsOK, RowsOK, PlainTab
<1>4. /\ own' = [own EXCEPT ![p] = {t \in @ : t.id # r.id} \cup {r}]
      /\ own' = [own EXCEPT ![p] = {t \in own[p] : t.id # r.id} \cup {r}]
      /\ pc' = [pc EXCEPT ![p] = "commit"] /\ job' = [job EXCEPT ![p] = job[p]]
  BY <1>2 DEF Wrote, Goto, Core
<1>5. /\ r.id = old.id /\ r.tab = old.tab
      /\ IsRow(r) /\ Follows(old, r) /\ Entries(r) = Entries(old)
  <2> HIDE DEF old, r
  <2> QED
    BY <1>3, ValUpdated DEF r
<1> HIDE DEF old, r
<1>a. /\ Db /\ old \in View(p) /\ Lockers(p, old.id) = {} /\ UNCHANGED tables
      /\ Entries(r) \subseteq Entries(old) /\ old.tab \notin {"links", "user_identifiers"}
  BY <1>1, <1>2, <1>3, <1>5 DEF Core
<1>6. Db' /\ own'[p] = (own[p] \ {old}) \cup {r}
  BY <1>a, <1>4, <1>5, DbUpdate
<1>7. Written("commit", job[p], own'[p], tables)
  BY <1>1, <1>3, <1>5, <1>6 DEF Written, Reading, Declaring, Keyed
<1>8. Control("commit", job[p]) /\ "commit" \in Steps
  BY <1>1 DEF Control, Steps
<1> QED
  BY <1>1, <1>2, <1>4, <1>6, <1>7, <1>8, WriteOK

-------------------------------------------------------------------------------
(* The roster, and COMMIT *)

\* The entry that a roster request is at.
LEMMA ItemFacts ==
    ASSUME Core, NEW p \in Procs, pc[p] # "idle", job[p].req.op = "upsert_roster",
           job[p].item \in 1..Len(job[p].req.list)
    PROVE  /\ Item(p) = job[p].req.list[job[p].item]
           /\ Item(p) \in RosterEntries /\ Item(p).user # None
           /\ Len(Item(p).identifiers) \in Nat
           /\ Item(p).identifiers # <<>> => Len(Item(p).identifiers) # 0
           /\ \A i \in 1..Len(Item(p).identifiers) : Item(p).identifiers[i] # None
<1>1. job[p].req \in Requests
  BY Known
<1>2. \A n \in 1..Len(job[p].req.list) :
        /\ job[p].req.list[n] \in RosterEntries
        /\ job[p].req.list[n].user # None
        /\ Len(job[p].req.list[n].identifiers) \in Nat
        /\ job[p].req.list[n].identifiers # <<>> => Len(job[p].req.list[n].identifiers) # 0
        /\ \A i \in 1..Len(job[p].req.list[n].identifiers) : job[p].req.list[n].identifiers[i] # None
  BY <1>1, RequestFacts
<1> QED
  BY <1>2, Zenon DEF Item

\* On to the next entry, or to the answer: the job and the step.
LEMMA ItemEnds ==
    ASSUME Core, NEW p \in Procs, pc[p] # "idle", job[p].req.op = "upsert_roster",
           job[p].item \in 1..Len(job[p].req.list), NEW out \in Codes, EndItem(p, out)
    PROVE  \E s \in {"reply", "user"}, j \in Jobs :
              /\ pc' = [pc EXCEPT ![p] = s] /\ job' = [job EXCEPT ![p] = j]
              /\ own' = [own EXCEPT ![p] = {}]
              /\ j.req = job[p].req /\ j.version = job[p].version
              /\ j.said = job[p].said \cup {Answer(Item(p), out, job[p].id)}
              /\ Control(s, j)
<1> DEFINE last == job[p].item = Len(job[p].req.list)
           s == IF last THEN "reply" ELSE "user"
<1>1. /\ job[p] \in Jobs /\ job[p].req \in Requests /\ Len(job[p].req.list) \in Nat
      /\ Answer(Item(p), out, job[p].id) \in Said
  BY Known, ItemFacts, RequestFacts DEF Answer, Said, Jobs
<1>2. PICK j1 \in Jobs : /\ j1 = [job[p] EXCEPT !.said = @ \cup {Answer(Item(p), out, job[p].id)}]
                         /\ j1.req = job[p].req /\ j1.version = job[p].version /\ j1.item = job[p].item
                         /\ j1.said = job[p].said \cup {Answer(Item(p), out, job[p].id)}
  <2> DEFINE x == [job[p] EXCEPT !.said = @ \cup {Answer(Item(p), out, job[p].id)}]
  <2>1. /\ x \in Jobs /\ x.req = job[p].req /\ x.version = job[p].version /\ x.item = job[p].item
        /\ x.said = job[p].said \cup {Answer(Item(p), out, job[p].id)}
    BY <1>1 DEF Jobs
  <2> QED
    BY <2>1, Zenon
<1>3. PICK j2 \in Jobs : /\ j2 = [j1 EXCEPT !.item = IF last THEN @ ELSE @ + 1]
                         /\ j2.req = j1.req /\ j2.version = j1.version /\ j2.said = j1.said
                         /\ j2.item = IF last THEN j1.item ELSE j1.item + 1
  <2> DEFINE x == [j1 EXCEPT !.item = IF last THEN @ ELSE @ + 1]
  <2>1. /\ x \in Jobs /\ x.req = j1.req /\ x.version = j1.version /\ x.said = j1.said
        /\ x.item = IF last THEN j1.item ELSE j1.item + 1
    <3> HIDE DEF last
    <3> QED
      BY DEF Jobs
  <2> QED
    BY <2>1, Zenon
<1>4. PICK j3 \in Jobs : /\ j3 = [j2 EXCEPT !.pos = 1]
                         /\ j3.req = j2.req /\ j3.version = j2.version /\ j3.said = j2.said
                         /\ j3.item = j2.item /\ j3.pos = 1
  <2> DEFINE x == [j2 EXCEPT !.pos = 1]
  <2>1. /\ x \in Jobs /\ x.req = j2.req /\ x.version = j2.version /\ x.said = j2.said
        /\ x.item = j2.item /\ x.pos = 1
    BY DEF Jobs
  <2> QED
    BY <2>1, Zenon
<1>5. PICK j \in Jobs : /\ j = [j3 EXCEPT !.id = None]
                        /\ j.req = j3.req /\ j.version = j3.version /\ j.said = j3.said
                        /\ j.item = j3.item /\ j.pos = 1
  <2> DEFINE x == [j3 EXCEPT !.id = None]
  <2>1. /\ x \in Jobs /\ x.req = j3.req /\ x.version = j3.version /\ x.said = j3.said
        /\ x.item = j3.item /\ x.pos = 1
    BY <1>4 DEF Jobs
  <2> QED
    BY <2>1, Zenon
<1>6. /\ pc' = [pc EXCEPT ![p] = s] /\ own' = [own EXCEPT ![p] = {}]
      /\ job' = [job EXCEPT ![p] =
            [job[p] EXCEPT !.said = @ \cup {Answer(Item(p), out, job[p].id)},
                           !.item = IF last THEN @ ELSE @ + 1, !.pos = 1, !.id = None]]
  BY DEF EndItem, Goto
<1>7. job' = [job EXCEPT ![p] = j]
  BY <1>2, <1>3, <1>4, <1>5, <1>6, Zenon
<1>8. Control(s, j)
  <2>1. /\ j.req = job[p].req /\ j.pos = 1
        /\ j.item = IF last THEN job[p].item ELSE job[p].item + 1
    BY <1>2, <1>3, <1>4, <1>5
  <2> QED
    BY <1>1, <2>1 DEF Control
<1>9. s \in {"reply", "user"}
  OBVIOUS
<1>10. /\ j.req = job[p].req /\ j.version = job[p].version
       /\ j.said = job[p].said \cup {Answer(Item(p), out, job[p].id)}
  BY <1>2, <1>3, <1>4, <1>5
<1>11. pc' = [pc EXCEPT ![p] = s] /\ own' = [own EXCEPT ![p] = {}]
  BY <1>6
<1> HIDE DEF s
<1> QED
  BY <1>7, <1>8, <1>9, <1>10, <1>11, Zenon

\* INSERT INTO users ... ON CONFLICT DO UPDATE
LEMMA UpsertUserOK == ASSUME Core, NEW p \in Procs, UpsertUser(p) PROVE Core'
<1> DEFINE e == Item(p)
           known == Named(p, "users", e.user)
           row == IF known = {} THEN DraftUser(p) ELSE [(CHOOSE u \in known : TRUE) EXCEPT !.val = e.kind]
           s == IF e.identifiers = <<>> THEN "commit" ELSE "owner"
           j == [job[p] EXCEPT !.id = row.id]
<1>1. /\ pc[p] = "user" /\ workload' = workload /\ Holders(p, DraftUser(p)) = {}
      /\ job[p] \in Jobs /\ job[p].req \in Requests /\ job[p].req.op = "upsert_roster"
      /\ own[p] = {} /\ View(p) = tables /\ job[p].item \in 1..Len(job[p].req.list) /\ job[p].pos = 1
  BY Known DEF UpsertUser, Step, WaitsFor, Control, Reading
<1>2. CASE Fail(p, "TF-SRV-001", None)
  <2>1. "TF-SRV-001" \in Codes /\ pc[p] # "idle"
    BY <1>1 DEF Codes
  <2> QED
    BY <1>1, <1>2, <2>1, FailPlainOK, Zenon
<1>3. CASE Wrote(p, row, s) /\ job' = [job EXCEPT ![p].id = row.id] /\ UNCHANGED tables
  <2>1. /\ e = job[p].req.list[job[p].item] /\ e.user # None /\ Len(e.identifiers) \in Nat
        /\ e.identifiers # <<>> => Len(e.identifiers) # 0
    BY <1>1, ItemFacts
  <2>2. /\ own' = [own EXCEPT ![p] = {t \in @ : t.id # row.id} \cup {row}]
        /\ own' = [own EXCEPT ![p] = {t \in own[p] : t.id # row.id} \cup {row}]
        /\ pc' = [pc EXCEPT ![p] = s] /\ job' = [job EXCEPT ![p] = j]
    BY <1>3 DEF Wrote, Goto
  <2> DEFINE d == DraftUser(p)
  <2>3. /\ d.id = NewId /\ d.tab = "users" /\ d.key = e.user /\ IsRow(d)
        /\ Entries(d) = {<<"users", e.user>>}
    <3>1. d = [id |-> NewId, tab |-> "users", key |-> e.user, val |-> e.kind, num |-> None,
               from |-> None, upto |-> None]
      BY DEF DraftUser, Row
    <3> HIDE DEF d, e
    <3>2. /\ d.id = NewId /\ d.tab = "users" /\ d.key = e.user /\ d.val = e.kind /\ d.num = None
          /\ d.from = None /\ d.upto = None
      BY <3>1
    <3>3. NewId \in Nat \ {0}
      BY NewIdIsNew DEF Core, Db
    <3>4. IsRow(d)
      BY <2>1, <3>1, <3>2, <3>3 DEF IsRow
    <3>5. Entries(d) = {<<"users", e.user>>}
      BY <2>1, <3>2 DEF Entries, UniqueColumns
    <3> QED
      BY <3>2, <3>4, <3>5
  <2> HIDE DEF d
  <2>4. ASSUME NEW t, <<"users", e.user>> \in Entries(t) PROVE t.tab = "users" /\ t.key = e.user
    <3>1. "users" \notin {"version", "effective_from", "current"}
      OBVIOUS
    <3> QED
      BY <2>4, <3>1, EntriesTell, Zenon
  <2>5. \A q \in Procs \ {p} : \A t \in Locked(q) : ~Clash(d, t)
    BY <1>1, NoHolder DEF d
  <2>6. Db' /\ own'[p] = {row} /\ row.id \in Nat /\ row.tab = "users" /\ row.key = e.user
    <3>1. CASE known = {}
      <4>1. row = d
        BY <3>1 DEF d
      <4>2. ~Taken(p, d)
        BY <2>3, <2>4, <3>1 DEF Taken, Named, In
      <4>3. d.id \in Nat
        BY <2>3 DEF IsRow
      <4> HIDE DEF e, known, row, s, j
      <4>4. Db' /\ own'[p] = own[p] \cup {d}
        BY <1>3, <2>2, <2>3, <2>5, <4>1, <4>2, DbInsert DEF Core
      <4> QED
        BY <1>1, <2>3, <4>1, <4>3, <4>4
    <3>2. CASE known # {}
      <4> DEFINE old == CHOOSE u \in known : TRUE
      <4>1. old \in tables /\ old.tab = "users" /\ old.key = e.user /\ IsRow(old)
        <5>1. old \in known
          BY <3>2
        <5> QED
          BY <1>1, <5>1 DEF Named, In, Core, Db, RowsOK
      <4>2. row = [old EXCEPT !.val = e.kind]
        BY <3>2
      <4> HIDE DEF e, known, row, s, j, old
      <4>3. PlainTab(old.tab)
        BY <4>1 DEF PlainTab
      <4>4. /\ row.id = old.id /\ row.tab = old.tab /\ row.key = old.key
            /\ IsRow(row) /\ Follows(old, row) /\ Entries(row) = Entries(old)
        BY <4>1, <4>2, <4>3, ValUpdated
      <4>5. Lockers(p, old.id) = {}
        <5> SUFFICES ASSUME NEW q \in Procs \ {p}, old.id \in Ids(own[q]) PROVE FALSE
          BY DEF Lockers
        <5>1. old \in Locked(q)
          BY <4>1 DEF Locked
        <5>2. <<"users", e.user>> \in Entries(old)
          BY <2>1, <4>1, <4>3, EntriesHad
        <5> QED
          BY <2>3, <2>5, <5>1, <5>2 DEF Clash
      <4>6. /\ Db /\ old \in View(p) /\ UNCHANGED tables
            /\ Entries(row) \subseteq Entries(old) /\ old.tab \notin {"links", "user_identifiers"}
        BY <1>1, <1>3, <4>1, <4>4 DEF Core
      <4>7. Db' /\ own'[p] = (own[p] \ {old}) \cup {row}
        BY <2>2, <4>4, <4>5, <4>6, DbUpdate
      <4> QED
        BY <1>1, <4>1, <4>4, <4>7 DEF IsRow
    <3> QED
      BY <3>1, <3>2
  <2> HIDE DEF row
  <2>7. j \in Jobs /\ j.req = job[p].req /\ j.item = job[p].item /\ j.pos = 1 /\ j.id = row.id
    BY <1>1, <2>6 DEF Jobs
  <2> HIDE DEF j
  <2>8. Enrolled(j, own'[p], tables)
    BY <2>1, <2>6, <2>7 DEF Enrolled
  <2>9. s \in {"commit", "owner"}
    OBVIOUS
  <2>10. Control(s, j)
    <3>1. CASE e.identifiers = <<>>
      <4>1. Len(e.identifiers) = 0
        BY <3>1, EmptySeq
      <4> QED
        BY <1>1, <2>1, <2>7, <3>1, <4>1 DEF Control
    <3>2. CASE e.identifiers # <<>>
      BY <1>1, <2>1, <2>7, <3>2 DEF Control
    <3> QED
      BY <3>1, <3>2
  <2> HIDE DEF s, e
  <2>11. Written(s, j, own'[p], tables)
    BY <1>1, <2>7, <2>8, <2>9 DEF Written, Reading, Declaring, Keyed
  <2>12. s \in Steps
    BY <2>9 DEF Steps
  <2> QED
    BY <1>1, <1>3, <2>2, <2>6, <2>7, <2>10, <2>11, <2>12, WriteOK
<1> QED
  BY <1>2, <1>3 DEF UpsertUser

\* SELECT user_id FROM user_identifiers
LEMMA CheckOwnerOK == ASSUME Core, NEW p \in Procs, CheckOwner(p) PROVE Core'
<1>1. /\ pc[p] = "owner" /\ UNCHANGED <<tables, workload>>
      /\ job[p] \in Jobs /\ job[p].req \in Requests /\ job[p].req.op = "upsert_roster"
      /\ job[p].item \in 1..Len(job[p].req.list)
  BY Known DEF CheckOwner, Step, Control
<1>2. CASE EndItem(p, "TF-CFG-004")
  <2>1. "TF-CFG-004" \in Codes /\ pc[p] # "idle"
    BY <1>1 DEF Codes
  <2>2. PICK s \in {"reply", "user"}, j \in Jobs :
              /\ pc' = [pc EXCEPT ![p] = s] /\ job' = [job EXCEPT ![p] = j]
              /\ own' = [own EXCEPT ![p] = {}] /\ Control(s, j)
    <3>1. job[p].item \in 1..Len(job[p].req.list) /\ job[p].req.op = "upsert_roster"
      BY <1>1
    <3> QED
      BY <1>2, <2>1, <3>1, ItemEnds, Zenon
  <2>3. Written(s, j, {}, tables) /\ s \in Steps
    BY DEF Written, Reading, Steps
  <2> QED
    BY <1>1, <2>2, <2>3, AbortOK
<1>3. CASE Goto(p, "claim") /\ UNCHANGED <<own, job>>
  <2>1. Control("claim", job[p]) /\ "claim" \in Steps
    BY <1>1, Known DEF Control, Steps
  <2>2. Written("claim", job[p], own[p], tables)
    BY <1>1, Known DEF Written, Reading
  <2>3. pc' = [pc EXCEPT ![p] = "claim"] /\ job' = [job EXCEPT ![p] = job[p]]
    BY <1>3 DEF Goto, Core
  <2> QED
    BY <1>1, <1>3, <2>1, <2>2, <2>3, QuietOK
<1> QED
  BY <1>2, <1>3 DEF CheckOwner

\* INSERT INTO user_identifiers ... ON CONFLICT DO NOTHING
LEMMA ClaimIdentifierOK == ASSUME Core, NEW p \in Procs, ClaimIdentifier(p) PROVE Core'
<1> DEFINE e == Item(p)
           ident == e.identifiers[job[p].pos]
           d == DraftIdentifier(p)
           s == IF job[p].pos = Len(e.identifiers) THEN "commit" ELSE "owner"
           j == [job[p] EXCEPT !.pos = @ + 1]
<1>1. /\ pc[p] = "claim" /\ UNCHANGED <<tables, workload>> /\ Holders(p, d) = {}
      /\ job[p] \in Jobs /\ job[p].req \in Requests /\ job[p].req.op = "upsert_roster"
      /\ job[p].item \in 1..Len(job[p].req.list)
  BY Known DEF ClaimIdentifier, Step, WaitsFor, Control
<1>2. /\ e = job[p].req.list[job[p].item] /\ Len(e.identifiers) \in Nat
      /\ \A i \in 1..Len(e.identifiers) : e.identifiers[i] # None
  BY <1>1, ItemFacts
<1>3. job[p].pos \in 1..Len(e.identifiers) /\ job[p].pos \in Nat
  BY <1>1, <1>2, Known DEF Control, Jobs
<1>4. ident # None
  BY <1>2, <1>3
<1>5. PICK u \in own[p] :
        /\ u.id = job[p].id /\ u.tab = "users" /\ u.key = e.user
        /\ \A r \in own[p] : r = u \/ (r.tab = "user_identifiers" /\ r.num = u.id)
        /\ \A n \in 1..(job[p].pos - 1) : \E r \in View(p) :
                r.tab = "user_identifiers" /\ r.key = e.identifiers[n]
  BY <1>1, <1>2, Known DEF Written, Enrolled, View
<1>6. u.id \in Nat
  BY DEF Core, Db, RowsOK, IsRow
<1>7. /\ d.id = NewId /\ d.tab = "user_identifiers" /\ d.key = ident /\ d.num = u.id /\ IsRow(d)
      /\ Entries(d) = {<<"user_identifiers", ident>>}
  <2>1. d = [id |-> NewId, tab |-> "user_identifiers", key |-> ident, val |-> None, num |-> u.id,
             from |-> None, upto |-> None]
    BY <1>5 DEF DraftIdentifier, Row
  <2> HIDE DEF d, e, ident
  <2>2. /\ d.id = NewId /\ d.tab = "user_identifiers" /\ d.key = ident /\ d.val = None /\ d.num = u.id
        /\ d.from = None /\ d.upto = None
    BY <2>1
  <2>3. NewId \in Nat \ {0}
    BY NewIdIsNew DEF Core, Db
  <2>4. IsRow(d)
    BY <1>4, <2>1, <2>2, <2>3 DEF IsRow
  <2>5. Entries(d) = {<<"user_identifiers", ident>>}
    BY <1>4, <2>2 DEF Entries, UniqueColumns
  <2> QED
    BY <2>2, <2>4, <2>5
<1>8. /\ j \in Jobs /\ j.req = job[p].req /\ j.item = job[p].item /\ j.pos = job[p].pos + 1
      /\ j.id = job[p].id
  BY <1>1 DEF Jobs
<1>9. job' = [job EXCEPT ![p] = j] /\ pc' = [pc EXCEPT ![p] = s]
  BY DEF ClaimIdentifier, Wrote, Goto
<1> HIDE DEF d, j
<1>10. s \in {"commit", "owner"} /\ Control(s, j)
  <2>1. j.req \in Requests /\ j.req.op = "upsert_roster" /\ j.item \in 1..Len(j.req.list)
    BY <1>1, <1>8
  <2>2. e = j.req.list[j.item]
    BY <1>2, <1>8
  <2> HIDE DEF e
  <2>3. CASE job[p].pos = Len(e.identifiers)
    <3>1. s = "commit" /\ j.pos = Len(e.identifiers) + 1
      BY <1>8, <2>3
    <3> HIDE DEF s
    <3> QED
      BY <2>1, <2>2, <3>1 DEF Control, Declaring
  <2>4. CASE job[p].pos # Len(e.identifiers)
    <3>1. s = "owner"
      BY <2>4
    <3>2. \A n \in Nat : \A i \in 1..n : i # n => i + 1 \in 1..n
      OBVIOUS
    <3> HIDE DEF s
    <3>3. j.pos \in 1..Len(e.identifiers)
      BY <1>2, <1>3, <1>8, <2>4, <3>2, ZenonT(30)
    <3> QED
      BY <2>1, <2>2, <3>1, <3>3 DEF Control
  <2> QED
    BY <2>3, <2>4
\* Enough for Written: the transaction o sees an owner of the identifier.
<1>11. ASSUME NEW o, u \in o, \A r \in o : r = u \/ (r.tab = "user_identifiers" /\ r.num = u.id),
              NEW V, V = o \cup {t \in tables : t.id \notin Ids(o)}, View(p) \subseteq V,
              \E r \in V : r.tab = "user_identifiers" /\ r.key = ident
       PROVE  Written(s, j, o, tables)
  <2>1. ASSUME NEW n \in 1..(j.pos - 1)
        PROVE  \E r \in V : r.tab = "user_identifiers" /\ r.key = e.identifiers[n]
    <3>1. CASE n = job[p].pos
      BY <3>1, <1>11
    <3>2. CASE n # job[p].pos
      <4>1. n \in 1..(job[p].pos - 1)
        BY <1>3, <1>8, <2>1, <3>2
      <4> QED
        BY <4>1, <1>5, <1>11
    <3> QED
      BY <3>1, <3>2
  <2>2. Enrolled(j, o, tables)
    <3>1. e = j.req.list[j.item] /\ u.id = j.id
      BY <1>2, <1>5, <1>8
    <3> HIDE DEF e
    <3> QED
      BY <1>5, <1>11, <2>1, <3>1 DEF Enrolled
  <2> HIDE DEF s
  <2> QED
    BY <1>1, <1>8, <1>10, <2>2 DEF Written, Reading, Declaring, Keyed
<1>12. s \in Steps
  BY DEF Steps
<1>13. CASE Taken(p, d) /\ UNCHANGED own
  <2>1. \E r \in View(p) : r.tab = "user_identifiers" /\ r.key = ident
    <3>1. PICK r \in View(p) : <<"user_identifiers", ident>> \in Entries(r)
      BY <1>7, <1>13 DEF Taken
    <3>2. "user_identifiers" \notin {"version", "effective_from", "current"}
      OBVIOUS
    <3>3. r.tab = "user_identifiers" /\ r.key = ident
      BY <3>1, <3>2, EntriesTell, Zenon
    <3> QED
      BY <3>3
  <2>2. Written(s, j, own[p], tables)
    <3>1. View(p) = own[p] \cup {t \in tables : t.id \notin Ids(own[p])}
      BY DEF View
    <3> HIDE DEF s, ident
    <3> QED
      BY <1>5, <1>11, <2>1, <3>1
  <2> HIDE DEF s, e
  <2> QED
    BY <1>1, <1>8, <1>9, <1>10, <1>12, <1>13, <2>2, QuietOK
<1>14. CASE ~Taken(p, d) /\ Wrote(p, d, s)
  <2>1. /\ own' = [own EXCEPT ![p] = {t \in @ : t.id # d.id} \cup {d}]
        /\ own' = [own EXCEPT ![p] = {t \in own[p] : t.id # d.id} \cup {d}]
    BY <1>14 DEF Wrote
  <2>2. /\ Db /\ d.tab # "links" /\ \E v \in own[p] : v.tab = "users" /\ v.id = d.num
    BY <1>5, <1>7 DEF Core
  <2>3. \A q \in Procs \ {p} : \A t \in Locked(q) : ~Clash(d, t)
    BY <1>1, NoHolder
  <2> HIDE DEF s, e, ident
  <2>4. Db' /\ own'[p] = own[p] \cup {d} /\ View(p)' = View(p) \cup {d}
    BY <1>1, <1>7, <1>14, <2>1, <2>2, <2>3, DbInsert
  <2>5. View(p)' = own'[p] \cup {t \in tables : t.id \notin Ids(own'[p])}
    BY <1>1 DEF View
  <2>6. Written(s, j, own'[p], tables)
    <3> DEFINE o == own'[p]
               V == own'[p] \cup {t \in tables : t.id \notin Ids(own'[p])}
    <3>1. u \in o /\ \A r \in o : r = u \/ (r.tab = "user_identifiers" /\ r.num = u.id)
      BY <1>5, <1>7, <2>4
    <3>2. View(p) \subseteq V /\ d \in V
      BY <2>4, <2>5
    <3>3. \E r \in V : r.tab = "user_identifiers" /\ r.key = ident
      BY <1>7, <3>2
    <3> QED
      BY <1>11, <3>1, <3>2, <3>3
  <2> QED
    BY <1>1, <1>8, <1>9, <1>10, <1>12, <2>1, <2>4, <2>6, WriteOK
<1>15. (Taken(p, d) /\ UNCHANGED own) \/ (~Taken(p, d) /\ Wrote(p, d, s))
  BY DEF ClaimIdentifier, d
<1> QED
  BY <1>13, <1>14, <1>15

\* COMMIT
LEMMA CommitOK == ASSUME Core, NEW p \in Procs, Commit(p) PROVE Core'
<1>1. /\ pc[p] = "commit" /\ workload' = workload /\ tables' = View(p)
      /\ job[p] \in Jobs /\ job[p].req \in Requests
  BY Known DEF Commit, Step
<1>2. ASSUME NEW s \in {"reply", "user"}, NEW j \in Jobs, own' = [own EXCEPT ![p] = {}],
             pc' = [pc EXCEPT ![p] = s], job' = [job EXCEPT ![p] = j], Control(s, j)
      PROVE  Core'
  <2>1. Db'
    BY <1>1, <1>2, DbCommit DEF Core
  <2>2. s \in Steps
    BY DEF Steps, Reading
  <2>3. /\ pc' \in [Procs -> Steps] /\ job' \in [Procs -> Jobs]
        /\ pc'[p] = s /\ job'[p] = j /\ own'[p] = {} /\ Alone(p)
    BY <1>2, <2>2, Known DEF Core, Alone
  <2>4. Written(s, j, {}, tables')
    BY DEF Written, Reading
  <2> QED
    BY <1>1, <1>2, <2>1, <2>3, <2>4, StepOK
<1>3. CASE job[p].req.op = "upsert_roster" /\ EndItem(p, "upserted")
  <2>1. /\ job[p].item \in 1..Len(job[p].req.list) /\ job[p].req.op = "upsert_roster"
        /\ pc[p] # "idle" /\ "upserted" \in Codes
    BY <1>1, <1>3, Known DEF Control, Codes
  <2>2. PICK s \in {"reply", "user"}, j \in Jobs :
              /\ pc' = [pc EXCEPT ![p] = s] /\ job' = [job EXCEPT ![p] = j]
              /\ own' = [own EXCEPT ![p] = {}] /\ Control(s, j)
    BY <1>3, <2>1, ItemEnds, Zenon
  <2> QED
    BY <1>2, <2>2
<1>4. CASE /\ own' = [own EXCEPT ![p] = {}]
           /\ job' = [job EXCEPT ![p].said = {Answer(job[p].req, "done", job[p].id)}]
           /\ Goto(p, "reply")
  <2> DEFINE j == [job[p] EXCEPT !.said = {Answer(job[p].req, "done", job[p].id)}]
  <2>1. Answer(job[p].req, "done", job[p].id) \in Said
    BY <1>1 DEF Answer, Said, Codes, Jobs
  <2>2. j \in Jobs /\ j.req = job[p].req
    BY <1>1, <2>1 DEF Jobs
  <2>3. job' = [job EXCEPT ![p] = j] /\ pc' = [pc EXCEPT ![p] = "reply"]
    BY <1>4 DEF Goto
  <2> HIDE DEF j
  <2>4. Control("reply", j)
    BY <1>1, <2>2, Outside
  <2> QED
    BY <1>2, <1>4, <2>2, <2>3, <2>4
<1> QED
  BY <1>3, <1>4 DEF Commit

-------------------------------------------------------------------------------
(* The inductive invariant: versions and answers *)

\* The steps at which a request of create_parameter_version has its number.
Numbered == {"insert", "link", "commit"}

Numbering(s, j) == s \in Numbered /\ j.req.op = "create_parameter_version"

Versions == {r.num : r \in Committed("parameter_sets")}

\* The versions are 1 to n, and nobody is about to give a later one than n + 1.
VersionInv ==
    \E n \in Nat : /\ Versions = 1..n
                   /\ \A q \in Procs : Numbering(pc[q], job[q]) => job[q].version \in 1..(n + 1)

\* An answer a names the row of its key in the tables T, with all its links.
Names(a, T) ==
    "op" \in DOMAIN a.about /\ a.id # None /\ a.about.op \in Keyed =>
        \E r \in T : /\ r.tab = TableOf(a.about.op) /\ r.id = a.id /\ r.key = a.about.key
                     /\ a.out = "done" =>
                            Cardinality({l \in T : l.tab = "links" /\ l.num = r.id}) = Len(a.about.list)

\* Somebody has the identifier i.
Owned(i, T) == \E r \in T : r.tab = "user_identifiers" /\ r.key = i

\* Somebody but user k has the identifier i.
OwnedByOther(i, k, T) ==
    \E r, u \in T : /\ r.tab = "user_identifiers" /\ r.key = i
                    /\ u.tab = "users" /\ u.id = r.num /\ u.key # k

\* An answer a about a roster entry is true of the tables T.
Enrols(a, T) ==
    "identifiers" \in DOMAIN a.about =>
        /\ a.out = "TF-CFG-004" =>
            \E n \in 1..Len(a.about.identifiers) : OwnedByOther(a.about.identifiers[n], a.about.user, T)
        /\ a.out = "upserted" =>
            /\ \E u \in T : u.tab = "users" /\ u.id = a.id /\ u.key = a.about.user
            /\ \A n \in 1..Len(a.about.identifiers) : Owned(a.about.identifiers[n], T)

Told(a, T) == Names(a, T) /\ Enrols(a, T)

\* What was answered and what is going to be is true.
AnswersInv ==
    /\ answers \subseteq Said
    /\ \A a \in answers : Told(a, tables)
    /\ \A q \in Procs : \A a \in job[q].said : Told(a, tables)

\* Process p takes a step that writes no committed row, gives itself no version,
\* and is going to say what is true.
Honest(p) ==
    /\ Alone(p)
    /\ tables' = tables /\ answers' = answers
    /\ Numbering(pc'[p], job'[p]) =>
            Numbering(pc[p], job[p]) /\ job'[p].version = job[p].version
    /\ \A a \in job'[p].said : a \in job[p].said \/ Told(a, tables)

\* A request that fails names no row and is about no roster entry.
LEMMA HonestFail ==
    ASSUME Core, NEW p \in Procs, pc[p] # "idle", NEW code, Fail(p, code, None), answers' = answers
    PROVE  Honest(p)
<1> DEFINE a == Answer(job[p].req, code, None)
           j == [job[p] EXCEPT !.said = {a}]
<1>1. /\ job[p] \in Jobs /\ job[p].req \in Requests /\ DOMAIN own = Procs
      /\ "identifiers" \notin DOMAIN job[p].req
  BY Known, RequestFacts
<1>2. a.about = job[p].req /\ a.id = None
  BY DEF Answer
<1>3. Told(a, tables)
  <2> HIDE DEF a
  <2> QED
    BY <1>1, <1>2 DEF Told, Names, Enrols
<1>4. job' = [job EXCEPT ![p] = j] /\ pc' = [pc EXCEPT ![p] = "reply"] /\ own' = [own EXCEPT ![p] = {}]
  BY DEF Fail, Goto
<1>5. j.said = {a}
  BY <1>1 DEF Jobs
<1> HIDE DEF a, j
<1>6. Alone(p) /\ pc'[p] = "reply" /\ job'[p] = j
  BY <1>1, <1>4 DEF Alone, Core
<1> QED
  BY <1>3, <1>5, <1>6 DEF Honest, Fail, Numbering, Numbered

\* A step that says nothing.
LEMMA HonestGo ==
    ASSUME Core, NEW p \in Procs, tables' = tables, answers' = answers,
           NEW o, own' = [own EXCEPT ![p] = o],
           NEW s, NEW j, pc' = [pc EXCEPT ![p] = s], job' = [job EXCEPT ![p] = j],
           j.req = job[p].req, j.version = job[p].version, j.said = job[p].said,
           Numbering(s, job[p]) => Numbering(pc[p], job[p])
    PROVE  Honest(p)
<1>1. Alone(p) /\ pc'[p] = s /\ job'[p] = j
  BY Known DEF Alone, Core
<1> QED
  BY <1>1 DEF Honest, Numbering

\* A step that says nothing and writes nothing.
LEMMA HonestQuiet ==
    ASSUME Core, NEW p \in Procs, tables' = tables, answers' = answers, own' = own,
           NEW s, NEW j, pc' = [pc EXCEPT ![p] = s], job' = [job EXCEPT ![p] = j],
           j.req = job[p].req, j.version = job[p].version, j.said = job[p].said,
           Numbering(s, job[p]) => Numbering(pc[p], job[p])
    PROVE  Honest(p)
<1>1. Alone(p) /\ pc'[p] = s /\ job'[p] = j
  BY Known DEF Alone, Core
<1> QED
  BY <1>1 DEF Honest, Numbering

\* A step that changes neither the request nor what is said, in the job j.
LEMMA SameJob ==
    ASSUME Core, NEW p \in Procs
    PROVE  /\ job = [job EXCEPT ![p] = job[p]]
           /\ \A v : LET j == [job[p] EXCEPT !.id = v] IN
                j.req = job[p].req /\ j.version = job[p].version /\ j.said = job[p].said
           /\ \A v : LET j == [job[p] EXCEPT !.target = v] IN
                j.req = job[p].req /\ j.version = job[p].version /\ j.said = job[p].said
           /\ LET j == [job[p] EXCEPT !.pos = @ + 1] IN
                j.req = job[p].req /\ j.version = job[p].version /\ j.said = job[p].said
BY Known DEF Core, Jobs

-------------------------------------------------------------------------------
(* Steps that give no version and say what is true *)

\* The steps before the first statement that writes.
LEMMA HonestReads ==
    ASSUME Core, NEW p \in Procs,
           RequireRole(p) \/ ResolveDeployment(p) \/ FindCurrent(p) \/ CheckType(p)
    PROVE  Honest(p)
<1>1. CASE RequireRole(p)
  <2>1. pc[p] # "idle" /\ answers' = answers /\ tables' = tables
    BY <1>1 DEF RequireRole, Step, Fail
  <2>2. CASE Fail(p, "TF-CFG-002", None)
    BY <2>1, <2>2, HonestFail, Zenon
  <2>3. CASE Goto(p, "check") /\ UNCHANGED <<tables, own, job>>
    <3>1. pc' = [pc EXCEPT ![p] = "check"] /\ job' = [job EXCEPT ![p] = job[p]] /\ own' = own
      BY <2>3, SameJob DEF Goto
    <3>2. ~Numbering("check", job[p])
      BY DEF Numbering, Numbered
    <3> QED
      BY <2>1, <3>1, <3>2, HonestQuiet
  <2> QED
    BY <1>1, <2>2, <2>3 DEF RequireRole
<1>2. CASE ResolveDeployment(p)
  <2>1. pc[p] = "resolve" /\ pc[p] # "idle" /\ answers' = answers /\ tables' = tables
    BY <1>2 DEF ResolveDeployment, Step, Fail
  <2>2. CASE Fail(p, "TF-EVT-002", None)
    BY <2>1, <2>2, HonestFail, Zenon
  <2>3. CASE Fail(p, "TF-AUTH-002", None)
    BY <2>1, <2>3, HonestFail, Zenon
  <2>4. ASSUME NEW d, job' = [job EXCEPT ![p].target = d.id], own' = own,
               Goto(p, CASE job[p].req.op = "declare_license" -> "find"
                         [] job[p].req.op = "update_deployment" -> "retype"
                         [] OTHER -> "check")
        PROVE  Honest(p)
    <3> DEFINE s == CASE job[p].req.op = "declare_license" -> "find"
                      [] job[p].req.op = "update_deployment" -> "retype"
                      [] OTHER -> "check"
               j == [job[p] EXCEPT !.target = d.id]
    <3>1. pc' = [pc EXCEPT ![p] = s] /\ job' = [job EXCEPT ![p] = j]
      BY <2>4 DEF Goto
    <3>2. s \in {"find", "retype", "check"}
      OBVIOUS
    <3>3. j.req = job[p].req /\ j.version = job[p].version /\ j.said = job[p].said
      BY SameJob
    <3> HIDE DEF s, j
    <3>4. ~Numbering(s, job[p])
      BY <3>2 DEF Numbering, Numbered
    <3> QED
      BY <2>1, <2>4, <3>1, <3>3, <3>4, HonestQuiet
  <2> QED
    BY <1>2, <2>2, <2>3, <2>4 DEF ResolveDeployment
<1>3. CASE FindCurrent(p)
  <2>1. /\ answers' = answers /\ tables' = tables /\ own' = own
        /\ job[p].req.op = "declare_license"
    BY <1>3, Known DEF FindCurrent, Step, Control
  <2>2. \A s : ~Numbering(s, job[p])
    BY <2>1 DEF Numbering
  <2>3. CASE Goto(p, "insert") /\ job' = job
    <3>1. pc' = [pc EXCEPT ![p] = "insert"] /\ job' = [job EXCEPT ![p] = job[p]]
      BY <2>3, SameJob DEF Goto
    <3> QED
      BY <2>1, <2>2, <3>1, HonestQuiet
  <2>4. ASSUME NEW r, job' = [job EXCEPT ![p].target = r.id], Goto(p, "close") PROVE Honest(p)
    <3> DEFINE j == [job[p] EXCEPT !.target = r.id]
    <3>1. pc' = [pc EXCEPT ![p] = "close"] /\ job' = [job EXCEPT ![p] = j]
      BY <2>4 DEF Goto
    <3>2. j.req = job[p].req /\ j.version = job[p].version /\ j.said = job[p].said
      BY SameJob
    <3> HIDE DEF j
    <3> QED
      BY <2>1, <2>2, <3>1, <3>2, HonestQuiet
  <2> QED
    BY <1>3, <2>3, <2>4 DEF FindCurrent
<1>4. CASE CheckType(p)
  <2>1. /\ answers' = answers /\ tables' = tables /\ pc[p] # "idle"
        /\ job[p].req.op = "update_deployment"
    BY <1>4, Known DEF CheckType, Step, Control, Fail
  <2>2. \A s : ~Numbering(s, job[p])
    BY <2>1 DEF Numbering
  <2>3. CASE Fail(p, "TF-CFG-006", None)
    BY <2>1, <2>3, HonestFail, Zenon
  <2>4. CASE /\ Goto(p, IF "name" \in job[p].req.val THEN "rename" ELSE "commit")
             /\ job' = [job EXCEPT ![p].id = job[p].target]
             /\ own' = own
    <3> DEFINE j == [job[p] EXCEPT !.id = job[p].target]
               s == IF "name" \in job[p].req.val THEN "rename" ELSE "commit"
    <3>1. pc' = [pc EXCEPT ![p] = s] /\ job' = [job EXCEPT ![p] = j]
      BY <2>4 DEF Goto
    <3>2. j.req = job[p].req /\ j.version = job[p].version /\ j.said = job[p].said
      BY SameJob
    <3> HIDE DEF j, s
    <3> QED
      BY <2>1, <2>2, <2>4, <3>1, <3>2, HonestQuiet
  <2> QED
    BY <1>4, <2>3, <2>4 DEF CheckType
<1> QED
  BY <1>1, <1>2, <1>3, <1>4

\* The answer that something is there already names it.
LEMMA HonestCheck == ASSUME Core, NEW p \in Procs, CheckExisting(p) PROVE Honest(p)
<1>1. /\ pc[p] = "check" /\ answers' = answers /\ tables' = tables
      /\ job[p] \in Jobs /\ job[p].req \in Requests /\ job[p].req.op \in Keyed
      /\ View(p) = tables /\ DOMAIN own = Procs
  BY Known DEF CheckExisting, Step, Control, Reading, Fail
<1>2. ASSUME NEW r \in Named(p, TableOf(job[p].req.op), job[p].req.key),
             Fail(p, ExistsCode(job[p].req.op), r.id)
      PROVE  Honest(p)
  <2> DEFINE code == ExistsCode(job[p].req.op)
             a == Answer(job[p].req, code, r.id)
             j == [job[p] EXCEPT !.said = {a}]
  <2>1. r \in tables /\ r.tab = TableOf(job[p].req.op) /\ r.key = job[p].req.key
    BY <1>1 DEF Named, In
  <2>2. a.about = job[p].req /\ a.id = r.id /\ a.out = code
    BY DEF Answer
  <2>3. code # "done"
    BY <1>1 DEF ExistsCode, Keyed
  <2>4. "identifiers" \notin DOMAIN job[p].req
    BY <1>1, RequestFacts
  <2>5. Told(a, tables)
    <3> HIDE DEF a, code
    <3> QED
      BY <2>1, <2>2, <2>3, <2>4 DEF Told, Names, Enrols
  <2>6. job' = [job EXCEPT ![p] = j] /\ pc' = [pc EXCEPT ![p] = "reply"] /\ own' = [own EXCEPT ![p] = {}]
    BY <1>2 DEF Fail, Goto
  <2>7. j.said = {a}
    BY <1>1 DEF Jobs
  <2> HIDE DEF a, j
  <2>8. Alone(p) /\ pc'[p] = "reply" /\ job'[p] = j
    BY <1>1, <2>6 DEF Alone, Core
  <2> QED
    BY <1>1, <2>5, <2>7, <2>8 DEF Honest, Numbering, Numbered
<1>3. CASE /\ Goto(p, IF job[p].req.op = "create_parameter_version" THEN "number" ELSE "insert")
           /\ UNCHANGED <<tables, own, job>>
  <2> DEFINE s == IF job[p].req.op = "create_parameter_version" THEN "number" ELSE "insert"
  <2>1. pc' = [pc EXCEPT ![p] = s] /\ job' = [job EXCEPT ![p] = job[p]] /\ own' = own
    BY <1>3, SameJob DEF Goto
  <2>2. ~Numbering(s, job[p])
    BY DEF Numbering, Numbered
  <2> HIDE DEF s
  <2> QED
    BY <1>1, <2>1, <2>2, HonestQuiet
<1> QED
  BY <1>2, <1>3 DEF CheckExisting

\* A statement that writes a row, of a handler that has its version or needs none.
LEMMA HonestWrite ==
    ASSUME Core, NEW p \in Procs, tables' = tables, answers' = answers, NEW r, NEW s, Wrote(p, r, s),
           NEW j, job' = [job EXCEPT ![p] = j],
           j.req = job[p].req, j.version = job[p].version, j.said = job[p].said,
           pc[p] \in Numbered \/ job[p].req.op # "create_parameter_version"
    PROVE  Honest(p)
<1> DEFINE o == {t \in own[p] : t.id # r.id} \cup {r}
<1>1. own' = [own EXCEPT ![p] = o] /\ pc' = [pc EXCEPT ![p] = s]
  BY DEF Wrote, Goto
<1>2. Numbering(s, job[p]) => Numbering(pc[p], job[p])
  BY DEF Numbering
<1> HIDE DEF o
<1> QED
  BY <1>1, <1>2, HonestGo

\* INSERT, and the links.
LEMMA HonestInserts ==
    ASSUME Core, NEW p \in Procs, Insert(p) \/ Link(p) \/ LinkLicensed(p) \/ Deadlock(p)
    PROVE  Honest(p)
<1>1. CASE Insert(p)
  <2>1. pc[p] # "idle" /\ pc[p] \in Numbered /\ answers' = answers /\ tables' = tables
    BY <1>1 DEF Insert, Step, Fail, Numbered
  <2>2. CASE Fail(p, "TF-SRV-001", None)
    BY <2>1, <2>2, HonestFail, Zenon
  <2>3. ASSUME NEW s, Wrote(p, Draft(p), s), job' = [job EXCEPT ![p].id = Draft(p).id]
        PROVE  Honest(p)
    <3> DEFINE j == [job[p] EXCEPT !.id = Draft(p).id]
    <3>1. job' = [job EXCEPT ![p] = j]
      BY <2>3
    <3>2. j.req = job[p].req /\ j.version = job[p].version /\ j.said = job[p].said
      BY SameJob
    <3> HIDE DEF j
    <3> QED
      BY <2>1, <2>3, <3>1, <3>2, HonestWrite
  <2> QED
    BY <1>1, <2>2, <2>3 DEF Insert
<1>2. CASE Link(p)
  <2>1. pc[p] # "idle" /\ pc[p] \in Numbered /\ answers' = answers /\ tables' = tables
    BY <1>2 DEF Link, Step, Fail, Numbered
  <2>2. ASSUME NEW code, Fail(p, code, None) PROVE Honest(p)
    BY <2>1, <2>2, HonestFail, Zenon
  <2>3. ASSUME NEW l, NEW s, Wrote(p, l, s), job' = [job EXCEPT ![p].pos = @ + 1]
        PROVE  Honest(p)
    <3> DEFINE j == [job[p] EXCEPT !.pos = @ + 1]
    <3>1. job' = [job EXCEPT ![p] = j]
      BY <2>3
    <3>2. j.req = job[p].req /\ j.version = job[p].version /\ j.said = job[p].said
      BY SameJob
    <3> HIDE DEF j
    <3> QED
      BY <2>1, <2>3, <3>1, <3>2, HonestWrite
  <2> QED
    BY <1>2, <2>2, <2>3, Zenon DEF Link
<1>3. CASE LinkLicensed(p)
  <2> DEFINE j == [job[p] EXCEPT !.pos = @ + 1]
             s == AfterInsert(p, job[p].pos + 1)
             l == Row(NewId, "links", job[p].req.list[job[p].pos], None, job[p].id, None)
  <2>1. /\ answers' = answers /\ tables' = tables /\ job' = [job EXCEPT ![p] = j]
        /\ job[p].req.op = "declare_license"
    BY <1>3, Known DEF LinkLicensed, Step, Control
  <2>2. j.req = job[p].req /\ j.version = job[p].version /\ j.said = job[p].said
    BY SameJob
  <2>3. (Goto(p, s) /\ own' = own) \/ Wrote(p, l, s)
    BY <1>3 DEF LinkLicensed
  <2> HIDE DEF j, s, l
  <2>4. ~Numbering(s, job[p]) /\ job[p].req.op # "create_parameter_version"
    BY <2>1 DEF Numbering
  <2>5. CASE Goto(p, s) /\ own' = own
    <3>1. pc' = [pc EXCEPT ![p] = s]
      BY <2>5 DEF Goto
    <3> QED
      BY <2>1, <2>2, <2>4, <2>5, <3>1, HonestQuiet
  <2>6. CASE Wrote(p, l, s)
    BY <2>1, <2>2, <2>4, <2>6, HonestWrite
  <2> QED
    BY <2>3, <2>5, <2>6
<1>4. CASE Deadlock(p)
  <2>1. WaitsFor(p) # {} /\ Fail(p, "TF-SRV-001", None) /\ answers' = answers
    BY <1>4 DEF Deadlock
  <2>2. pc[p] # "idle"
    BY <2>1 DEF WaitsFor
  <2> QED
    BY <2>1, <2>2, HonestFail, Zenon
<1> QED
  BY <1>1, <1>2, <1>3, <1>4

\* The statements that UPDATE.
LEMMA HonestUpdates ==
    ASSUME Core, NEW p \in Procs,
           Supersede(p) \/ CloseCurrent(p) \/ DeleteWebhook(p) \/ Rename(p) \/ UpsertUser(p)
    PROVE  Honest(p)
<1>1. /\ pc[p] # "idle" /\ answers' = answers /\ tables' = tables
      /\ job[p].req.op # "create_parameter_version"
  <2>1. /\ answers' = answers /\ tables' = tables
        /\ pc[p] \in {"supersede", "close", "delete", "rename", "user"}
    BY DEF Supersede, CloseCurrent, DeleteWebhook, Rename, UpsertUser, Step, Fail
  <2> QED
    BY <2>1, Known DEF Control
<1>2. ASSUME NEW code, Fail(p, code, None) PROVE Honest(p)
  BY <1>1, <1>2, HonestFail, Zenon
<1>3. ASSUME NEW r, NEW s, Wrote(p, r, s), job' = job PROVE Honest(p)
  <2>1. job' = [job EXCEPT ![p] = job[p]]
    BY <1>3, SameJob
  <2> QED
    BY <1>1, <1>3, <2>1, HonestWrite
<1>4. ASSUME NEW r, NEW s, Wrote(p, r, s), job' = [job EXCEPT ![p].id = r.id] PROVE Honest(p)
  <2> DEFINE j == [job[p] EXCEPT !.id = r.id]
  <2>1. job' = [job EXCEPT ![p] = j]
    BY <1>4
  <2>2. j.req = job[p].req /\ j.version = job[p].version /\ j.said = job[p].said
    BY SameJob
  <2> HIDE DEF j
  <2> QED
    BY <1>1, <1>4, <2>1, <2>2, HonestWrite
<1>5. CASE Goto(p, "insert") /\ own' = own /\ job' = job
  <2>1. pc' = [pc EXCEPT ![p] = "insert"] /\ job' = [job EXCEPT ![p] = job[p]]
    BY <1>5, SameJob DEF Goto
  <2>2. ~Numbering("insert", job[p])
    BY <1>1 DEF Numbering
  <2> QED
    BY <1>1, <1>5, <2>1, <2>2, HonestQuiet
<1>6. CASE Supersede(p)
  BY <1>2, <1>3, <1>6, Zenon DEF Supersede
<1>7. CASE CloseCurrent(p)
  BY <1>2, <1>3, <1>5, <1>7, Zenon DEF CloseCurrent
<1>8. CASE DeleteWebhook(p)
  <2> SUFFICES ASSUME NEW r, Wrote(p, [r EXCEPT !.val = "deleted"], "commit"),
                      job' = [job EXCEPT ![p].id = r.id]
               PROVE  Honest(p)
    BY <1>2, <1>8, Zenon DEF DeleteWebhook
  <2> DEFINE j == [job[p] EXCEPT !.id = r.id]
             v == [r EXCEPT !.val = "deleted"]
  <2>1. job' = [job EXCEPT ![p] = j] /\ Wrote(p, v, "commit")
    OBVIOUS
  <2>2. j.req = job[p].req /\ j.version = job[p].version /\ j.said = job[p].said
    BY SameJob
  <2> HIDE DEF j, v
  <2> QED
    BY <1>1, <2>1, <2>2, HonestWrite
<1>9. CASE Rename(p)
  BY <1>3, <1>9, Zenon DEF Rename
<1>10. CASE UpsertUser(p)
  BY <1>2, <1>4, <1>10, Zenon DEF UpsertUser
<1> QED
  BY <1>6, <1>7, <1>8, <1>9, <1>10

\* A roster entry is rejected for an identifier that another user has.
LEMMA HonestOwner == ASSUME Core, NEW p \in Procs, CheckOwner(p) PROVE Honest(p)
<1> DEFINE e == Item(p)
           ident == e.identifiers[job[p].pos]
<1>1. /\ pc[p] = "owner" /\ tables' = tables /\ answers' = answers
      /\ job[p] \in Jobs /\ job[p].req \in Requests /\ job[p].req.op = "upsert_roster"
      /\ job[p].item \in 1..Len(job[p].req.list) /\ DOMAIN own = Procs
  BY Known DEF CheckOwner, Step, Control
<1>2. e = job[p].req.list[job[p].item] /\ e \in RosterEntries /\ e.user # None
  BY <1>1, ItemFacts
<1>3. job[p].pos \in 1..Len(e.identifiers)
  BY <1>1, <1>2, Known DEF Control
<1>4. ASSUME NEW r \in Named(p, "user_identifiers", ident), r.num # job[p].id, EndItem(p, "TF-CFG-004")
      PROVE  Honest(p)
  <2>1. PICK u \in own[p] :
        /\ u.id = job[p].id /\ u.tab = "users" /\ u.key = e.user
        /\ \A t \in own[p] : t = u \/ (t.tab = "user_identifiers" /\ t.num = u.id)
    <3>1. Enrolled(job[p], own[p], tables)
      BY <1>1, Known DEF Written
    <3> HIDE DEF e
    <3> QED
      BY <1>2, <3>1 DEF Enrolled
  <2>2. r \in View(p) /\ r.tab = "user_identifiers" /\ r.key = ident
    BY DEF Named, In
  <2>3. r \in tables
    BY <1>4, <2>1, <2>2 DEF View
  <2>4. PICK v \in tables : v.tab = "users" /\ v.id = r.num
    BY <2>2, <2>3 DEF Core, Db, RefsOK
  <2>5. v.id # u.id
    BY <1>4, <2>1, <2>4
  <2>6. v \in View(p)
    <3> SUFFICES ASSUME NEW t \in own[p], t.id = v.id PROVE FALSE
      BY DEF View, Ids
    <3>1. t.tab = "users"
      BY <2>4 DEF Core, Db, UpdatesOK, Follows
    <3> QED
      BY <2>1, <2>5, <3>1
  <2>7. v.key # e.user
    <3> SUFFICES ASSUME v.key = e.user PROVE FALSE
      OBVIOUS
    <3>1. u \in View(p)
      BY DEF View
    <3> HIDE DEF e
    <3>2. <<"users", e.user>> \in Entries(v) /\ <<"users", e.user>> \in Entries(u)
      BY <1>2, <2>1, <2>4, EntriesHad DEF PlainTab
    <3>3. Clash(u, v)
      BY <3>2 DEF Clash
    <3> QED
      BY <2>5, <2>6, <3>1, <3>3 DEF Core, Db, EntriesOK
  <2> DEFINE a == Answer(e, "TF-CFG-004", job[p].id)
  <2>8. a.about = e /\ a.out = "TF-CFG-004"
    BY DEF Answer
  <2>9. "op" \notin DOMAIN e
    BY <1>1, <1>2, RequestFacts
  <2>10. Told(a, tables)
    <3>1. OwnedByOther(ident, e.user, tables)
      BY <2>2, <2>3, <2>4, <2>7 DEF OwnedByOther
    <3> HIDE DEF a, e
    <3> QED
      BY <1>3, <2>8, <2>9, <3>1 DEF Told, Names, Enrols
  <2>11. "TF-CFG-004" \in Codes /\ pc[p] # "idle"
    BY <1>1 DEF Codes
  <2>12. PICK s \in {"reply", "user"}, j \in Jobs :
              /\ pc' = [pc EXCEPT ![p] = s] /\ job' = [job EXCEPT ![p] = j]
              /\ own' = [own EXCEPT ![p] = {}]
              /\ j.said = job[p].said \cup {a}
    <3>1. job[p].item \in 1..Len(job[p].req.list) /\ job[p].req.op = "upsert_roster"
      BY <1>1
    <3>2. EndItem(p, "TF-CFG-004") /\ a = Answer(Item(p), "TF-CFG-004", job[p].id)
      BY <1>4
    <3> HIDE DEF a
    <3>3. \E s \in {"reply", "user"}, j \in Jobs :
              /\ pc' = [pc EXCEPT ![p] = s] /\ job' = [job EXCEPT ![p] = j]
              /\ own' = [own EXCEPT ![p] = {}]
              /\ j.req = job[p].req /\ j.version = job[p].version
              /\ j.said = job[p].said \cup {Answer(Item(p), "TF-CFG-004", job[p].id)}
              /\ Control(s, j)
      BY <2>11, <3>1, <3>2, ItemEnds, Zenon
    <3> QED
      BY <3>2, <3>3, Zenon
  <2> HIDE DEF a
  <2>13. Alone(p) /\ pc'[p] = s /\ job'[p] = j
    BY <1>1, <2>12 DEF Alone, Core
  <2> QED
    BY <1>1, <2>10, <2>12, <2>13 DEF Honest, Numbering, Numbered
<1>5. CASE Goto(p, "claim") /\ UNCHANGED <<own, job>>
  <2>1. pc' = [pc EXCEPT ![p] = "claim"] /\ job' = [job EXCEPT ![p] = job[p]] /\ own' = own
    BY <1>5, SameJob DEF Goto
  <2>2. ~Numbering("claim", job[p])
    BY DEF Numbering, Numbered
  <2> QED
    BY <1>1, <2>1, <2>2, HonestQuiet
<1> QED
  BY <1>4, <1>5 DEF CheckOwner

\* INSERT INTO user_identifiers
LEMMA HonestClaim == ASSUME Core, NEW p \in Procs, ClaimIdentifier(p) PROVE Honest(p)
<1> DEFINE j == [job[p] EXCEPT !.pos = @ + 1]
           s == IF job[p].pos = Len(Item(p).identifiers) THEN "commit" ELSE "owner"
           d == DraftIdentifier(p)
<1>1. /\ answers' = answers /\ tables' = tables /\ job' = [job EXCEPT ![p] = j]
      /\ job[p].req.op = "upsert_roster"
  BY Known DEF ClaimIdentifier, Step, Control
<1>2. j.req = job[p].req /\ j.version = job[p].version /\ j.said = job[p].said
  BY SameJob
<1>3. (Goto(p, s) /\ own' = own) \/ Wrote(p, d, s)
  BY DEF ClaimIdentifier
<1> HIDE DEF j, s, d
<1>4. ~Numbering(s, job[p]) /\ job[p].req.op # "create_parameter_version"
  BY <1>1 DEF Numbering
<1>5. CASE Goto(p, s) /\ own' = own
  <2>1. pc' = [pc EXCEPT ![p] = s]
    BY <1>5 DEF Goto
  <2> QED
    BY <1>1, <1>2, <1>4, <1>5, <2>1, HonestQuiet
<1>6. CASE Wrote(p, d, s)
  BY <1>1, <1>2, <1>4, <1>6, HonestWrite
<1> QED
  BY <1>3, <1>5, <1>6

-------------------------------------------------------------------------------
(* COMMIT, and what was said before *)

\* The links of a committed row are all committed with it.
LEMMA LinksFixed ==
    ASSUME Db, NEW p \in Procs, NEW x \in Ids(tables)
    PROVE  {l \in View(p) : l.tab = "links" /\ l.num = x} = {l \in tables : l.tab = "links" /\ l.num = x}
<1>1. ASSUME NEW l \in own[p], l.tab = "links", l.num = x PROVE FALSE
  BY <1>1 DEF Db, RefsOK
<1>2. ASSUME NEW l \in tables, l.tab = "links", l.num = x PROVE l \in View(p)
  <2> SUFFICES ASSUME NEW t \in own[p], t.id = l.id PROVE FALSE
    BY <1>2 DEF View, Ids
  <2>1. t.tab = "links" /\ t.num = x
    BY <1>2 DEF Db, UpdatesOK, Follows
  <2> QED
    BY <1>1, <2>1
<1>3. \A l \in View(p) : l \in own[p] \/ l \in tables
  BY DEF View
<1> QED
  BY <1>1, <1>2, <1>3

\* What was true of the committed rows is true of them after a commit.
LEMMA ToldAfterCommit ==
    ASSUME Db, NEW p \in Procs, NEW a, Told(a, tables)
    PROVE  Told(a, View(p))
<1>1. \A t \in tables : \E r \in View(p) : r.id = t.id /\ r.tab = t.tab /\ r.key = t.key
  BY StillThere DEF Follows
<1>2. Names(a, View(p))
  <2> SUFFICES ASSUME "op" \in DOMAIN a.about, a.id # None, a.about.op \in Keyed
               PROVE  \E r \in View(p) :
                        /\ r.tab = TableOf(a.about.op) /\ r.id = a.id /\ r.key = a.about.key
                        /\ a.out = "done" =>
                            Cardinality({l \in View(p) : l.tab = "links" /\ l.num = r.id}) = Len(a.about.list)
    BY DEF Names
  <2>1. PICK t \in tables :
                /\ t.tab = TableOf(a.about.op) /\ t.id = a.id /\ t.key = a.about.key
                /\ a.out = "done" =>
                     Cardinality({l \in tables : l.tab = "links" /\ l.num = t.id}) = Len(a.about.list)
    BY DEF Told, Names
  <2>2. PICK r \in View(p) : r.id = t.id /\ r.tab = t.tab /\ r.key = t.key
    BY <1>1
  <2>3. t.id \in Ids(tables)
    BY DEF Ids
  <2>4. {l \in View(p) : l.tab = "links" /\ l.num = r.id} = {l \in tables : l.tab = "links" /\ l.num = t.id}
    BY <2>2, <2>3, LinksFixed
  <2> QED
    BY <2>1, <2>2, <2>4
<1>3. \A i : Owned(i, tables) => Owned(i, View(p))
  BY <1>1 DEF Owned
<1>4. \A i, k : OwnedByOther(i, k, tables) => OwnedByOther(i, k, View(p))
  <2> SUFFICES ASSUME NEW i, NEW k, OwnedByOther(i, k, tables) PROVE OwnedByOther(i, k, View(p))
    OBVIOUS
  <2>1. PICK r \in tables, u \in tables :
            /\ r.tab = "user_identifiers" /\ r.key = i
            /\ u.tab = "users" /\ u.id = r.num /\ u.key # k
    BY DEF OwnedByOther
  <2>2. PICK r2 \in View(p) : r2.tab = "user_identifiers" /\ r2.key = i /\ r2.num = r.num
    BY <2>1, StillThere DEF Follows
  <2>3. PICK u2 \in View(p) : u2.id = u.id /\ u2.tab = "users" /\ u2.key = u.key
    BY <1>1, <2>1
  <2> QED
    BY <2>1, <2>2, <2>3 DEF OwnedByOther
<1>5. Enrols(a, View(p))
  BY <1>1, <1>3, <1>4 DEF Told, Enrols
<1> QED
  BY <1>2, <1>5 DEF Told

\* What a handler says when it has committed is true.
LEMMA CommitTold ==
    ASSUME Core, NEW p \in Procs, Commit(p)
    PROVE  /\ Alone(p) /\ pc'[p] \in {"reply", "user"} /\ answers' = answers /\ tables' = View(p)
           /\ \A a \in job'[p].said : a \in job[p].said \/ Told(a, View(p))
<1>1. /\ pc[p] = "commit" /\ tables' = View(p) /\ answers' = answers
      /\ job[p] \in Jobs /\ job[p].req \in Requests /\ DOMAIN own = Procs
  BY Known DEF Commit, Step
<1>2. ASSUME NEW s \in {"reply", "user"}, NEW j, own' = [own EXCEPT ![p] = {}],
             pc' = [pc EXCEPT ![p] = s], job' = [job EXCEPT ![p] = j]
      PROVE  Alone(p) /\ pc'[p] = s /\ job'[p] = j
  BY <1>1, <1>2 DEF Alone, Core
<1>3. CASE job[p].req.op = "upsert_roster" /\ EndItem(p, "upserted")
  <2> DEFINE e == Item(p)
             a == Answer(e, "upserted", job[p].id)
  <2>1. /\ job[p].item \in 1..Len(job[p].req.list) /\ job[p].req.op = "upsert_roster"
        /\ pc[p] # "idle" /\ "upserted" \in Codes
    BY <1>1, <1>3, Known DEF Control, Codes
  <2>2. e = job[p].req.list[job[p].item] /\ "op" \notin DOMAIN e /\ Len(e.identifiers) \in Nat
    BY <1>1, <2>1, ItemFacts, RequestFacts
  <2>3. job[p].pos = Len(e.identifiers) + 1
    BY <1>1, <2>1, <2>2, Known DEF Control
  <2>4. PICK u \in own[p] :
        /\ u.id = job[p].id /\ u.tab = "users" /\ u.key = e.user
        /\ \A n \in 1..(job[p].pos - 1) : \E r \in View(p) :
                r.tab = "user_identifiers" /\ r.key = e.identifiers[n]
    <3>1. Enrolled(job[p], own[p], tables)
      BY <1>1, <2>1, Known DEF Written
    <3> HIDE DEF e
    <3> QED
      BY <2>2, <3>1 DEF Enrolled, View
  <2>5. a.about = e /\ a.out = "upserted" /\ a.id = job[p].id
    BY DEF Answer
  <2>6. a = Answer(Item(p), "upserted", job[p].id)
    OBVIOUS
  <2>7. PICK s \in {"reply", "user"}, j \in Jobs :
              /\ pc' = [pc EXCEPT ![p] = s] /\ job' = [job EXCEPT ![p] = j]
              /\ own' = [own EXCEPT ![p] = {}]
              /\ j.req = job[p].req /\ j.version = job[p].version
              /\ j.said = job[p].said \cup {Answer(Item(p), "upserted", job[p].id)}
              /\ Control(s, j)
    BY <1>3, <2>1, ItemEnds, Zenon
  <2>8. u \in View(p)
    BY DEF View
  <2> HIDE DEF a, e
  <2>9. 1..(job[p].pos - 1) = 1..Len(e.identifiers)
    BY <2>2, <2>3
  <2>10. Told(a, View(p))
    BY <2>2, <2>4, <2>5, <2>8, <2>9 DEF Told, Names, Enrols, Owned
  <2> QED
    BY <1>1, <1>2, <2>6, <2>7, <2>10
<1>4. CASE /\ job[p].req.op # "upsert_roster"
           /\ own' = [own EXCEPT ![p] = {}]
           /\ job' = [job EXCEPT ![p].said = {Answer(job[p].req, "done", job[p].id)}]
           /\ Goto(p, "reply")
  <2> DEFINE a == Answer(job[p].req, "done", job[p].id)
             j == [job[p] EXCEPT !.said = {a}]
  <2>1. a.about = job[p].req /\ a.out = "done" /\ a.id = job[p].id
    BY DEF Answer
  <2>2. "identifiers" \notin DOMAIN job[p].req
    BY <1>1, RequestFacts
  <2>3. job' = [job EXCEPT ![p] = j] /\ pc' = [pc EXCEPT ![p] = "reply"]
    BY <1>4 DEF Goto
  <2>4. j.said = {a}
    BY <1>1 DEF Jobs
  <2> HIDE DEF a, j
  <2>5. ASSUME job[p].req.op \in Keyed
        PROVE  \E r \in View(p) :
                  /\ r.tab = TableOf(job[p].req.op) /\ r.id = job[p].id /\ r.key = job[p].req.key
                  /\ Cardinality({l \in View(p) : l.tab = "links" /\ l.num = r.id}) = Len(job[p].req.list)
    <3>1. /\ Declared(job[p], own[p], tables)
          /\ Cardinality(LinksIn(own[p])) = Len(job[p].req.list)
      BY <1>1, <2>5, Known DEF Written, Keyed, Declaring
    <3>2. PICK d \in own[p] :
            /\ d.id = job[p].id /\ d.id \notin Ids(tables)
            /\ d.tab = TableOf(job[p].req.op) /\ d.key = job[p].req.key
            /\ \A r \in own[p] : \/ r = d
                                 \/ r.tab = "links" /\ r.num = d.id
                                 \/ r.tab = "change_log" /\ job[p].req.op = "declare_change_event"
                                 \/ Closes(job[p], r, tables)
      BY <3>1 DEF Declared
    <3>3. d.tab # "links"
      BY <2>5, <3>2 DEF TableOf, Keyed
    <3>4. \A l \in own[p] : l.tab = "links" => l.num = d.id
      BY <3>2, <3>3 DEF Closes
    <3>5. \A l \in tables : l.tab = "links" => l.num # d.id
      BY <3>2 DEF Core, Db, RefsOK
    <3>6. {l \in View(p) : l.tab = "links" /\ l.num = d.id} = LinksIn(own[p])
      BY <3>4, <3>5 DEF View, LinksIn
    <3>7. d \in View(p)
      BY DEF View
    <3> QED
      BY <3>1, <3>2, <3>6, <3>7
  <2>6. Told(a, View(p))
    BY <2>1, <2>2, <2>5 DEF Told, Names, Enrols
  <2>7. Alone(p) /\ pc'[p] = "reply" /\ job'[p] = j
    BY <1>2, <1>4, <2>3
  <2> QED
    BY <1>1, <2>4, <2>6, <2>7
<1> QED
  BY <1>3, <1>4 DEF Commit

\* Which rows of a table a commit adds or changes: the row that was inserted,
\* and the license that ends where it begins.
LEMMA CommittedRows ==
    ASSUME Core, NEW p \in Procs, pc[p] = "commit",
           NEW tab \in {"parameter_sets", "deployment_licenses"}
    PROVE  \/ {r \in own[p] : r.tab = tab} = {}
           \/ /\ tab = TableOf(job[p].req.op) /\ job[p].req.op \in Declaring
              /\ \E d \in own[p] :
                    /\ d.tab = tab /\ d.key = job[p].req.key /\ d.from = job[p].req.from /\ d.upto = None
                    /\ d.id \notin Ids(tables)
                    /\ job[p].req.op = "create_parameter_version" => d.num = job[p].version
                    /\ \A r \in own[p] : r.tab = tab => r = d \/ Closes(job[p], r, tables)
<1>1. job[p].req.op \in Handlers
  BY Known, RequestFacts
<1>2. CASE job[p].req.op \in Declaring
  <2>1. Declared(job[p], own[p], tables)
    BY <1>2, Known DEF Written
  <2>2. PICK d \in own[p] :
        /\ d.id = job[p].id /\ d.id \notin Ids(tables)
        /\ d.tab = TableOf(job[p].req.op) /\ d.key = job[p].req.key /\ d.from = job[p].req.from
        /\ d.upto = None
        /\ job[p].req.op = "create_parameter_version" => d.num = job[p].version
        /\ \A r \in own[p] : \/ r = d
                             \/ r.tab = "links" /\ r.num = d.id
                             \/ r.tab = "change_log" /\ job[p].req.op = "declare_change_event"
                             \/ Closes(job[p], r, tables)
    BY <2>1 DEF Declared
  <2>3. \A r \in own[p] : r.tab = tab => r = d \/ Closes(job[p], r, tables)
    BY <2>2
  <2>4. CASE d.tab = tab
    BY <1>2, <2>2, <2>3, <2>4
  <2>5. CASE d.tab # tab
    <3>1. \A r \in own[p] : ~Closes(job[p], r, tables) \/ r.tab # tab
      BY <2>2, <2>5 DEF Closes, TableOf
    <3> QED
      BY <2>3, <2>5, <3>1
  <2> QED
    BY <2>4, <2>5
<1>3. CASE job[p].req.op = "upsert_roster"
  BY <1>3, Known DEF Written, Enrolled
<1>4. CASE job[p].req.op \in {"delete_webhook", "update_deployment"}
  BY <1>4, Known DEF Written
<1> QED
  BY <1>1, <1>2, <1>3, <1>4 DEF Handlers

-------------------------------------------------------------------------------
(* Versions *)

\* NumberVersion gives the version after the last one.
LEMMA NumberFacts ==
    ASSUME Core, NEW p \in Procs, NumberVersion(p), NEW n \in Nat, Versions = 1..n
    PROVE  job' = [job EXCEPT ![p] = [job[p] EXCEPT !.version = n + 1]]
<1>1. View(p) = tables
  BY Known DEF NumberVersion, Step, Reading
<1>2. {r.num : r \in In(p, "parameter_sets")} = 1..n
  BY <1>1 DEF Versions, Committed, In
<1>3. Max({0} \cup 1..n) = n
  <2> DEFINE T == {0} \cup 1..n
  <2>1. n \in T /\ \A y \in T : n >= y /\ y \in Int
    OBVIOUS
  <2> HIDE DEF T
  <2>2. Max(T) \in T /\ \A y \in T : Max(T) >= y
    BY <2>1 DEF Max
  <2>3. PICK m \in Int : m = Max(T) /\ m \in T /\ m >= n
    BY <2>1, <2>2
  <2>4. Max(T) = n
    <3>1. n >= m
      BY <2>1, <2>3
    <3>2. m = n
      BY <2>3, <3>1
    <3> QED
      BY <2>3, <3>2
  <2> QED
    BY <2>4 DEF T
<1> DEFINE v == 1 + Max({0} \cup {r.num : r \in In(p, "parameter_sets")})
<1>4. v = n + 1
  <2>1. v = 1 + Max({0} \cup 1..n)
    BY <1>2, Zenon
  <2> HIDE DEF v
  <2>2. v = 1 + n
    BY <1>3, <2>1, Zenon
  <2> QED
    BY <2>2
<1>5. job' = [job EXCEPT ![p] = [job[p] EXCEPT !.version = v]]
  BY DEF NumberVersion
<1> HIDE DEF v
<1> QED
  BY <1>4, <1>5

\* SELECT COALESCE(MAX(version), 0) + 1
LEMMA NumberVersionOK ==
    ASSUME Core, VersionInv, NEW p \in Procs, NumberVersion(p)
    PROVE  Core' /\ VersionInv' /\ (AnswersInv => AnswersInv')
<1>1. /\ pc[p] = "number" /\ UNCHANGED <<tables, own, workload, answers>>
      /\ pc' = [pc EXCEPT ![p] = "insert"]
      /\ job[p].req.op = "create_parameter_version" /\ job[p].pos = 1 /\ own[p] = {}
      /\ job[p] \in Jobs /\ job[p].req \in Requests
  BY Known DEF NumberVersion, Step, Goto, Control, Reading
<1>2. PICK n \in Nat : /\ Versions = 1..n
                       /\ \A q \in Procs : Numbering(pc[q], job[q]) => job[q].version \in 1..(n + 1)
  BY DEF VersionInv
<1> DEFINE j == [job[p] EXCEPT !.version = n + 1]
<1>3. job' = [job EXCEPT ![p] = j]
  BY <1>2, NumberFacts
<1>4. j \in Jobs /\ j.req = job[p].req /\ j.pos = 1 /\ j.version = n + 1 /\ j.said = job[p].said
  BY <1>1 DEF Jobs
<1> HIDE DEF j
<1>5. Control("insert", j) /\ Written("insert", j, own[p], tables) /\ "insert" \in Steps
  BY <1>1, <1>4 DEF Control, Written, Reading, Steps, Declaring
<1>6. Core'
  BY <1>1, <1>3, <1>4, <1>5, QuietOK
<1>7. Versions' = 1..n
  BY <1>1, <1>2 DEF Versions, Committed
<1>8. ASSUME NEW q \in Procs, Numbering(pc[q], job[q])' PROVE job'[q].version \in 1..(n + 1)
  <2>1. CASE q = p
    BY <1>3, <1>4, <2>1 DEF Core
  <2>2. CASE q # p
    BY <1>1, <1>2, <1>3, <1>8, <2>2 DEF Core, Numbering
  <2> QED
    BY <2>1, <2>2
<1>9. VersionInv'
  BY <1>7, <1>8 DEF VersionInv
<1>10. AnswersInv => AnswersInv'
  <2>1. \A q \in Procs : job'[q].said = job[q].said
    BY <1>3, <1>4 DEF Core
  <2>2. \A a : Told(a, tables)' = Told(a, tables)
    BY <1>1 DEF Told, Names, Enrols, Owned, OwnedByOther
  <2> QED
    BY <1>1, <2>1, <2>2 DEF AnswersInv
<1> QED
  BY <1>6, <1>9, <1>10

\* A commit adds the version after the last one, or none.
LEMMA VersionsCommitted ==
    ASSUME Core, VersionInv, NEW p \in Procs, Commit(p)
    PROVE  VersionInv'
<1>1. /\ pc[p] = "commit" /\ Alone(p) /\ pc'[p] \in {"reply", "user"} /\ tables' = View(p)
  BY CommitTold DEF Commit, Step
<1>2. PICK n \in Nat : /\ Versions = 1..n
                       /\ \A q \in Procs : Numbering(pc[q], job[q]) => job[q].version \in 1..(n + 1)
  BY DEF VersionInv
<1>3. \A q \in Procs : Numbering(pc[q], job[q])' => job'[q].version \in 1..(n + 1)
  BY <1>1, <1>2 DEF Numbering, Numbered, Alone
<1> DEFINE mine == {r \in own[p] : r.tab = "parameter_sets"}
<1>4. ASSUME NEW r \in Committed("parameter_sets"), \A s \in mine : s.id # r.id PROVE r \in View(p)
  <2> SUFFICES ASSUME NEW s \in own[p], s.id = r.id PROVE FALSE
    BY DEF View, Ids, Committed
  <2>1. s.tab = "parameter_sets"
    BY DEF Core, Db, UpdatesOK, Follows, Committed
  <2> QED
    BY <1>4, <2>1
<1>5. CASE mine = {}
  <2>1. Committed("parameter_sets")' = Committed("parameter_sets")
    BY <1>1, <1>4, <1>5 DEF Committed, View
  <2>2. Versions' = 1..n
    BY <1>2, <2>1 DEF Versions
  <2> QED
    BY <1>3, <2>2 DEF VersionInv
<1>6. CASE mine # {}
  <2>1. /\ TableOf(job[p].req.op) = "parameter_sets" /\ job[p].req.op \in Declaring
        /\ \E d \in own[p] :
              /\ d.tab = "parameter_sets" /\ d.id \notin Ids(tables)
              /\ job[p].req.op = "create_parameter_version" => d.num = job[p].version
              /\ \A r \in own[p] : r.tab = "parameter_sets" => r = d \/ Closes(job[p], r, tables)
    BY <1>1, <1>6, CommittedRows
  <2>2. job[p].req.op = "create_parameter_version"
    BY <2>1 DEF TableOf, Declaring
  <2>3. PICK d \in own[p] :
            /\ d.tab = "parameter_sets" /\ d.id \notin Ids(tables) /\ d.num = job[p].version
            /\ mine = {d}
    BY <2>1, <2>2 DEF Closes
  <2>4. job[p].version \in 1..(n + 1)
    BY <1>1, <1>2, <2>2 DEF Numbering, Numbered
  <2>5. Committed("parameter_sets")' = Committed("parameter_sets") \cup {d}
    <3> HIDE DEF mine
    <3>1. \A r \in Committed("parameter_sets") : r \in View(p)
      BY <1>4, <2>3 DEF Committed, Ids
    <3>2. \A r \in own[p] : r.tab = "parameter_sets" => r = d
      BY <2>3 DEF mine
    <3> QED
      BY <1>1, <2>3, <3>1, <3>2 DEF Committed, View
  <2>6. d.num \notin 1..n
    <3> SUFFICES ASSUME NEW r \in Committed("parameter_sets"), r.num = d.num PROVE FALSE
      BY <1>2 DEF Versions
    <3>1. r \in View(p) /\ d \in View(p) /\ r.tab = "parameter_sets"
      BY <1>4, <2>3 DEF View, Committed, Ids
    <3>2. d.num # None
      BY <2>3, <2>4, ConfigAssumption
    <3>3. <<"version", d.num>> \in Entries(d) /\ <<"version", d.num>> \in Entries(r)
      BY <2>3, <3>1, <3>2, EntriesHad
    <3>4. r = d
      BY <3>1, <3>3 DEF Core, Db, EntriesOK, Clash
    <3> QED
      BY <2>3, <3>4 DEF Ids, Committed
  <2>7. Versions' = Versions \cup {d.num}
    BY <2>5 DEF Versions
  <2>8. Versions' = 1..(n + 1)
    BY <1>2, <2>3, <2>4, <2>6, <2>7
  <2>9. \A q \in Procs : Numbering(pc[q], job[q])' => job'[q].version \in 1..(n + 1 + 1)
    BY <1>3
  <2> QED
    BY <2>8, <2>9 DEF VersionInv
<1> QED
  BY <1>5, <1>6

-------------------------------------------------------------------------------
(* Licenses *)

Licenses(T, k) == {r \in T : r.tab = "deployment_licenses" /\ r.key = k}

\* The license r does not overlap the others of L, and is followed by one of
\* them.
Tiled(r, L) ==
    /\ \E s \in L : s.upto = None
    /\ r.upto = None => \A s \in L : s.id # r.id => s.upto # None /\ s.upto <= r.from
    /\ r.upto # None => /\ r.from <= r.upto
                        /\ \E s \in L : s.id # r.id /\ s.from = r.upto
                        /\ \A s \in L : s.id # r.id =>
                                s.from >= r.upto \/ (s.upto # None /\ s.upto <= r.from)

\* LicensesTile, one deployment at a time, of the licenses C.
LEMMA TilesByKey ==
    ASSUME NEW C, \A r, s \in C : r.id = s.id => r = s, NEW r \in C
    PROVE  LET others == {s \in C : s.key = r.key /\ s.id # r.id} IN
           (/\ \E s \in others \cup {r} : s.upto = None
            /\ r.upto = None => \A s \in others : s.upto # None /\ s.upto <= r.from
            /\ r.upto # None => /\ r.from <= r.upto
                                /\ \E s \in others : s.from = r.upto
                                /\ \A s \in others : s.from >= r.upto \/ (s.upto # None /\ s.upto <= r.from))
           <=> Tiled(r, {s \in C : s.key = r.key})
<1> DEFINE others == {s \in C : s.key = r.key /\ s.id # r.id}
           L == {s \in C : s.key = r.key}
<1>1. \A s : s \in others <=> s \in L /\ s.id # r.id
  OBVIOUS
<1>2. r \in L /\ \A s \in L : s.id = r.id => s = r
  OBVIOUS
<1> HIDE DEF others, L
<1>3. (\E s \in others \cup {r} : s.upto = None) <=> (\E s \in L : s.upto = None)
  BY <1>1, <1>2
<1>4. (/\ \E s \in others \cup {r} : s.upto = None
       /\ r.upto = None => \A s \in others : s.upto # None /\ s.upto <= r.from
       /\ r.upto # None => /\ r.from <= r.upto
                           /\ \E s \in others : s.from = r.upto
                           /\ \A s \in others : s.from >= r.upto \/ (s.upto # None /\ s.upto <= r.from))
      <=> Tiled(r, L)
  BY <1>1, <1>3 DEF Tiled
<1> QED
  BY <1>4 DEF others, L

\* A commit leaves licenses alone, or declares one where the current one ends.
LEMMA LicensesCommitted ==
    ASSUME Core, NEW p \in Procs, Commit(p), LicensesTile
    PROVE  LicensesTile'
<1>1. pc[p] = "commit" /\ tables' = View(p) /\ Db /\ IdsOK
  BY DEF Commit, Step, Core, Db
<1>2. IdsOK'
  BY CommitOK DEF Core, Db
<1>3. \A r \in tables : r.tab = "deployment_licenses" => Tiled(r, Licenses(tables, r.key))
  <2> DEFINE C == Committed("deployment_licenses")
  <2>1. \A s, t \in C : s.id = t.id => s = t
    BY <1>1 DEF IdsOK, Committed
  <2>2. ASSUME NEW r \in C PROVE Tiled(r, {s \in C : s.key = r.key})
    <3> HIDE DEF C
    <3>1. /\ \E s \in {s \in C : s.key = r.key /\ s.id # r.id} \cup {r} : s.upto = None
          /\ r.upto = None =>
                \A s \in {s \in C : s.key = r.key /\ s.id # r.id} : s.upto # None /\ s.upto <= r.from
          /\ r.upto # None =>
                /\ r.from <= r.upto
                /\ \E s \in {s \in C : s.key = r.key /\ s.id # r.id} : s.from = r.upto
                /\ \A s \in {s \in C : s.key = r.key /\ s.id # r.id} :
                        s.from >= r.upto \/ (s.upto # None /\ s.upto <= r.from)
      BY <2>2, Zenon DEF LicensesTile, C
    <3> QED
      BY <2>1, <2>2, <3>1, TilesByKey, Zenon
  <2>3. \A r \in C : {s \in C : s.key = r.key} = Licenses(tables, r.key)
    BY DEF Licenses, Committed
  <2>4. \A r \in tables : r.tab = "deployment_licenses" => r \in C
    BY DEF Committed
  <2> HIDE DEF C
  <2> QED
    BY <2>2, <2>3, <2>4
<1>4. /\ \A r \in tables : IsRow(r)
      /\ \A r \in View(p) : IsRow(r)
  BY <1>1 DEF Db, RowsOK, View
<1> DEFINE mine == {r \in own[p] : r.tab = "deployment_licenses"}
<1>5. ASSUME NEW r \in tables, r.tab = "deployment_licenses", \A s \in mine : s.id # r.id
      PROVE  r \in View(p)
  <2> SUFFICES ASSUME NEW s \in own[p], s.id = r.id PROVE FALSE
    BY DEF View, Ids
  <2>1. s.tab = "deployment_licenses"
    BY <1>1, <1>5 DEF Db, UpdatesOK, Follows
  <2> QED
    BY <1>5, <2>1
<1> SUFFICES ASSUME NEW r \in View(p), r.tab = "deployment_licenses"
             PROVE  Tiled(r, Licenses(View(p), r.key))
  <2> DEFINE C == Committed("deployment_licenses")'
  <2>1. \A s, t \in C : s.id = t.id => s = t
    BY <1>2 DEF IdsOK, Committed
  <2>2. \A r \in C : r \in View(p) /\ r.tab = "deployment_licenses" /\ {s \in C : s.key = r.key} = Licenses(View(p), r.key)
    BY <1>1 DEF Licenses, Committed
  <2>3. ASSUME NEW r \in C
        PROVE  LET others == {s \in C : s.key = r.key /\ s.id # r.id} IN
           /\ \E s \in others \cup {r} : s.upto = None
           /\ r.upto = None => \A s \in others : s.upto # None /\ s.upto <= r.from
           /\ r.upto # None => /\ r.from <= r.upto
                               /\ \E s \in others : s.from = r.upto
                               /\ \A s \in others : s.from >= r.upto \/ (s.upto # None /\ s.upto <= r.from)
    <3> HIDE DEF C
    <3>1. Tiled(r, {s \in C : s.key = r.key})
      BY <2>2, <2>3
    <3> QED
      BY <2>1, <2>3, <3>1, TilesByKey, Zenon
  <2> QED
    BY <2>3, Zenon DEF LicensesTile
<1>6. \A s \in View(p) : s.tab = "deployment_licenses" => s \in mine \/ s \in tables
  BY DEF View
<1>7. CASE mine = {}
  <2>1. r \in tables /\ Licenses(View(p), r.key) = Licenses(tables, r.key)
    BY <1>5, <1>6, <1>7 DEF Licenses
  <2> QED
    BY <1>3, <2>1
<1>8. CASE mine # {}
  <2>1. /\ job[p].req.op \in Declaring /\ TableOf(job[p].req.op) = "deployment_licenses"
        /\ \E d \in own[p] :
              /\ d.tab = "deployment_licenses" /\ d.key = job[p].req.key /\ d.from = job[p].req.from
              /\ d.upto = None /\ d.id \notin Ids(tables)
              /\ \A s \in own[p] : s.tab = "deployment_licenses" => s = d \/ Closes(job[p], s, tables)
    BY <1>1, <1>8, CommittedRows
  <2>2. PICK d \in mine :
              /\ d.key = job[p].req.key /\ d.from = job[p].req.from
              /\ d.upto = None /\ d.id \notin Ids(tables)
              /\ \A s \in mine : s = d \/ Closes(job[p], s, tables)
    BY <2>1
  <2>3. /\ d \in View(p) /\ d.tab = "deployment_licenses" /\ d.key # None /\ d.from \in Int
        /\ mine \subseteq View(p)
    <3>1. d \in View(p) /\ mine \subseteq View(p) /\ d.tab = "deployment_licenses"
      BY DEF View
    <3> QED
      BY <1>4, <3>1 DEF IsRow
  <2> DEFINE k == job[p].req.key
             L == Licenses(View(p), k)
  <2>4. \A s \in tables : s.tab = "deployment_licenses" /\ s.key # k =>
            s \in View(p)
    <3> SUFFICES ASSUME NEW s \in tables, s.tab = "deployment_licenses", s.key # k, NEW t \in mine, t.id = s.id
                 PROVE  FALSE
      BY <1>5
    <3>1. t.key = s.key
      BY <1>1 DEF Db, UpdatesOK, Follows
    <3>2. t.key = k
      BY <2>2 DEF Closes
    <3> QED
      BY <3>1, <3>2
  <2>5. CASE r.key # k
    <3>1. \A s \in mine : s.key = k
      BY <2>2 DEF Closes
    <3>2. r \in tables /\ Licenses(View(p), r.key) = Licenses(tables, r.key)
      BY <1>6, <2>4, <2>5, <3>1 DEF Licenses
    <3> QED
      BY <1>3, <3>2
  <2>6. CASE r.key = k /\ \E c \in mine : c # d
    <3>1. PICK c \in mine : c # d
      BY <2>6
    <3>2. PICK t \in tables : /\ t.id = c.id /\ t.tab = "deployment_licenses" /\ t.key = k
                              /\ t.from = c.from /\ t.upto = None /\ t.from <= job[p].req.from
                              /\ c.key = k /\ c.upto = job[p].req.from
      BY <2>2, <3>1 DEF Closes
    <3>3. \A s \in mine : s = d \/ s = c
      <4> SUFFICES ASSUME NEW s \in mine, s # d PROVE s = c
        OBVIOUS
      <4>1. PICK t2 \in tables : t2.id = s.id /\ t2.tab = "deployment_licenses" /\ t2.key = k /\ t2.upto = None
        BY <2>2 DEF Closes
      <4>2. <<"current", k>> \in Entries(t) /\ <<"current", k>> \in Entries(t2)
        BY <2>2, <2>3, <3>2, <4>1, EntriesHad
      <4>3. t = t2
        BY <1>1, <4>2 DEF Db, EntriesOK, Clash
      <4>4. s.id = c.id
        BY <3>2, <4>1, <4>3
      <4> QED
        BY <1>1, <4>4 DEF IdsOK
    <3>4. c.upto # None /\ c.upto \in Int /\ c.from \in Int /\ c.from <= d.from /\ c.upto = d.from
      BY <2>2, <2>3, <3>2, <1>4, ConfigAssumption DEF IsRow
    <3>5. Tiled(t, Licenses(tables, k))
      BY <1>3, <3>2
    <3>6. ASSUME NEW s \in L, s # d, s # c
          PROVE  /\ s \in Licenses(tables, k) /\ s.id # t.id
                 /\ s.from \in Int /\ s.upto \in Int /\ s.upto # None /\ s.upto <= c.from
      <4>1. s \in tables /\ s.tab = "deployment_licenses" /\ s.key = k
        BY <1>6, <3>3, <3>6 DEF Licenses
      <4>2. s.id # t.id
        <5>1. s \in View(p) /\ c \in View(p)
          BY <3>6, <2>3 DEF Licenses
        <5> QED
          BY <1>1, <3>2, <3>6, <5>1, ViewIds
      <4>3. s.upto # None /\ s.upto <= t.from
        BY <3>2, <3>5, <4>1, <4>2 DEF Tiled, Licenses
      <4> QED
        BY <1>4, <3>2, <4>1, <4>2, <4>3 DEF Licenses, IsRow
    <3>7. c \in L /\ d \in L
      BY <2>2, <2>3, <3>2 DEF Licenses
    <3>8. \A s \in tables : s.tab = "deployment_licenses" /\ s.key = k /\ s.id # t.id => s \in L
      BY <1>5, <2>2, <3>2, <3>3 DEF Licenses, Ids
    <3>9. d.id # c.id
      BY <2>2, <3>2 DEF Ids
    <3>10. r \in L /\ L = Licenses(View(p), r.key)
      BY <2>6 DEF Licenses
    <3> HIDE DEF mine, L
    <3>11. CASE r = d
      <4>1. Tiled(d, L)
        BY <2>2, <2>3, <3>4, <3>6, <3>7 DEF Tiled
      <4> QED
        BY <3>11, <3>10, <4>1
    <3>12. CASE r = c
      <4>1. \A s \in L : s.id # c.id => s.from >= c.upto \/ (s.upto # None /\ s.upto <= c.from)
        BY <2>3, <3>4, <3>6
      <4>2. c.from <= c.upto /\ d.from = c.upto
        BY <3>4
      <4>3. Tiled(c, L)
        BY <2>2, <3>4, <3>7, <3>9, <4>1, <4>2 DEF Tiled
      <4> QED
        BY <3>12, <3>10, <4>3
    <3>13. CASE r # d /\ r # c
      <4>1. r \in L
        BY <2>6 DEF Licenses, L
      <4>2. /\ r \in Licenses(tables, k) /\ r.id # t.id
            /\ r.from \in Int /\ r.upto \in Int /\ r.upto # None /\ r.upto <= c.from
        BY <3>6, <3>13, <4>1
      <4>3. /\ r.from <= r.upto
            /\ \E s \in Licenses(tables, k) : s.id # r.id /\ s.from = r.upto
            /\ \A s \in Licenses(tables, k) : s.id # r.id =>
                    s.from >= r.upto \/ (s.upto # None /\ s.upto <= r.from)
        BY <1>3, <4>2 DEF Tiled, Licenses
      <4>4. \E s \in L : s.id # r.id /\ s.from = r.upto
        <5>1. PICK s \in Licenses(tables, k) : s.id # r.id /\ s.from = r.upto
          BY <4>3
        <5>2. CASE s.id = t.id
          <6>1. s = t
            BY <1>1, <5>2 DEF IdsOK, Licenses
          <6> QED
            BY <3>2, <3>7, <5>1, <6>1
        <5> QED
          BY <3>8, <5>1, <5>2 DEF Licenses
      <4>5. \A s \in L : s.id # r.id => s.from >= r.upto \/ (s.upto # None /\ s.upto <= r.from)
        BY <2>3, <3>4, <3>6, <4>2, <4>3
      <4>6. r.from <= r.upto
        BY <4>3
      <4> QED
        BY <2>2, <2>6, <3>7, <4>2, <4>4, <4>5, <4>6 DEF Tiled, L
    <3> QED
      BY <3>11, <3>12, <3>13
  <2>7. CASE r.key = k /\ mine = {d}
    <3>1. \A s \in tables : s.tab = "deployment_licenses" => s \in View(p)
      BY <1>5, <2>2, <2>7 DEF Ids
    <3>2. \A s \in tables : s.tab = "deployment_licenses" /\ s.key = k => s.upto # None
      <4> SUFFICES ASSUME NEW s \in tables, s.tab = "deployment_licenses", s.key = k, s.upto = None
                   PROVE  FALSE
        OBVIOUS
      <4>1. <<"current", k>> \in Entries(s) /\ <<"current", k>> \in Entries(d)
        BY <2>2, <2>3, EntriesHad
      <4>2. s = d
        BY <1>1, <2>3, <3>1, <4>1 DEF Db, EntriesOK, Clash
      <4> QED
        BY <2>2, <4>2 DEF Ids
    <3>3. \A s \in tables : s.tab = "deployment_licenses" => s.key # k
      <4> SUFFICES ASSUME NEW s \in tables, s.tab = "deployment_licenses", s.key = k PROVE FALSE
        OBVIOUS
      <4>1. \E t \in Licenses(tables, k) : t.upto = None
        BY <1>3 DEF Tiled
      <4> QED
        BY <3>2, <4>1 DEF Licenses
    <3>4. Licenses(View(p), k) = {d}
      BY <1>6, <2>2, <2>3, <2>7, <3>3 DEF Licenses
    <3>5. r = d
      BY <2>7, <3>4 DEF Licenses
    <3> QED
      BY <2>2, <2>7, <3>4, <3>5 DEF Tiled
  <2> QED
    BY <2>5, <2>6, <2>7
<1> QED
  BY <1>7, <1>8

-------------------------------------------------------------------------------
(* The invariant *)

Inv == Core /\ VersionInv /\ AnswersInv /\ LicensesTile

\* An honest step keeps versions, answers and licenses.
LEMMA HonestOK ==
    ASSUME Core, VersionInv, AnswersInv, LicensesTile, Core', NEW p \in Procs, Honest(p)
    PROVE  Inv'
<1>1. PICK n \in Nat : /\ Versions = 1..n
                       /\ \A q \in Procs : Numbering(pc[q], job[q]) => job[q].version \in 1..(n + 1)
  BY DEF VersionInv
<1>2. Versions' = 1..n
  BY <1>1 DEF Versions, Committed, Honest
<1>3. \A q \in Procs : Numbering(pc[q], job[q])' => job'[q].version \in 1..(n + 1)
  BY <1>1 DEF Honest, Alone, Numbering
<1>4. VersionInv'
  BY <1>2, <1>3 DEF VersionInv
<1>5. \A a : Told(a, tables)' = Told(a, tables)
  BY DEF Honest, Told, Names, Enrols, Owned, OwnedByOther
<1>6. \A q \in Procs : \A a \in job'[q].said : Told(a, tables)
  BY DEF Honest, Alone, AnswersInv
<1>7. AnswersInv'
  BY <1>5, <1>6 DEF AnswersInv, Honest
<1>8. LicensesTile'
  BY DEF Honest, LicensesTile, Committed
<1> QED
  BY <1>4, <1>7, <1>8 DEF Inv

\* A request arrives, is answered, or dies with its process.
LEMMA EndsHonest ==
    ASSUME Inv, NEW p \in Procs, Begin(p) \/ Reply(p) \/ Crash(p)
    PROVE  Inv'
<1>1. Core'
  BY BeginOK, EndsOK DEF Inv
<1>2. /\ tables' = tables /\ Alone(p)
      /\ ~Numbering(pc'[p], job'[p]) /\ job'[p].said = {}
  <2>1. DOMAIN own = Procs
    BY Known DEF Inv
  <2>2. CASE Begin(p)
    <3>1. PICK r \in workload : \E t \in Targets(r) :
            /\ job' = [job EXCEPT ![p] = [NoJob EXCEPT !.req = r, !.target = t]]
            /\ pc' = [pc EXCEPT ![p] = FirstStep(r)]
            /\ UNCHANGED <<tables, own>>
      BY <2>2 DEF Begin, Goto
    <3>2. PICK t \in Targets(r) :
            /\ job' = [job EXCEPT ![p] = [NoJob EXCEPT !.req = r, !.target = t]]
            /\ pc' = [pc EXCEPT ![p] = FirstStep(r)]
            /\ UNCHANGED <<tables, own>>
      BY <3>1
    <3> DEFINE j1 == [NoJob EXCEPT !.req = r]
               j == [j1 EXCEPT !.target = t]
    <3>3. j1.req = r /\ j1.said = {} /\ DOMAIN j1 = DOMAIN NoJob /\ j1.target = None
      BY DEF NoJob
    <3>4. j.req = r /\ j.said = {}
      <4> HIDE DEF j1
      <4> QED
        BY <3>3 DEF NoJob
    <3>5. job' = [job EXCEPT ![p] = j]
      BY <3>2, Zenon
    <3> HIDE DEF j, j1
    <3>6. Alone(p) /\ pc'[p] = FirstStep(r) /\ job'[p] = j
      BY <2>1, <3>2, <3>5 DEF Alone, Inv, Core
    <3>7. r.op = "create_parameter_version" => FirstStep(r) = "role"
      BY DEF FirstStep
    <3> QED
      BY <3>2, <3>4, <3>6, <3>7 DEF Numbering, Numbered
  <2>3. CASE Reply(p) \/ Crash(p)
    <3>1. /\ pc' = [pc EXCEPT ![p] = "idle"] /\ job' = [job EXCEPT ![p] = NoJob] /\ tables' = tables
          /\ own' = own \/ own' = [own EXCEPT ![p] = {}]
      BY <2>3 DEF Reply, Crash, Leave, Goto
    <3>2. NoJob.said = {}
      BY DEF NoJob
    <3>3. Alone(p) /\ pc'[p] = "idle" /\ job'[p] = NoJob
      BY <2>1, <3>1 DEF Alone, Inv, Core
    <3> QED
      BY <3>1, <3>2, <3>3 DEF Numbering, Numbered
  <2> QED
    BY <2>2, <2>3
<1>3. answers' \subseteq answers \cup job[p].said
  BY DEF Begin, Reply, Crash
<1>4. job[p].said \subseteq Said
  BY DEF Inv, Core, Jobs
<1>5. PICK n \in Nat : /\ Versions = 1..n
                       /\ \A q \in Procs : Numbering(pc[q], job[q]) => job[q].version \in 1..(n + 1)
  BY DEF Inv, VersionInv
<1>6. Versions' = 1..n
  BY <1>2, <1>5 DEF Versions, Committed
<1>7. \A q \in Procs : Numbering(pc[q], job[q])' => job'[q].version \in 1..(n + 1)
  BY <1>2, <1>5 DEF Alone, Numbering
<1>8. VersionInv'
  BY <1>6, <1>7 DEF VersionInv
<1>9. \A a : Told(a, tables)' = Told(a, tables)
  BY <1>2 DEF Told, Names, Enrols, Owned, OwnedByOther
<1>10. \A q \in Procs : \A a \in job'[q].said : Told(a, tables)
  BY <1>2 DEF Alone, Inv, AnswersInv
<1>11. AnswersInv'
  BY <1>3, <1>4, <1>9, <1>10 DEF AnswersInv, Inv
<1>12. LicensesTile'
  BY <1>2 DEF LicensesTile, Committed, Inv
<1> QED
  BY <1>1, <1>8, <1>11, <1>12 DEF Inv

\* COMMIT.
LEMMA CommitInv == ASSUME Inv, NEW p \in Procs, Commit(p) PROVE Inv'
<1>1. Core' /\ VersionInv' /\ LicensesTile'
  BY CommitOK, VersionsCommitted, LicensesCommitted DEF Inv
<1>2. /\ Alone(p) /\ answers' = answers /\ tables' = View(p)
      /\ \A a \in job'[p].said : a \in job[p].said \/ Told(a, View(p))
  BY CommitTold DEF Inv
<1>3. \A a : Told(a, tables) => Told(a, View(p))
  BY ToldAfterCommit DEF Inv, Core
<1>4. \A a : Told(a, tables)' = Told(a, View(p))
  BY <1>2 DEF Told, Names, Enrols, Owned, OwnedByOther
<1>5. \A q \in Procs : \A a \in job'[q].said : Told(a, View(p))
  BY <1>2, <1>3 DEF Alone, Inv, AnswersInv
<1>6. AnswersInv'
  BY <1>2, <1>3, <1>4, <1>5 DEF AnswersInv, Inv
<1> QED
  BY <1>1, <1>6 DEF Inv

\* Every step preserves the invariant.
LEMMA InvStep == ASSUME Inv, [Next]_vars PROVE Inv'
<1>1. CASE Next
  <2>1. PICK p \in Procs : Begin(p) \/ Serve(p) \/ Crash(p)
    BY <1>1 DEF Next
  <2>2. CASE Begin(p) \/ Reply(p) \/ Crash(p)
    BY <2>2, EndsHonest
  <2>3. CASE Commit(p)
    BY <2>3, CommitInv
  <2>4. CASE NumberVersion(p)
    <3>1. Core' /\ VersionInv' /\ AnswersInv'
      BY <2>4, NumberVersionOK DEF Inv
    <3>2. LicensesTile'
      BY <2>4 DEF NumberVersion, LicensesTile, Committed, Inv
    <3> QED
      BY <3>1, <3>2 DEF Inv
  <2>5. CASE RequireRole(p) \/ ResolveDeployment(p) \/ FindCurrent(p) \/ CheckType(p) \/ CheckExisting(p)
    <3>1. Core'
      BY <2>5, RequireRoleOK, ResolveDeploymentOK, FindCurrentOK, CheckTypeOK, CheckExistingOK DEF Inv
    <3>2. Honest(p)
      BY <2>5, HonestReads, HonestCheck DEF Inv
    <3> QED
      BY <3>1, <3>2, HonestOK DEF Inv
  <2>6. CASE Insert(p) \/ Link(p) \/ LinkLicensed(p) \/ Deadlock(p)
    <3>1. Core'
      BY <2>6, InsertOK, LinkOK, LinkLicensedOK, DeadlockOK DEF Inv
    <3>2. Honest(p)
      BY <2>6, HonestInserts DEF Inv
    <3> QED
      BY <3>1, <3>2, HonestOK DEF Inv
  <2>7. CASE Supersede(p) \/ CloseCurrent(p) \/ DeleteWebhook(p) \/ Rename(p) \/ UpsertUser(p)
    <3>1. Core'
      BY <2>7, SupersedeOK, CloseCurrentOK, DeleteWebhookOK, RenameOK, UpsertUserOK DEF Inv
    <3>2. Honest(p)
      BY <2>7, HonestUpdates DEF Inv
    <3> QED
      BY <3>1, <3>2, HonestOK DEF Inv
  <2>8. CASE CheckOwner(p) \/ ClaimIdentifier(p)
    <3>1. Core'
      BY <2>8, CheckOwnerOK, ClaimIdentifierOK DEF Inv
    <3>2. Honest(p)
      BY <2>8, HonestOwner, HonestClaim DEF Inv
    <3> QED
      BY <3>1, <3>2, HonestOK DEF Inv
  <2> QED
    BY <2>1, <2>2, <2>3, <2>4, <2>5, <2>6, <2>7, <2>8 DEF Serve
<1>2. CASE UNCHANGED vars
  <2>1. UNCHANGED <<tables, own, pc, job, workload, answers>>
    BY <1>2 DEF vars
  <2>2. Db'
    BY <2>1, DbQuiet DEF Inv, Core
  <2>3. \A q \in Procs : Local(q)' = Local(q)
    BY <2>1 DEF Local
  <2>4. Core'
    BY <2>1, <2>2, <2>3 DEF Inv, Core
  <2>5. VersionInv'
    BY <2>1 DEF Inv, VersionInv, Versions, Committed, Numbering
  <2>6. AnswersInv'
    <3>1. \A a : Told(a, tables)' = Told(a, tables)
      BY <2>1 DEF Told, Names, Enrols, Owned, OwnedByOther
    <3> QED
      BY <2>1, <3>1 DEF Inv, AnswersInv
  <2>7. LicensesTile'
    BY <2>1 DEF Inv, LicensesTile, Committed
  <2> QED
    BY <2>4, <2>5, <2>6, <2>7 DEF Inv
<1> QED
  BY <1>1, <1>2

\* The workspace begins with a few deployments and users, and nobody is served.
LEMMA InvInit == ASSUME Init PROVE Inv
<1>1. /\ tables = Seed /\ \A q \in Procs : own[q] = {} /\ pc[q] = "idle" /\ job[q] = NoJob
      /\ DOMAIN own = Procs /\ workload \in Workloads /\ answers = {}
  BY DEF Init
<1>2. Cardinality(Seed) \in Nat
  BY SeedAssumption, FS_CardinalityType
<1>3. \A r \in Seed :
        /\ r = [id |-> r.id, tab |-> r.tab, key |-> r.key, val |-> r.val, num |-> r.num,
                from |-> r.from, upto |-> r.upto]
        /\ r.id \in Nat \ {0} /\ r.id <= Cardinality(Seed)
        /\ r.tab \in {"deployments", "users"} /\ r.key # None
  BY <1>2, SeedAssumption
<1>4. RowsOK
  BY <1>1, <1>3 DEF RowsOK, IsRow
<1>5. IdsBounded
  BY <1>1, <1>2, <1>3 DEF IdsBounded
<1>6. IdsOK
  BY <1>1, SeedAssumption DEF IdsOK
<1>7. EntriesOK
  <2>1. \A q \in Procs : View(q) = tables
    BY <1>1, ViewOfNothing
  <2>2. ASSUME NEW r \in Seed, NEW s \in Seed, Clash(r, s) PROVE r = s
    <3>1. /\ Entries(r) \subseteq {<<r.tab, r.key>>} /\ Entries(s) \subseteq {<<s.tab, s.key>>}
      BY <1>3 DEF Entries, UniqueColumns
    <3>2. r.tab = s.tab /\ r.key = s.key
      BY <2>2, <3>1 DEF Clash
    <3> QED
      BY <3>2, SeedAssumption
  <2> QED
    BY <1>1, <2>1, <2>2 DEF EntriesOK
<1>8. UpdatesOK /\ RefsOK
  BY <1>1, <1>3 DEF UpdatesOK, RefsOK
<1>9. NoJob \in Jobs
  BY DEF NoJob, Jobs
<1>10. pc \in [Procs -> Steps] /\ job \in [Procs -> Jobs]
  BY <1>9 DEF Init, Steps, Reading
<1>11. \A q \in Procs : Local(q)
  BY <1>1, Outside DEF Local
<1>12. Core
  BY <1>1, <1>4, <1>5, <1>6, <1>7, <1>8, <1>10, <1>11 DEF Core, Db
<1>13. \A r \in tables : r.tab # "parameter_sets" /\ r.tab # "deployment_licenses"
  BY <1>1, <1>3
<1>14. VersionInv
  <2>1. Versions = 1..0
    BY <1>13 DEF Versions, Committed
  <2>2. \A q \in Procs : ~Numbering(pc[q], job[q])
    BY <1>1 DEF Numbering, Numbered
  <2> QED
    BY <2>1, <2>2 DEF VersionInv
<1>15. AnswersInv
  <2>1. NoJob.said = {}
    BY DEF NoJob
  <2> QED
    BY <1>1, <2>1 DEF AnswersInv
<1>16. LicensesTile
  BY <1>13 DEF LicensesTile, Committed
<1> QED
  BY <1>12, <1>14, <1>15, <1>16 DEF Inv

\* The unique indexes, the ids and the references between rows hold in every
\* state, whatever the handlers do at the same time, and every transaction has
\* written what its handler has got to.
THEOREM Consistent == Spec => []Inv
<1>1. Init => Inv
  BY InvInit
<1>2. Inv /\ [Next]_vars => Inv'
  BY InvStep
<1> QED
  BY <1>1, <1>2, PTL DEF Spec

\* The versions of parameters are 1 to n, each given once: SELECT MAX(version)
\* + 1 races, and the unique index lets one of two equal numbers through.
THEOREM Gapless == Spec => []VersionsGapless
<1>1. ASSUME Inv PROVE VersionsGapless
  <2> DEFINE P == Committed("parameter_sets")
             f == [r \in P |-> r.num]
  <2>1. PICK n \in Nat : {r.num : r \in P} = 1..n
    BY <1>1 DEF Inv, VersionInv, Versions
  <2>2. ASSUME NEW r \in P, NEW s \in P, r.num = s.num PROVE r = s
    <3>1. r \in tables /\ s \in tables /\ r.tab = "parameter_sets" /\ s.tab = "parameter_sets"
      BY DEF Committed
    <3>2. r.num # None
      BY <1>1, <3>1, ConfigAssumption DEF Inv, Core, Db, RowsOK, IsRow
    <3>3. <<"version", r.num>> \in Entries(r) /\ <<"version", r.num>> \in Entries(s)
      BY <2>2, <3>1, <3>2, EntriesHad
    <3> QED
      BY <1>1, <3>1, <3>3 DEF Inv, Core, Db, EntriesOK, Clash
  <2>3. ExistsBijection(P, 1..n)
    <3> HIDE DEF P
    <3>1. f \in Bijection(P, 1..n)
      <4>1. f \in [P -> 1..n] /\ \A y \in 1..n : \E r \in P : f[r] = y
        BY <2>1
      <4>2. \A r, s \in P : f[r] = f[s] => r = s
        BY <2>2
      <4> QED
        BY <4>1, <4>2 DEF Bijection, Injection, Surjection, IsInjective
    <3> QED
      BY <3>1 DEF ExistsBijection
  <2>4. ExistsBijection(1..n, P)
    <3> HIDE DEF P
    <3> QED
      BY <2>3, Fun_ExistsBijSymmetric
  <2>5. IsFiniteSet(1..n) /\ Cardinality(1..n) = n
    BY FS_Interval
  <2>6. Cardinality(P) = n
    <3> HIDE DEF P
    <3> QED
      BY <2>4, <2>5, FS_Bijection
  <2> QED
    BY <2>1, <2>6 DEF VersionsGapless
<1> QED
  BY <1>1, Consistent, PTL

\* The licenses of a deployment tile time, although FindCurrent reads what
\* CloseCurrent may find closed.
THEOREM Tile == Spec => []LicensesTile
<1>1. Inv => LicensesTile
  BY DEF Inv
<1> QED
  BY <1>1, Consistent, PTL

\* All answers about a natural key name the same committed row, with its links.
THEOREM Idempotent == Spec => []RetriesAgree
<1>1. ASSUME Inv PROVE RetriesAgree
  <2>1. ASSUME NEW a \in Naming
        PROVE  \E r \in tables :
                  /\ r.tab = TableOf(a.about.op) /\ r.id = a.id /\ r.key = a.about.key
                  /\ a.out = "done" =>
                        Cardinality({l \in tables : l.tab = "links" /\ l.num = r.id}) = Len(a.about.list)
    BY <1>1 DEF Inv, AnswersInv, Told, Names, Naming
  <2>2. ASSUME NEW a \in Naming
        PROVE  \E r \in Committed(TableOf(a.about.op)) :
                  /\ r.id = a.id /\ r.key = a.about.key
                  /\ a.out = "done" =>
                        Cardinality({l \in Committed("links") : l.num = r.id}) = Len(a.about.list)
    <3>1. PICK r \in tables :
                  /\ r.tab = TableOf(a.about.op) /\ r.id = a.id /\ r.key = a.about.key
                  /\ a.out = "done" =>
                        Cardinality({l \in tables : l.tab = "links" /\ l.num = r.id}) = Len(a.about.list)
      BY <2>1
    <3>2. {l \in Committed("links") : l.num = r.id} = {l \in tables : l.tab = "links" /\ l.num = r.id}
      BY DEF Committed
    <3>3. r \in Committed(TableOf(a.about.op))
      BY <3>1 DEF Committed
    <3> QED
      BY <3>1, <3>2, <3>3
  <2>3. ASSUME NEW a \in Naming, NEW b \in Naming, a.about.op = b.about.op, a.about.key = b.about.key
        PROVE  a.id = b.id
    <3>1. PICK r \in tables : r.tab = TableOf(a.about.op) /\ r.id = a.id /\ r.key = a.about.key
      BY <2>1
    <3>2. PICK s \in tables : s.tab = TableOf(a.about.op) /\ s.id = b.id /\ s.key = a.about.key
      BY <2>1, <2>3
    <3>3. a.about.key # None /\ a.about.op \in Keyed
      BY DEF Naming
    <3>4. r.tab = "parameter_sets" \/ PlainTab(r.tab)
      BY <3>1, <3>3 DEF TableOf, Keyed, PlainTab
    <3>5. r.tab = s.tab /\ r.key = s.key /\ r.key # None
      BY <3>1, <3>2, <3>3
    <3>6. Clash(r, s)
      <4>1. CASE r.tab = "parameter_sets"
        BY <3>5, <4>1, EntriesHad DEF Clash
      <4>2. CASE PlainTab(r.tab)
        BY <3>5, <4>2, EntriesHad DEF Clash
      <4> QED
        BY <3>4, <4>1, <4>2
    <3>7. r = s
      BY <1>1, <3>6 DEF Inv, Core, Db, EntriesOK
    <3> QED
      BY <3>1, <3>2, <3>7
  <2> QED
    BY <2>2, <2>3 DEF RetriesAgree
<1> QED
  BY <1>1, Consistent, PTL

\* The user of an id is the one committed row of that id.
LEMMA UserNamedIs ==
    ASSUME IdsOK, NEW u \in tables, u.tab = "users"
    PROVE  UserNamed(u.id) = u.key
<1> DEFINE v == CHOOSE w \in Committed("users") : w.id = u.id
<1>1. u \in Committed("users")
  BY DEF Committed
<1>2. v \in Committed("users") /\ v.id = u.id
  BY <1>1
<1> HIDE DEF v
<1>3. v = u
  BY <1>1, <1>2 DEF IdsOK, Committed
<1> QED
  BY <1>3 DEF UserNamed, v

\* The roster's answers stay true: an entry was rejected for an identifier that
\* another user has, and an entry that was taken has its user, and one owner for
\* each identifier, although ON CONFLICT DO NOTHING hides a lost race.
THEOREM RosterTrue == Spec => []RosterAnswersTrue
<1>1. ASSUME Inv, NEW a \in RosterAnswers
      PROVE  LET idents == {a.about.identifiers[n] : n \in DOMAIN a.about.identifiers} IN
             /\ a.out = "TF-CFG-004" => \E i \in idents : \E u \in OwnersOf(i) : u # a.about.user
             /\ a.out = "upserted" => /\ UserNamed(a.id) = a.about.user
                                      /\ \A i \in idents : Cardinality(OwnersOf(i)) = 1
  <2> DEFINE I == a.about.identifiers
             idents == {I[n] : n \in DOMAIN I}
  <2>1. a \in answers /\ "identifiers" \in DOMAIN a.about /\ a \in Said /\ Enrols(a, tables)
    BY <1>1 DEF Inv, AnswersInv, RosterAnswers, Told
  <2>2. IdsOK /\ EntriesOK /\ RefsOK
    BY <1>1 DEF Inv, Core, Db
  <2>3. /\ DOMAIN I = 1..Len(I)
        /\ \A n \in 1..Len(I) : I[n] # None
    <3>1. a.about \in RosterEntries
      <4>1. a.about \in Requests \cup RosterEntries
        BY <2>1 DEF Said
      <4>2. \A r \in Requests : "identifiers" \notin DOMAIN r
        BY RequestFacts
      <4> QED
        BY <2>1, <4>1, <4>2
    <3> QED
      BY <3>1, IdentifierList
  <2> HIDE DEF I
  <2>4. ASSUME NEW r \in tables, r.tab = "user_identifiers", r.key # None
        PROVE  OwnersOf(r.key) = {UserNamed(r.num)}
    <3>1. ASSUME NEW s \in tables, s.tab = "user_identifiers", s.key = r.key PROVE s = r
      <4>1. <<"user_identifiers", r.key>> \in Entries(r) /\ <<"user_identifiers", r.key>> \in Entries(s)
        BY <2>4, <3>1, EntriesHad DEF PlainTab
      <4> QED
        BY <2>2, <4>1 DEF EntriesOK, Clash
    <3>2. {s \in Committed("user_identifiers") : s.key = r.key} = {r}
      BY <2>4, <3>1 DEF Committed
    <3> QED
      BY <3>2 DEF OwnersOf
  <2>5. ASSUME a.out = "TF-CFG-004" PROVE \E i \in idents : \E u \in OwnersOf(i) : u # a.about.user
    <3>1. PICK n \in 1..Len(I) : OwnedByOther(I[n], a.about.user, tables)
      BY <2>1, <2>5 DEF Enrols, I
    <3>2. PICK r \in tables, u \in tables :
                /\ r.tab = "user_identifiers" /\ r.key = I[n]
                /\ u.tab = "users" /\ u.id = r.num /\ u.key # a.about.user
      BY <3>1 DEF OwnedByOther
    <3>3. OwnersOf(I[n]) = {UserNamed(r.num)}
      BY <2>3, <2>4, <3>2
    <3>4. UserNamed(r.num) = u.key
      BY <2>2, <3>2, UserNamedIs
    <3>5. I[n] \in idents
      BY <2>3
    <3> QED
      BY <3>2, <3>3, <3>4, <3>5
  <2>6. ASSUME a.out = "upserted"
        PROVE  /\ UserNamed(a.id) = a.about.user
               /\ \A i \in idents : Cardinality(OwnersOf(i)) = 1
    <3>1. PICK u \in tables : u.tab = "users" /\ u.id = a.id /\ u.key = a.about.user
      BY <2>1, <2>6 DEF Enrols
    <3>2. UserNamed(a.id) = a.about.user
      BY <2>2, <3>1, UserNamedIs
    <3>3. ASSUME NEW i \in idents PROVE Cardinality(OwnersOf(i)) = 1
      <4>1. PICK n \in 1..Len(I) : i = I[n]
        BY <2>3
      <4>2. Owned(i, tables)
        BY <2>1, <2>6, <4>1 DEF Enrols, I
      <4>3. PICK r \in tables : r.tab = "user_identifiers" /\ r.key = i
        BY <4>2 DEF Owned
      <4>4. OwnersOf(i) = {UserNamed(r.num)}
        BY <2>3, <2>4, <4>1, <4>3
      <4> QED
        BY <4>4, FS_Singleton
    <3> QED
      BY <3>2, <3>3
  <2> QED
    BY <2>5, <2>6 DEF I
<1>2. Inv => RosterAnswersTrue
  BY <1>1, Zenon DEF RosterAnswersTrue
<1> QED
  BY <1>2, Consistent, PTL
=================================================================================
