------------------------ MODULE ConfigPipelineProofs ------------------------
(***************************************************************************)
(* Proofs about ConfigPipeline, for every number of goroutines, settings,  *)
(* keys, groups and values, for all payloads and updates that may be asked *)
(* for, and without the bounds having to be small.                         *)
(***************************************************************************)
EXTENDS ConfigPipeline, WellFoundedInduction, TLAPS

----------------------------------------------------------------------------
(* Types *)

LEMMA UpsertedType ==
    ASSUME NEW list \in Seq(Binds \cup {Gap}), NEW ks \in SUBSET Keys,
           NEW b \in Binds \cup {Gap}
    PROVE  /\ Unlisted(list, ks) \in Seq(Binds \cup {Gap})
           /\ Upserted(list, b) \in Seq(Binds \cup {Gap})
<1>1. Unlisted(list, ks) \in Seq(Binds \cup {Gap})
  BY DEF Unlisted
<1>2. Append(list, b) \in Seq(Binds \cup {Gap})
  OBVIOUS
<1>3. [i \in DOMAIN list |-> IF IsFirst(list, b.key, i) THEN b ELSE list[i]]
        \in Seq(Binds \cup {Gap})
  OBVIOUS
<1> QED
  BY <1>1, <1>2, <1>3 DEF Upserted

LEMMA ChangedType ==
    ASSUME last \in Payloads, NEW u \in Updates
    PROVE  Changed(u) \in Payloads
<1>1. /\ last.settings \in [Settings -> Values]
      /\ last.system \in SUBSET Binds /\ last.ambxst \in SUBSET Binds
      /\ last.custom \in Seq(Binds \cup {Gap})
  BY DEF Payloads
<1>2. u.unbinds \in SUBSET Keys /\ u.bind \in Binds \cup {Gap}
  BY DEF Updates
<1>3. u.settings \in UNION {[fs -> Values] : fs \in SUBSET Settings}
  BY DEF Updates
<1>4. [s \in Settings |-> IF s \in DOMAIN u.settings THEN u.settings[s]
                          ELSE last.settings[s]] \in [Settings -> Values]
  BY <1>1, <1>3
<1>5. Upserted(Unlisted(last.custom, u.unbinds), u.bind) \in Seq(Binds \cup {Gap})
  BY <1>1, <1>2, UpsertedType
<1> QED
  BY <1>1, <1>4, <1>5 DEF Changed, Payloads, Unbound

\* Every set of naturals has a least element: a list that has a key has a first
\* bind with it.
LEMMA Least ==
    ASSUME NEW S \in SUBSET Nat, S # {}
    PROVE  \E m \in S : \A n \in S : m <= n
<1> DEFINE R == OpToRel(<, Nat)
<1>1. \E x \in S : \A y \in S : ~ (<<y, x>> \in R)
  BY NatLessThanWellFounded, WFMin, Zenon
<1>2. \A x, y \in Nat : x < y => <<x, y>> \in R
  BY SMT DEF OpToRel
<1> HIDE DEF R
<1>3. PICK m \in S : \A y \in S : ~ (<<y, m>> \in R)
  BY <1>1
<1>4. ASSUME NEW n \in S PROVE m <= n
  <2>1. n < m => <<n, m>> \in R
    BY <1>2
  <2>2. ~ (n < m)
    BY <1>3, <2>1, Zenon
  <2> QED
    BY <2>2
<1> QED
  BY <1>4

LEMMA FirstExists ==
    ASSUME NEW list \in Seq(Binds \cup {Gap}), NEW k \in Keys, Listed(list, k)
    PROVE  \E i \in DOMAIN list : IsFirst(list, k, i)
<1> DEFINE S == {i \in DOMAIN list : list[i].key = k}
<1>1. S \in SUBSET Nat /\ S # {}
  BY DEF Listed
<1>2. PICK m \in S : \A n \in S : m <= n
  BY <1>1, Least
<1>3. \A j \in 1..(m - 1) : j \in DOMAIN list /\ j \notin S
  BY <1>2
<1> QED
  BY <1>2, <1>3 DEF IsFirst

LEMMA WishTypes ==
    ASSUME NEW u \in Updates
    PROVE  AskedBy(u) \in SUBSET Fields /\ WishOf(u) \in Wishes
<1>1. u.unbinds \in SUBSET Keys /\ u.bind \in Binds \cup {Gap}
  BY DEF Updates
<1>2. u.settings \in UNION {[fs -> Values] : fs \in SUBSET Settings}
  BY DEF Updates
<1>3. u.bind.command \in Values
  BY <1>1, PipelineAssumption DEF Binds, Gap
<1> QED
  BY <1>1, <1>2, <1>3 DEF AskedBy, WishOf, Wishes, Fields

LEMMA WishWholeTypes ==
    ASSUME NEW p \in Payloads
    PROVE  AskedWhole(p) \in SUBSET Fields /\ WishWhole(p) \in Wishes
<1>1. p.settings \in [Settings -> Values] /\ p.custom \in Seq(Binds \cup {Gap})
  BY DEF Payloads
<1>2. ASSUME NEW f \in Fields \ Settings, Listed(p.custom, f)
      PROVE  p.custom[CHOOSE i \in DOMAIN p.custom : IsFirst(p.custom, f, i)].command
               \in Values
  <2>1. \E i \in DOMAIN p.custom : IsFirst(p.custom, f, i)
    BY <1>1, <1>2, FirstExists DEF Fields
  <2>2. PICK i \in DOMAIN p.custom :
            i = CHOOSE n \in DOMAIN p.custom : IsFirst(p.custom, f, n)
    BY <2>1
  <2>3. p.custom[i] \in Binds \cup {Gap}
    BY <1>1
  <2> QED
    BY <2>2, <2>3, PipelineAssumption DEF Binds, Gap
<1> QED
  BY <1>1, <1>2 DEF AskedWhole, WishWhole, Wishes, Fields

LEMMA NothingType == Nothing \in Payloads /\ NoWish \in Wishes
<1>1. Nothing \in Payloads
  BY PipelineAssumption DEF Nothing, Payloads
<1>2. NoWish \in Wishes
  BY PipelineAssumption DEF NoWish, Wishes
<1> QED
  BY <1>1, <1>2

LEMMA OvertakenType ==
    ASSUME TypeOK, NEW t \in Threads, NEW fs \in SUBSET Fields
    PROVE  Overtaken(t, fs) \in [Threads -> SUBSET Fields]
BY DEF TypeOK, Overtaken

LEMMA BeginType ==
    ASSUME TypeOK, NEW t \in Threads, NEW k \in {"update", "apply", "bind"},
           NEW p \in Payloads, NEW fs \in SUBSET Fields, NEW w \in Wishes,
           NEW step \in Steps, Begin(t, k, p, fs, w, step)
    PROVE  /\ pc' \in [Threads -> Steps]
           /\ kind' \in [Threads -> {"update", "apply", "bind"}]
           /\ payload' \in [Threads -> Payloads]
           /\ asked' \in [Threads -> SUBSET Fields]
           /\ wish' \in [Threads -> Wishes]
           /\ calm' \in [Threads -> BOOLEAN]
           /\ requests' \in 0..MaxRequests
<1>1. requests' \in 0..MaxRequests
  BY PipelineAssumption DEF TypeOK, Begin
<1>2. calm' \in [Threads -> BOOLEAN]
  BY DEF Begin
<1> QED
  BY <1>1, <1>2 DEF TypeOK, Begin, GoTo

LEMMA EndType ==
    ASSUME TypeOK, NEW t \in Threads, End(t)
    PROVE  /\ pc' \in [Threads -> Steps]
           /\ kind' \in [Threads -> {"update", "apply", "bind"}]
           /\ payload' \in [Threads -> Payloads]
           /\ asked' \in [Threads -> SUBSET Fields]
           /\ wish' \in [Threads -> Wishes]
           /\ over' \in [Threads -> SUBSET Fields]
           /\ calm' \in [Threads -> BOOLEAN]
BY NothingType DEF TypeOK, End, GoTo, Steps

LEMMA MutateType ==
    ASSUME TypeOK, NEW c \in Threads, NEW k \in {"update", "bind"},
           NEW u \in Updates, NEW step \in Steps, Mutate(c, k, u, step)
    PROVE  TypeOK'
<1>1. Changed(u) \in Payloads
  BY ChangedType DEF TypeOK
<1>2. AskedBy(u) \in SUBSET Fields /\ WishOf(u) \in Wishes
  BY WishTypes
<1>3. over' \in [Threads -> SUBSET Fields]
  BY <1>2, OvertakenType DEF Mutate
<1>4. Begin(c, k, Changed(u), AskedBy(u), WishOf(u), step)
  BY DEF Mutate
<1>5. /\ pc' \in [Threads -> Steps]
      /\ kind' \in [Threads -> {"update", "apply", "bind"}]
      /\ payload' \in [Threads -> Payloads]
      /\ asked' \in [Threads -> SUBSET Fields]
      /\ wish' \in [Threads -> Wishes]
      /\ calm' \in [Threads -> BOOLEAN]
      /\ requests' \in 0..MaxRequests
  BY <1>1, <1>2, <1>4, BeginType
<1> QED
  BY <1>1, <1>3, <1>5 DEF TypeOK, Mutate

LEMMA ApplyType ==
    ASSUME TypeOK, NEW t \in Threads, NEW p \in Payloads, Apply(t, p)
    PROVE  TypeOK'
<1>1. Begin(t, "apply", p, AskedWhole(p), WishWhole(p), "create")
  BY DEF Apply
<1>2. AskedWhole(p) \in SUBSET Fields /\ WishWhole(p) \in Wishes
  BY WishWholeTypes
<1>3. /\ pc' \in [Threads -> Steps]
      /\ kind' \in [Threads -> {"update", "apply", "bind"}]
      /\ payload' \in [Threads -> Payloads]
      /\ asked' \in [Threads -> SUBSET Fields]
      /\ wish' \in [Threads -> Wishes]
      /\ calm' \in [Threads -> BOOLEAN]
      /\ requests' \in 0..MaxRequests
  BY <1>1, <1>2, BeginType DEF Steps
<1> QED
  BY <1>3 DEF TypeOK, Apply, state

LEMMA ProceedType ==
    ASSUME TypeOK, NEW t \in Threads, Proceed(t)
    PROVE  TypeOK'
<1> USE DEF TypeOK
<1>1. CASE Create(t)
  BY <1>1 DEF Create, GoTo, Steps, Contents, history
<1>2. CASE Write(t)
  <2>1. file' \in Contents
    BY <1>2 DEF Write, Contents, Payloads
  <2> QED
    BY <1>2, <2>1 DEF Write, GoTo, Steps, history
<1>3. CASE Reload(t)
  BY <1>3 DEF Reload, ReloadConfig, GoTo, Steps, history
<1>4. CASE Fail(t)
  <2>1. failures' \in 0..MaxFailures
    BY <1>4, PipelineAssumption DEF Fail
  <2>2. file' \in Contents
    BY <1>4 DEF Fail, Contents
  <2>3. End(t)
    BY <1>4 DEF Fail
  <2> HIDE DEF TypeOK
  <2>4. /\ pc' \in [Threads -> Steps]
        /\ kind' \in [Threads -> {"update", "apply", "bind"}]
        /\ payload' \in [Threads -> Payloads]
        /\ asked' \in [Threads -> SUBSET Fields]
        /\ wish' \in [Threads -> Wishes]
        /\ over' \in [Threads -> SUBSET Fields]
        /\ calm' \in [Threads -> BOOLEAN]
    BY <2>3, EndType
  <2> QED
    BY <1>4, <2>1, <2>2, <2>4 DEF Fail, TypeOK
<1>5. CASE Seed(t)
  <2>1. over' \in [Threads -> SUBSET Fields]
    BY <1>5, OvertakenType DEF Seed
  <2> QED
    BY <1>5, <2>1 DEF Seed, GoTo, Steps
<1>6. CASE Current(t)
  BY <1>6 DEF Current, GoTo, Steps, state, history
<1>7. CASE SetBinds(t)
  <2>1. binds' \in [Groups -> Values]
    BY <1>7 DEF SetBinds, BindsOf
  <2>2. End(t)
    BY <1>7 DEF SetBinds
  <2> HIDE DEF TypeOK
  <2>3. /\ pc' \in [Threads -> Steps]
        /\ kind' \in [Threads -> {"update", "apply", "bind"}]
        /\ payload' \in [Threads -> Payloads]
        /\ asked' \in [Threads -> SUBSET Fields]
        /\ wish' \in [Threads -> Wishes]
        /\ over' \in [Threads -> SUBSET Fields]
        /\ calm' \in [Threads -> BOOLEAN]
    BY <2>2, EndType
  <2> QED
    BY <1>7, <2>1, <2>3 DEF SetBinds, TypeOK
<1> QED
  BY <1>1, <1>2, <1>3, <1>4, <1>5, <1>6, <1>7 DEF Proceed

\* The next-state relation, one case per handler.
LEMMA NextCases ==
    ASSUME Next
    PROVE  \/ \E c \in Threads, u \in Updates : Update(c, u) \/ BindKey(c, u)
           \/ \E c \in Threads : Refused(c) \/ ReloadRequest(c)
           \/ \E t \in Threads, p \in Payloads : Apply(t, p)
           \/ \E t \in Threads : Proceed(t)
<1>1. Changes \subseteq Updates /\ Requested \subseteq Payloads
  BY PipelineAssumption
<1> QED
  BY <1>1 DEF Next, Request, Threads

LEMMA TypeStep ==
    ASSUME TypeOK, [Next]_vars
    PROVE  TypeOK'
<1>1. CASE UNCHANGED vars
  BY <1>1 DEF TypeOK, vars, state, work, history
<1>2. ASSUME NEW c \in Threads, NEW u \in Updates, Update(c, u) \/ BindKey(c, u)
      PROVE  TypeOK'
  BY <1>2, MutateType DEF Update, BindKey, Steps
<1>3. ASSUME NEW c \in Threads, Refused(c) \/ ReloadRequest(c)
      PROVE  TypeOK'
  BY <1>3, PipelineAssumption DEF TypeOK, Refused, ReloadRequest, ReloadConfig,
                                  state, work, history
<1>4. ASSUME NEW t \in Threads, NEW p \in Payloads, Apply(t, p)
      PROVE  TypeOK'
  BY <1>4, ApplyType
<1>5. ASSUME NEW t \in Threads, Proceed(t)
      PROVE  TypeOK'
  BY <1>5, ProceedType
<1> QED
  BY <1>1, <1>2, <1>3, <1>4, <1>5, NextCases

LEMMA TypeInit == Init => TypeOK
<1> SUFFICES ASSUME Init PROVE TypeOK
  OBVIOUS
<1>1. 0 \in 0..MaxRequests /\ 0 \in 0..MaxFailures
  BY PipelineAssumption
<1> QED
  BY <1>1, NothingType, PipelineAssumption DEF Init, TypeOK, Contents, Steps

\* Every variable keeps its type: an update never leaves the cached payload
\* without a part, and the file holds a rendered payload, a mixture or
\* nothing.
THEOREM TypeCorrect == Spec => []TypeOK
BY TypeInit, TypeStep, PTL DEF Spec

----------------------------------------------------------------------------
(* Lists of binds *)

\* Removing keys from a list leaves the binds of another key, and the first of
\* them, where they are.
LEMMA UnlistedKeeps ==
    ASSUME NEW list \in Seq(Binds \cup {Gap}), NEW ks \in SUBSET Keys,
           NEW k \in Keys \ ks
    PROVE  /\ DOMAIN Unlisted(list, ks) = DOMAIN list
           /\ \A i \in DOMAIN list : /\ Unlisted(list, ks)[i].key = k <=> list[i].key = k
                                     /\ list[i].key = k => Unlisted(list, ks)[i] = list[i]
           /\ Listed(Unlisted(list, ks), k) <=> Listed(list, k)
           /\ \A i \in DOMAIN list :
                  IsFirst(Unlisted(list, ks), k, i) <=> IsFirst(list, k, i)
<1> DEFINE new == Unlisted(list, ks)
<1>1. DOMAIN new = DOMAIN list
  BY DEF Unlisted
<1>2. \A i \in DOMAIN list : /\ new[i].key = k <=> list[i].key = k
                             /\ list[i].key = k => new[i] = list[i]
  BY PipelineAssumption DEF Unlisted, Gap
<1>3. \A i \in DOMAIN list : \A j \in 1..(i - 1) : j \in DOMAIN list
  OBVIOUS
<1> HIDE DEF new
<1>4. Listed(new, k) <=> Listed(list, k)
  BY <1>1, <1>2 DEF Listed
<1>5. \A i \in DOMAIN list : IsFirst(new, k, i) <=> IsFirst(list, k, i)
  BY <1>2, <1>3 DEF IsFirst
<1> QED
  BY <1>1, <1>2, <1>4, <1>5 DEF new

LEMMA UnlistedRemoves ==
    ASSUME NEW list, NEW ks \in SUBSET Keys, NEW k \in ks
    PROVE  ~Listed(Unlisted(list, ks), k)
BY PipelineAssumption DEF Listed, Unlisted, Gap

\* So does adding or replacing a bind of another key.
LEMMA UpsertedKeeps ==
    ASSUME NEW list \in Seq(Binds \cup {Gap}), NEW b \in Binds \cup {Gap},
           NEW k \in Keys, b.key # k
    PROVE  /\ Listed(Upserted(list, b), k) <=> Listed(list, k)
           /\ \A i \in DOMAIN Upserted(list, b) :
                  IsFirst(Upserted(list, b), k, i) =>
                     /\ i \in DOMAIN list /\ IsFirst(list, k, i)
                     /\ Upserted(list, b)[i] = list[i]
<1> DEFINE new == Upserted(list, b)
<1>1. \A i \in DOMAIN list : /\ i \in DOMAIN new
                             /\ new[i].key = k <=> list[i].key = k
                             /\ list[i].key = k => new[i] = list[i]
  BY DEF Upserted, IsFirst
<1>2. \A i \in DOMAIN new : new[i].key = k => i \in DOMAIN list
  BY DEF Upserted
<1>3. \A i \in DOMAIN list : \A j \in 1..(i - 1) : j \in DOMAIN list
  OBVIOUS
<1> HIDE DEF new
<1>4. Listed(new, k) <=> Listed(list, k)
  BY <1>1, <1>2 DEF Listed
<1>5. \A i \in DOMAIN new : IsFirst(new, k, i) =>
          i \in DOMAIN list /\ IsFirst(list, k, i) /\ new[i] = list[i]
  BY <1>1, <1>2, <1>3 DEF IsFirst
<1> QED
  BY <1>4, <1>5 DEF new

\* A bind that is added or replaced is the first of its key.
LEMMA UpsertedHas ==
    ASSUME NEW list \in Seq(Binds \cup {Gap}), NEW b \in Binds
    PROVE  /\ Listed(Upserted(list, b), b.key)
           /\ \A i \in DOMAIN Upserted(list, b) :
                  IsFirst(Upserted(list, b), b.key, i) => Upserted(list, b)[i] = b
<1>0. b # Gap
  BY PipelineAssumption DEF Binds, Gap
<1>1. CASE Listed(list, b.key)
  <2> DEFINE new == [i \in DOMAIN list |-> IF IsFirst(list, b.key, i) THEN b ELSE list[i]]
  <2>1. Upserted(list, b) = new
    BY <1>0, <1>1 DEF Upserted
  <2>2. \A i \in DOMAIN list : new[i].key = b.key <=> list[i].key = b.key
    BY DEF IsFirst
  <2>3. \A i \in DOMAIN list : \A j \in 1..(i - 1) : j \in DOMAIN list
    OBVIOUS
  <2>4. \A i \in DOMAIN list : IsFirst(new, b.key, i) <=> IsFirst(list, b.key, i)
    BY <2>2, <2>3 DEF IsFirst
  <2>5. Listed(new, b.key)
    BY <1>1, <2>2 DEF Listed
  <2> QED
    BY <2>1, <2>4, <2>5
<1>2. CASE ~Listed(list, b.key)
  <2>1. Upserted(list, b) = Append(list, b)
    BY <1>0, <1>2 DEF Upserted
  <2>2. \A i \in DOMAIN Append(list, b) :
            Append(list, b)[i].key = b.key => i = Len(list) + 1
    BY <1>2 DEF Listed
  <2>3. Len(list) + 1 \in DOMAIN Append(list, b) /\ Append(list, b)[Len(list) + 1] = b
    OBVIOUS
  <2> QED
    BY <2>1, <2>2, <2>3 DEF Listed, IsFirst
<1> QED
  BY <1>1, <1>2

----------------------------------------------------------------------------
(* Acknowledged updates *)

\* A payload that is changed has what was asked of it.
LEMMA ChangedHas ==
    ASSUME last \in Payloads, NEW u \in Updates, NEW f \in AskedBy(u)
    PROVE  Has(Changed(u), f, WishOf(u)[f])
<1> DEFINE list == Unlisted(last.custom, u.unbinds)
<1>1. u.unbinds \in SUBSET Keys /\ u.bind \in Binds \cup {Gap}
  BY DEF Updates
<1>2. u.settings \in UNION {[fs -> Values] : fs \in SUBSET Settings}
  BY DEF Updates
<1>3. last.custom \in Seq(Binds \cup {Gap}) /\ list \in Seq(Binds \cup {Gap})
  BY <1>1, UpsertedType DEF Payloads
<1>4. f \in Fields
  BY WishTypes
<1>5. DOMAIN u.settings \subseteq Settings
  BY <1>2
<1>6. Changed(u).custom = Upserted(list, u.bind)
  BY DEF Changed
<1> HIDE DEF list
<1>7. CASE f \in DOMAIN u.settings
  <2>1. f \in Settings
    BY <1>5, <1>7
  <2>2. Changed(u).settings[f] = u.settings[f]
    BY <1>7, <2>1 DEF Changed
  <2>3. WishOf(u)[f] = u.settings[f]
    BY <1>4, <1>7 DEF WishOf
  <2> QED
    BY <2>1, <2>2, <2>3 DEF Has
<1>8. CASE f \notin DOMAIN u.settings /\ f = u.bind.key
  <2>1. f \in Keys /\ f \notin Settings
    BY <1>1, <1>8, PipelineAssumption DEF AskedBy
  <2>2. u.bind \in Binds
    BY <1>1, <1>8, <2>1, PipelineAssumption DEF Gap
  <2>3. WishOf(u)[f] = u.bind.command /\ u.bind.command \in Values
    BY <1>4, <1>8, <2>2 DEF WishOf, Binds
  <2>4. /\ Listed(Changed(u).custom, f)
        /\ \A i \in DOMAIN Changed(u).custom :
              IsFirst(Changed(u).custom, f, i) => Changed(u).custom[i] = u.bind
    BY <1>3, <1>6, <1>8, <2>2, UpsertedHas
  <2> QED
    BY <2>1, <2>3, <2>4, PipelineAssumption DEF Has
<1>9. CASE f \notin DOMAIN u.settings /\ f # u.bind.key
  <2>1. f \in u.unbinds /\ f \in Keys /\ f \notin Settings
    BY <1>1, <1>9, PipelineAssumption DEF AskedBy
  <2>2. WishOf(u)[f] = Removed
    BY <1>4, <1>9 DEF WishOf
  <2>3. ~Listed(list, f)
    BY <1>1, <2>1, UnlistedRemoves DEF list
  <2>4. ~Listed(Changed(u).custom, f)
    BY <1>1, <1>3, <1>6, <1>9, <2>1, <2>3, UpsertedKeeps
  <2>5. \A b \in Changed(u).system \cup Changed(u).ambxst : b.key # f
    BY <2>1 DEF Changed, Unbound
  <2> QED
    BY <2>1, <2>2, <2>4, <2>5 DEF Has, BoundIn
<1> QED
  BY <1>7, <1>8, <1>9

\* What is not asked for stays as it is.
LEMMA ChangedKeeps ==
    ASSUME last \in Payloads, NEW u \in Updates, NEW f \in Fields \ AskedBy(u),
           NEW w, Has(last, f, w)
    PROVE  Has(Changed(u), f, w)
<1> DEFINE list == Unlisted(last.custom, u.unbinds)
<1>1. u.unbinds \in SUBSET Keys /\ u.bind \in Binds \cup {Gap}
  BY DEF Updates
<1>2. last.custom \in Seq(Binds \cup {Gap}) /\ list \in Seq(Binds \cup {Gap})
  BY <1>1, UpsertedType DEF Payloads
<1>3. CASE f \in Settings
  BY <1>3 DEF Has, Changed, AskedBy
<1>4. CASE f \in Keys /\ f \notin Settings
  <2>1. f \notin u.unbinds /\ f # u.bind.key
    BY <1>4 DEF AskedBy
  <2>2. Changed(u).custom = Upserted(list, u.bind)
    BY DEF Changed
  <2>3. /\ DOMAIN list = DOMAIN last.custom
        /\ Listed(list, f) <=> Listed(last.custom, f)
        /\ \A i \in DOMAIN list : IsFirst(list, f, i) => IsFirst(last.custom, f, i)
        /\ \A i \in DOMAIN list : last.custom[i].key = f => list[i] = last.custom[i]
    BY <1>1, <1>2, <1>4, <2>1, UnlistedKeeps
  <2> HIDE DEF list
  <2>4. /\ Listed(Changed(u).custom, f) <=> Listed(last.custom, f)
        /\ \A i \in DOMAIN Changed(u).custom :
              IsFirst(Changed(u).custom, f, i) =>
                 /\ i \in DOMAIN last.custom /\ IsFirst(last.custom, f, i)
                 /\ Changed(u).custom[i] = last.custom[i]
    <3>1. /\ Listed(Changed(u).custom, f) <=> Listed(list, f)
          /\ \A i \in DOMAIN Changed(u).custom :
                IsFirst(Changed(u).custom, f, i) =>
                   /\ i \in DOMAIN list /\ IsFirst(list, f, i)
                   /\ Changed(u).custom[i] = list[i]
      BY <1>1, <1>2, <1>4, <2>1, <2>2, UpsertedKeeps
    <3>2. \A i \in DOMAIN list : IsFirst(list, f, i) => list[i] = last.custom[i]
      BY <2>3 DEF IsFirst
    <3> QED
      BY <2>3, <3>1, <3>2
  <2>5. (\E b \in Changed(u).system \cup Changed(u).ambxst : b.key = f) =>
           \E b \in last.system \cup last.ambxst : b.key = f
    BY DEF Changed, Unbound
  <2> QED
    BY <1>4, <2>4, <2>5 DEF Has, BoundIn
<1> QED
  BY <1>3, <1>4 DEF Fields

\* A payload that is applied as a whole has what is asked by it.
LEMMA WholeHas ==
    ASSUME NEW p \in Payloads, NEW f \in AskedWhole(p)
    PROVE  Has(p, f, WishWhole(p)[f])
<1>1. f \in Fields
  BY WishWholeTypes
<1>2. CASE f \in Settings
  BY <1>1, <1>2 DEF Has, WishWhole
<1>3. CASE f \notin Settings /\ Listed(p.custom, f)
  <2> DEFINE first == CHOOSE i \in DOMAIN p.custom : IsFirst(p.custom, f, i)
  <2>1. p.custom \in Seq(Binds \cup {Gap})
    BY DEF Payloads
  <2>2. first \in DOMAIN p.custom /\ IsFirst(p.custom, f, first)
    BY <1>1, <1>3, <2>1, FirstExists DEF Fields
  <2>3. \A i \in DOMAIN p.custom : IsFirst(p.custom, f, i) => i = first
    BY <2>1, <2>2 DEF IsFirst
  <2>4. WishWhole(p)[f] = p.custom[first].command
    BY <1>1, <1>3 DEF WishWhole
  <2>5. p.custom[first].command # Removed
    <3>1. p.custom[first] \in Binds \cup {Gap}
      BY <2>1, <2>2
    <3> QED
      BY <3>1, PipelineAssumption DEF Binds, Gap
  <2> QED
    BY <1>3, <2>3, <2>4, <2>5 DEF Has
<1>4. CASE f \notin Settings /\ ~Listed(p.custom, f)
  BY <1>1, <1>4 DEF Has, WishWhole, AskedWhole
<1> QED
  BY <1>2, <1>3, <1>4

\* The monitor gets the command of a bind that no other of its group follows.
LEMMA PrevailingWins ==
    ASSUME NEW p \in Payloads, NEW k \in Keys, NEW w \in Values \ {Unset},
           NEW b \in BindsOf(p), Has(p, k, w), Prevails(p, k)
    PROVE  b[Group[k]] = w
<1> DEFINE fires == {i \in DOMAIN p.custom : Fires(p.custom[i], Group[k])}
<1>1. k \notin Settings /\ w # Removed /\ Group[k] \in Groups
  BY PipelineAssumption
<1>2. PICK i \in DOMAIN p.custom :
        /\ IsFirst(p.custom, k, i)
        /\ \A j \in DOMAIN p.custom : j > i => ~Fires(p.custom[j], Group[k])
  BY DEF Prevails
<1>3. p.custom[i].command = w
  BY <1>1, <1>2 DEF Has
<1>4. i \in fires
  BY <1>2, <1>3 DEF Fires, IsFirst
<1>5. b[Group[k]] \in {p.custom[n].command : n \in {n \in fires : \A j \in fires : j <= n}}
  BY <1>1, <1>4 DEF BindsOf, CommandsFor
<1>6. PICK n \in fires : (\A j \in fires : j <= n) /\ b[Group[k]] = p.custom[n].command
  BY <1>5
<1>7. p.custom \in Seq(Binds \cup {Gap})
  BY DEF Payloads
<1>8. n = i
  BY <1>2, <1>4, <1>6, <1>7
<1> QED
  BY <1>3, <1>6, <1>8

\* The monitor has no command of a key that nothing is bound to.
LEMMA UnboundIsGone ==
    ASSUME NEW p \in Payloads, NEW k \in Keys, NEW b \in BindsOf(p), ~BoundIn(p, k)
    PROVE  b[Group[k]] \in Others(p, k) \cup {Unset}
<1>1. Group[k] \in Groups
  BY PipelineAssumption
<1>2. \A c \in p.system \cup p.ambxst \cup {p.custom[i] : i \in DOMAIN p.custom} :
          Fires(c, Group[k]) => c.command \in Others(p, k)
  BY DEF BoundIn, Listed, Others
<1>3. b[Group[k]] \in CommandsFor(p, Group[k])
  BY <1>1 DEF BindsOf
<1> QED
  BY <1>2, <1>3 DEF CommandsFor

\* t has made its changes to the cached payload.
Cached(t) == pc[t] \in {"current", "bind"} \/ (Busy(t) /\ kind[t] = "update")

\* What makes AcknowledgedIsKept inductive: what a request sets is in the
\* cached payload from the moment it sets it, and in the copy it hands to the
\* monitor; a payload that is yet to be cached has it.
KeptFor(t) ==
    /\ Cached(t) => \A f \in asked[t] \ over[t] :
          /\ Has(last, f, wish[t][f])
          /\ pc[t] = "bind" => Has(payload[t], f, wish[t][f])
    /\ Busy(t) /\ ~Cached(t) =>
          /\ kind[t] = "apply"
          /\ \A f \in asked[t] : Has(payload[t], f, wish[t][f])
    /\ pc[t] = "seed" => kind[t] = "apply"

Kept == \A t \in Threads : KeptFor(t)

LEMMA KeptMutate ==
    ASSUME TypeOK, Kept, NEW c \in Threads, NEW k \in {"update", "bind"},
           NEW u \in Updates, NEW step \in {"create", "current"},
           k = "bind" => step = "current",
           Mutate(c, k, u, step)
    PROVE  Kept'
<1> SUFFICES ASSUME NEW t \in Threads PROVE KeptFor(t)'
  BY DEF Kept
<1>0. last \in Payloads /\ last' = Changed(u)
  BY DEF TypeOK, Mutate
<1>1. CASE t = c
  <2>1. /\ pc'[t] = step /\ kind'[t] = k
        /\ asked'[t] = AskedBy(u) /\ wish'[t] = WishOf(u)
    BY <1>1 DEF TypeOK, Mutate, Begin, GoTo
  <2>2. \A f \in AskedBy(u) : Has(last', f, WishOf(u)[f])
    BY <1>0, ChangedHas
  <2> QED
    BY <2>1, <2>2 DEF KeptFor, Cached, Busy
<1>2. CASE t # c
  <2>1. /\ pc'[t] = pc[t] /\ kind'[t] = kind[t] /\ payload'[t] = payload[t]
        /\ asked'[t] = asked[t] /\ wish'[t] = wish[t]
    BY <1>2 DEF TypeOK, Mutate, Begin, GoTo
  <2>2. Busy(t) => over'[t] = over[t] \cup AskedBy(u)
    BY <1>2 DEF Mutate, Overtaken
  <2>3. \A f \in Fields \ AskedBy(u) : \A w : Has(last, f, w) => Has(last', f, w)
    BY <1>0, ChangedKeeps
  <2>4. KeptFor(t) /\ asked[t] \subseteq Fields
    BY DEF Kept, TypeOK
  <2> QED
    BY <2>1, <2>2, <2>3, <2>4 DEF KeptFor, Cached, Busy
<1> QED
  BY <1>1, <1>2

LEMMA KeptApply ==
    ASSUME TypeOK, Kept, NEW c \in Threads, NEW p \in Payloads, Apply(c, p)
    PROVE  Kept'
<1> SUFFICES ASSUME NEW t \in Threads PROVE KeptFor(t)'
  BY DEF Kept
<1>1. CASE t = c
  <2>1. \A f \in AskedWhole(p) : Has(p, f, WishWhole(p)[f])
    BY WholeHas
  <2> QED
    BY <1>1, <2>1 DEF TypeOK, KeptFor, Cached, Busy, Apply, Begin, GoTo
<1>2. CASE t # c
  BY <1>2 DEF TypeOK, Kept, KeptFor, Cached, Busy, Apply, Begin, GoTo, state
<1> QED
  BY <1>1, <1>2

LEMMA KeptProceed ==
    ASSUME TypeOK, Kept, NEW c \in Threads, Proceed(c)
    PROVE  Kept'
<1> SUFFICES ASSUME NEW t \in Threads PROVE KeptFor(t)'
  BY DEF Kept
<1>0. KeptFor(t) /\ KeptFor(c)
  BY DEF Kept
<1> USE DEF TypeOK, KeptFor, Cached, Busy
<1>1. CASE Create(c)
  BY <1>0, <1>1 DEF Create, GoTo, history
<1>2. CASE Write(c)
  BY <1>0, <1>2 DEF Write, GoTo, history
<1>3. CASE Reload(c)
  BY <1>0, <1>3 DEF Reload, GoTo, history
<1>4. CASE Fail(c)
  BY <1>0, <1>4 DEF Fail, End, GoTo
<1>5. CASE Seed(c)
  <2>1. CASE t = c
    BY <1>0, <1>5, <2>1 DEF Seed, GoTo
  <2>2. CASE t # c
    <3>1. Busy(t) => over'[t] = over[t] \cup Fields
      BY <1>5, <2>2 DEF Seed, Overtaken
    <3> QED
      BY <1>0, <1>5, <2>2, <3>1 DEF Seed, GoTo
  <2> QED
    BY <2>1, <2>2
<1>6. CASE Current(c)
  BY <1>0, <1>6 DEF Current, GoTo, state, history
<1>7. CASE SetBinds(c)
  BY <1>0, <1>7 DEF SetBinds, End, GoTo
<1> QED
  BY <1>1, <1>2, <1>3, <1>4, <1>5, <1>6, <1>7 DEF Proceed

LEMMA KeptStep ==
    ASSUME TypeOK, Kept, [Next]_vars
    PROVE  Kept'
<1>1. CASE UNCHANGED vars
  BY <1>1 DEF Kept, KeptFor, Cached, Busy, vars, state, work, history
<1>2. ASSUME NEW c \in Threads, NEW u \in Updates, Update(c, u) \/ BindKey(c, u)
      PROVE  Kept'
  BY <1>2, KeptMutate DEF Update, BindKey
<1>3. ASSUME NEW c \in Threads, Refused(c) \/ ReloadRequest(c)
      PROVE  Kept'
  BY <1>3 DEF Kept, KeptFor, Cached, Busy, Refused, ReloadRequest, state, work,
              history
<1>4. ASSUME NEW t \in Threads, NEW p \in Payloads, Apply(t, p)
      PROVE  Kept'
  BY <1>4, KeptApply
<1>5. ASSUME NEW t \in Threads, Proceed(t)
      PROVE  Kept'
  BY <1>5, KeptProceed
<1> QED
  BY <1>1, <1>2, <1>3, <1>4, <1>5, NextCases

\* What an acknowledged request set is in the cached payload, unless another
\* goroutine has set it since; its command is the monitor's unless a later bind
\* of the group takes precedence, and one it unbound no longer is.
THEOREM UpdatesAreKept == Spec => AcknowledgedIsKept
<1> DEFINE Acknowledged(t) ==
        \A f \in asked[t] \ over[t] :
            /\ Has(last, f, wish[t][f])
            /\ f \in Keys /\ wish[t][f] = Removed =>
                  binds'[Group[f]] \in Others(payload[t], f) \cup {Unset}
            /\ f \in Keys /\ wish[t][f] \notin {Removed, Unset} /\ Prevails(payload[t], f) =>
                  binds'[Group[f]] = wish[t][f]
<1>1. Init => Kept
  BY DEF Init, Kept, KeptFor, Cached, Busy
<1>2. TypeOK /\ Kept /\ [Next]_vars => Kept'
  BY KeptStep
<1>3. ASSUME TypeOK, Kept, NEW t \in Threads, SetBinds(t)
      PROVE  Acknowledged(t)
  <2> SUFFICES ASSUME NEW f \in asked[t] \ over[t]
               PROVE  /\ Has(last, f, wish[t][f])
                      /\ f \in Keys /\ wish[t][f] = Removed =>
                            binds'[Group[f]] \in Others(payload[t], f) \cup {Unset}
                      /\ f \in Keys /\ wish[t][f] \notin {Removed, Unset}
                           /\ Prevails(payload[t], f) => binds'[Group[f]] = wish[t][f]
    OBVIOUS
  <2>1. Has(last, f, wish[t][f]) /\ Has(payload[t], f, wish[t][f])
    BY <1>3 DEF Kept, KeptFor, Cached, SetBinds
  <2>2. payload[t] \in Payloads /\ binds' \in BindsOf(payload[t])
    BY <1>3 DEF TypeOK, SetBinds
  <2>3. f \in Fields /\ wish[t][f] \in Values \cup {Removed}
    BY <1>3 DEF TypeOK, Wishes
  <2>4. f \in Keys /\ wish[t][f] = Removed => ~BoundIn(payload[t], f)
    BY <2>1, PipelineAssumption DEF Has
  <2>5. f \in Keys /\ wish[t][f] = Removed =>
          binds'[Group[f]] \in Others(payload[t], f) \cup {Unset}
    BY <2>2, <2>4, UnboundIsGone
  <2>6. f \in Keys /\ wish[t][f] \notin {Removed, Unset} /\ Prevails(payload[t], f) =>
          binds'[Group[f]] = wish[t][f]
    BY <2>1, <2>2, <2>3, PrevailingWins
  <2> QED
    BY <2>1, <2>5, <2>6
<1>4. TypeOK /\ Kept /\ [Next]_vars =>
        [\A t \in Threads : SetBinds(t) => Acknowledged(t)]_vars
  BY <1>3
<1> QED
  BY <1>1, <1>2, <1>4, TypeCorrect, PTL DEF Spec, AcknowledgedIsKept

----------------------------------------------------------------------------
(* Undisturbed requests *)

\* The file holds what niri runs, and both are the cached payload.
Aligned == file = last.settings /\ loaded = file

\* How far an undisturbed request has brought the parts into line.
CalmFor(t) ==
    /\ \A s \in Threads \ {t} : ~Busy(s)
    /\ Busy(t)
    /\ pc[t] = "write" => file = Emptied
    /\ pc[t] = "reload" => file = payload[t].settings
    /\ pc[t] = "seed" => file = payload[t].settings /\ loaded = file
    /\ pc[t] \in {"create", "write", "reload"} /\ kind[t] # "apply" =>
          payload[t] = last
    /\ pc[t] \in {"current", "bind"} /\ kind[t] # "bind" => Aligned
    /\ pc[t] = "bind" => payload[t] = last

Calm == \A t \in Threads : calm[t] => CalmFor(t)

LEMMA CalmBegin ==
    ASSUME TypeOK, Calm, NEW c \in Threads,
           NEW k \in {"update", "apply", "bind"}, NEW p \in Payloads,
           NEW fs \in SUBSET Fields, NEW w \in Wishes,
           NEW step \in {"create", "current"},
           step = "current" => k = "bind",
           Begin(c, k, p, fs, w, step),
           k # "apply" => last' = p
    PROVE  Calm'
<1> SUFFICES ASSUME NEW t \in Threads, calm'[t] PROVE CalmFor(t)'
  BY DEF Calm
<1>1. t = c /\ Quiet
  BY DEF Begin
<1> QED
  BY <1>1 DEF TypeOK, CalmFor, Begin, GoTo, Quiet, Busy

LEMMA CalmProceed ==
    ASSUME TypeOK, Calm, NEW c \in Threads, Proceed(c)
    PROVE  Calm'
<1> SUFFICES ASSUME NEW t \in Threads, calm'[t] PROVE CalmFor(t)'
  BY DEF Calm
<1>1. calm' = calm \/ calm' = [calm EXCEPT ![c] = FALSE]
  BY DEF Proceed, Create, Write, Reload, Fail, Seed, Current, SetBinds, End,
         history
<1>2. calm[t] /\ CalmFor(t)
  BY <1>1 DEF TypeOK, Calm
<1>3. Busy(c)
  BY DEF Proceed, Create, Write, Reload, Fail, Seed, Current, SetBinds, Busy
<1>4. t = c
  BY <1>2, <1>3 DEF CalmFor
<1> USE DEF TypeOK, CalmFor, Busy, Aligned
<1>5. CASE Create(c)
  BY <1>2, <1>4, <1>5 DEF Create, GoTo
<1>6. CASE Write(c)
  BY <1>2, <1>4, <1>6 DEF Write, GoTo
<1>7. CASE Reload(c)
  <2>1. loaded' = file
    BY <1>2, <1>4, <1>7, PipelineAssumption DEF Reload, ReloadConfig, Payloads
  <2> QED
    BY <1>2, <1>4, <1>7, <2>1 DEF Reload, GoTo
<1>8. CASE Fail(c) \/ SetBinds(c)
  BY <1>4, <1>8 DEF Fail, SetBinds, End
<1>9. CASE Seed(c)
  BY <1>2, <1>4, <1>9 DEF Seed, GoTo
<1>10. CASE Current(c)
  BY <1>2, <1>4, <1>10 DEF Current, GoTo, state
<1> QED
  BY <1>5, <1>6, <1>7, <1>8, <1>9, <1>10 DEF Proceed

LEMMA CalmStep ==
    ASSUME TypeOK, Calm, [Next]_vars
    PROVE  Calm'
<1>1. CASE UNCHANGED vars
  BY <1>1 DEF Calm, CalmFor, Aligned, Busy, vars, state, work, history
<1>2. ASSUME NEW c \in Threads, NEW u \in Updates, Update(c, u) \/ BindKey(c, u)
      PROVE  Calm'
  BY <1>2, CalmBegin, ChangedType, WishTypes DEF TypeOK, Update, BindKey, Mutate
<1>3. ASSUME NEW c \in Threads, Refused(c) \/ ReloadRequest(c)
      PROVE  Calm'
  <2>1. CASE Refused(c)
    BY <2>1 DEF Calm, CalmFor, Aligned, Busy, Refused, state, work, history
  <2>2. CASE ReloadRequest(c)
    <3> SUFFICES ASSUME NEW t \in Threads, calm'[t] PROVE CalmFor(t)'
      BY DEF Calm
    <3>1. CalmFor(t)
      BY <2>2 DEF Calm, ReloadRequest, history
    <3>2. file \in [Settings -> Values] => loaded' = file
      BY <2>2, PipelineAssumption DEF ReloadRequest, ReloadConfig
    <3> QED
      BY <2>2, <3>1, <3>2
      DEF TypeOK, CalmFor, Aligned, Busy, ReloadRequest, work, Payloads
  <2> QED
    BY <1>3, <2>1, <2>2
<1>4. ASSUME NEW t \in Threads, NEW p \in Payloads, Apply(t, p)
      PROVE  Calm'
  BY <1>4, CalmBegin, WishWholeTypes DEF Apply
<1>5. ASSUME NEW t \in Threads, Proceed(t)
      PROVE  Calm'
  BY <1>5, CalmProceed
<1> QED
  BY <1>1, <1>2, <1>3, <1>4, <1>5, NextCases

\* One undisturbed request leaves the monitor, the file and niri in line with
\* the cached payload, whatever it found.
THEOREM OneRequestSettles == Spec => SettlesAlone
<1>1. Init => Calm
  BY DEF Init, Calm
<1>2. TypeOK /\ Calm /\ [Next]_vars => Calm'
  BY CalmStep
<1>3. TypeOK /\ Calm /\ [Next]_vars =>
        [\A t \in Threads : SetBinds(t) /\ calm[t] =>
            /\ binds' \in BindsOf(last)
            /\ kind[t] # "bind" => file = last.settings /\ loaded = file]_vars
  BY DEF Calm, CalmFor, Aligned, SetBinds
<1> QED
  BY <1>1, <1>2, <1>3, TypeCorrect, PTL DEF Spec, SettlesAlone
=============================================================================
