-------------------------- MODULE HwrRegistryProofs --------------------------
(***************************************************************************)
(* For any tasks, clients, register locations and failures of the steps of *)
(* init: which pointers of the driver can be missing when they are used,   *)
(* that a driver whose init failed runs no program, and that the count of  *)
(* its users is right.                                                     *)
(***************************************************************************)
EXTENDS HwrRegistry, FiniteSetTheorems, TLAPS

(* The steps of hwrtype_rhino_init before step s.                          *)
Before(s) ==
  (IF s # "type" THEN {"type"} ELSE {})
  \cup (IF s \notin {"type", "page"} THEN {"page"} ELSE {})
  \cup (IF s \notin {"type", "page", "iobuf"} THEN {"iobuf"} ELSE {})
  \cup (IF s \in {"cs0", "cs1", "cs2", "cache", "dev"} THEN {"bus"} ELSE {})
  \cup (IF s \in {"cs1", "cs2", "cache", "dev"} THEN {"cs0"} ELSE {})
  \cup (IF s \in {"cs2", "cache", "dev"} THEN {"cs1"} ELSE {})
  \cup (IF s \in {"cache", "dev"} THEN {"cs2"} ELSE {})
  \cup (IF s = "dev" THEN {"cache"} ELSE {})

Unchecked == {"page", "cache"}

(* While init is under way it has exactly what came before, less the       *)
(* unchecked steps that failed.                                            *)
UnderWay ==
  at # "done" =>
    /\ retval = 0
    /\ failed \subseteq Unchecked
    /\ have \subseteq Before(at)
    /\ Before(at) \subseteq have \cup failed
    /\ count = IF at = "type" THEN 0 ELSE 1
    /\ \A t \in Tasks : tpc[t] = "idle"
    /\ \A c \in Clients : cpc[c] = "idle"
    /\ owner = NULL /\ stale = {} /\ oops = {}

(* When it is over: with the buffer, all that came after it is there too;  *)
(* a type without the buffer is that of one of the two early exits; an SPI *)
(* device means that nothing but an unchecked step failed; an error means  *)
(* that there is no device.                                                *)
Over ==
  at = "done" =>
    /\ "iobuf" \in have => {"page", "bus"} \cup Mapped \subseteq have \cup (failed \cap {"page"})
    /\ "type" \in have /\ "iobuf" \notin have => failed \cap {"iobuf", "bus"} # {}
    /\ "dev" \in have => Step \subseteq have \cup (failed \cap Unchecked)
    /\ retval # 0 => "dev" \notin have

(* A program runs only with a device; a load has the type, and whoever is  *)
(* at a register that was not freed is at one of its owner; the buffer is  *)
(* held only if there is one.                                              *)
Users ==
  /\ (\E t \in Tasks : tpc[t] = "run") => "dev" \in have
  /\ \A t \in Tasks : tpc[t] # "idle" <=> owner = t
  /\ owner # NULL => "type" \in have
  /\ \A c \in Clients : cpc[c] # "idle" => "type" \in have
  /\ \A c \in Clients : cpc[c] # "idle" /\ c \notin stale => owner # NULL
  /\ \A c \in Clients : cpc[c] \in {"hold", "sent"} => "iobuf" \in have

(* The parts of TypeOK that the argument needs.                            *)
Types ==
  /\ at \in Step \cup {"done"}
  /\ have \subseteq Step
  /\ failed \subseteq Fail
  /\ owner \in Tasks \cup {NULL}
  /\ tpc \in [Tasks -> {"idle"} \cup Listed]
  /\ cpc \in [Clients -> {"idle", "wait", "hold", "sent"}]

RegInv == Types /\ UnderWay /\ Over /\ Users /\ NothingMissing /\ FailedInitFrees

LEMMA InitReg == Init => RegInv
  BY RegistryAssumption DEF Init, RegInv, Types, UnderWay, Over, Users,
     NothingMissing, FailedInitFrees, Step, Before, Unchecked, Mapped, Windows, Listed

(* Every step of init, its failures and the cleanup included.              *)
LEMMA BootReg == RegInv /\ Boot => RegInv'
<1> SUFFICES ASSUME RegInv, Boot PROVE RegInv'
  OBVIOUS
<1> USE RegistryAssumption
    DEF RegInv, Types, UnderWay, Over, Users, NothingMissing, FailedInitFrees,
        Step, Before, Unchecked, Acquire, Fails, Leave, useVars, Windows, Mapped, Listed
<1>1. CASE Register
  <2>1. CASE Acquire("type", "page") /\ count' = count + 1
    BY <2>1
  <2>2. CASE Fails("type") /\ Leave(-1) /\ UNCHANGED <<have, count>>
    BY <2>2
  <2> QED
    BY <1>1, <2>1, <2>2 DEF Register
<1>2. CASE GetPage
  BY <1>2 DEF GetPage
<1>3. CASE GetIobuf
  BY <1>3 DEF GetIobuf, ENOMEM
<1>4. CASE GetBus
  BY <1>4 DEF GetBus, ENOMEM
<1>5. ASSUME NEW w \in Mapped, Fails(w), Leave(-ENOMEM), Cleanup
      PROVE  RegInv'
  <2>1. count = 1 /\ at = w /\ w # "type" /\ w # "done"
    BY <1>5
  <2>2. have \subseteq Mapped \cup {"bus", "iobuf", "page", "cache", "type"}
    BY <1>5
  <2>3. have' = {}
    <3>1. have' = (have \ (Mapped \cup {"bus", "iobuf", "page", "cache"})) \ {"type"}
      BY <1>5, <2>1 DEF Cleanup, Unregister
    <3> QED
      BY <2>2, <3>1
  <2>4. at' = "done" /\ failed' = failed \cup {w} /\ w \in Fail /\ UNCHANGED useVars
    BY <1>5
  <2>5. Types' /\ Users' /\ NothingMissing'
    BY <2>1, <2>3, <2>4
  <2>6. UnderWay' /\ Over' /\ FailedInitFrees'
    BY <2>3, <2>4
  <2> QED
    BY <2>5, <2>6
<1>6. ASSUME NEW w \in Mapped, NEW next,
             <<w, next>> \in {<<"cs0", "cs1">>, <<"cs1", "cs2">>, <<"cs2", "cache">>},
             Acquire(w, next), UNCHANGED count
      PROVE  RegInv'
  <2>1. CASE w = "cs0" /\ next = "cs1"
    BY <1>6, <2>1
  <2>2. CASE w = "cs1" /\ next = "cs2"
    BY <1>6, <2>2
  <2>3. CASE w = "cs2" /\ next = "cache"
    BY <1>6, <2>3
  <2> QED
    BY <1>6, <2>1, <2>2, <2>3
<1>7. CASE MapWindow("cs0", "cs1") \/ MapWindow("cs1", "cs2") \/ MapWindow("cs2", "cache")
  <2> HIDE DEF RegInv, Acquire, Fails, Leave
  <2> QED
    BY <1>5, <1>6, <1>7 DEF MapWindow
<1>8. CASE GetCache
  BY <1>8 DEF GetCache
<1>9. CASE RegisterDriver
  BY <1>9 DEF RegisterDriver
<1> QED
  BY <1>1, <1>2, <1>3, <1>4, <1>7, <1>8, <1>9 DEF Boot

(* Loads and register accesses change nothing of what init acquired.       *)
LEMMA UseReg == RegInv /\ Use => RegInv'
<1> SUFFICES ASSUME RegInv, Use PROVE RegInv'
  OBVIOUS
<1>1. at = "done" /\ oops = {} /\ UNCHANGED initVars
  BY DEF Use, LoadStep, IoStep, Load, ListFails, GetOps, ConfigureFails, Configure,
     Exit, IoBegin, Interrupted, InputRefused, GotIobuf, CopyFaults, Transfer, IoEnd,
     UseFreed, Proceed, Return, Up
<1>2. Over' /\ UnderWay' /\ FailedInitFrees'
  BY <1>1 DEF RegInv, Over, UnderWay, FailedInitFrees, initVars
<1>3. ASSUME NEW t \in Tasks, Load(t) \/ GetOps(t)
      PROVE  Types' /\ Users' /\ NothingMissing'
  BY <1>1, <1>3, RegistryAssumption DEF RegInv, Types, Users, NothingMissing, initVars,
     Load, GetOps, Listed
<1>4. ASSUME NEW t \in Tasks, ListFails(t) \/ ConfigureFails(t) \/ Exit(t)
      PROVE  Types' /\ Users' /\ NothingMissing'
  BY <1>1, <1>4, RegistryAssumption DEF RegInv, Types, Users, NothingMissing, initVars,
     ListFails, ConfigureFails, Exit, GiveUp, Inside
<1>5. ASSUME NEW t \in Tasks, Configure(t)
      PROVE  Types' /\ Users' /\ NothingMissing'
  <2>1. CASE {"cache"} \subseteq have
    BY <1>1, <1>5, <2>1, RegistryAssumption DEF RegInv, Types, Users, NothingMissing,
       initVars, Configure, Follow, Listed
  <2>2. CASE ~({"cache"} \subseteq have)
    <3>1. oops' = {"cache"} /\ "cache" \in failed /\ UNCHANGED <<owner, tpc, cpc, stale>>
      BY <1>1, <1>5, <2>2 DEF Configure, Follow, RegInv, Over, Step
    <3> QED
      BY <1>1, <3>1 DEF RegInv, Types, Users, NothingMissing, initVars
  <2> QED BY <2>1, <2>2
<1>6. ASSUME NEW c \in Clients,
             IoBegin(c) \/ Interrupted(c) \/ InputRefused(c) \/ CopyFaults(c) \/ IoEnd(c)
      PROVE  Types' /\ Users' /\ NothingMissing'
  BY <1>1, <1>6 DEF RegInv, Types, Users, NothingMissing, initVars, IoBegin, Interrupted,
     InputRefused, CopyFaults, IoEnd, Return
<1>7. ASSUME NEW c \in Clients, UseFreed(c)
      PROVE  Types' /\ Users' /\ NothingMissing'
  BY <1>1, <1>7 DEF RegInv, Types, Users, NothingMissing, initVars, UseFreed, Step
<1>8. ASSUME NEW c \in Clients, GotIobuf(c)
      PROVE  Types' /\ Users' /\ NothingMissing'
  <2>1. CASE {"iobuf"} \subseteq have
    <3>1. /\ cpc' = [cpc EXCEPT ![c] = "hold"] /\ cpc[c] = "wait" /\ "iobuf" \in have
          /\ UNCHANGED <<initVars, owner, tpc, stale, oops>>
      BY <1>1, <1>8, <2>1 DEF GotIobuf, Follow, Proceed
    <3> QED
      BY <1>1, <3>1 DEF RegInv, Types, Users, NothingMissing, initVars
  <2>2. CASE ~({"iobuf"} \subseteq have)
    <3>1. oops' = {"iobuf"} /\ "iobuf" \notin have /\ UNCHANGED <<owner, tpc, cpc, stale>>
      BY <1>8, <2>2 DEF GotIobuf, Follow
    <3>2. owner \in Tasks /\ "type" \in have /\ tpc[owner] # "idle"
      BY <1>8 DEF GotIobuf, Proceed, RegInv, Types, Users
    <3>3. "dev" \notin have
      BY <1>1, <3>1 DEF RegInv, Over, Step, Unchecked
    <3>4. tpc[owner] \in {"listed", "config"}
      BY <3>2, <3>3 DEF RegInv, Types, Users, Listed
    <3>5. failed \cap {"iobuf", "bus"} # {}
      BY <1>1, <3>1, <3>2 DEF RegInv, Over
    <3>6. NothingMissing'
      BY <1>1, <3>1, <3>2, <3>4, <3>5, RegistryAssumption DEF NothingMissing, initVars
    <3> QED
      BY <1>1, <3>1, <3>6 DEF RegInv, Types, Users, initVars
  <2> QED BY <2>1, <2>2
<1>9. ASSUME NEW c \in Clients, NEW w \in Locs, Transfer(c, w)
      PROVE  Types' /\ Users' /\ NothingMissing'
  <2>1. "iobuf" \in have
    BY <1>9 DEF RegInv, Users, Transfer, Proceed
  <2>2. CASE {"page", "bus", w} \subseteq have
    BY <1>1, <1>9, <2>1, <2>2 DEF RegInv, Types, Users, NothingMissing, initVars,
       Transfer, Follow, Proceed
  <2>3. CASE ~({"page", "bus", w} \subseteq have)
    <3>1. {"page", "bus"} \cup Mapped \subseteq have \cup (failed \cap {"page"})
      BY <1>1, <2>1 DEF RegInv, Over
    <3>2. oops' = {"page", "bus", w} \ have /\ UNCHANGED <<owner, tpc, cpc, stale>>
      BY <1>9, <2>3 DEF Transfer, Follow
    <3>3. oops' \cap Step \subseteq failed \cap {"page"} /\ "iobuf" \notin oops'
      BY <3>1, <3>2, RegistryAssumption DEF Step, Windows, Mapped
    <3> QED
      BY <1>1, <3>2, <3>3 DEF RegInv, Types, Users, NothingMissing, initVars
  <2> QED BY <2>2, <2>3
<1> QED
  BY <1>2, <1>3, <1>4, <1>5, <1>6, <1>7, <1>8, <1>9 DEF Use, LoadStep, IoStep, RegInv

LEMMA RegCorrect == Spec => []RegInv
<1>1. RegInv /\ UNCHANGED vars => RegInv'
  BY DEF RegInv, Types, UnderWay, Over, Users, NothingMissing, FailedInitFrees,
     vars, initVars, useVars
<1>2. RegInv /\ [Next]_vars => RegInv'
  BY <1>1, BootReg, UseReg DEF Next
<1> QED
  BY <1>2, InitReg, PTL DEF Spec

(* What the users of the driver can find missing: the two allocations that *)
(* nobody looks at, and the buffer of an init that gave up early, which    *)
(* only an access to a task under load meets.                              *)
THEOREM NothingMissingCorrect == Spec => []NothingMissing
<1>1. RegInv => NothingMissing
  BY DEF RegInv
<1> QED BY <1>1, RegCorrect, PTL

(* An init that fails gives back what it took, but for the type and the    *)
(* page in its two early exits.                                            *)
THEOREM FailedInitFreesCorrect == Spec => []FailedInitFrees
<1>1. RegInv => FailedInitFrees
  BY DEF RegInv
<1> QED BY <1>1, RegCorrect, PTL

(* No program runs on a driver whose init failed.                          *)
THEOREM FailedInitRefusesCorrect == Spec => []FailedInitRefuses
<1>1. RegInv => FailedInitRefuses
  BY DEF RegInv, Over, Users, FailedInitRefuses
<1> QED BY <1>1, RegCorrect, PTL

(* Both together: what a failing init leaves behind is of no use to a      *)
(* load and, but for the named resources, nothing.                         *)
THEOREM FailedInitCorrect == Spec => []FailedInit
<1> QED
  BY FailedInitFreesCorrect, FailedInitRefusesCorrect, PTL DEF FailedInit

(* No step of init or of a user of the driver breaks the types.            *)
LEMMA TypeStep == TypeOK /\ [Next]_vars => TypeOK'
<1> SUFFICES ASSUME TypeOK, [Next]_vars PROVE TypeOK'
  OBVIOUS
<1> USE RegistryAssumption
<1>1. CASE Boot
  <2>1. ASSUME NEW s \in Step, NEW next \in Step \cup {"done"}, Acquire(s, next), count' \in Int
        PROVE  TypeOK'
    BY <2>1 DEF TypeOK, Acquire, useVars
  <2>2. ASSUME NEW s \in Step, Fails(s), at' \in Step \cup {"done"},
               retval' \in {retval, -1, -ENOMEM}, have' \subseteq have, count' \in Int
        PROVE  TypeOK'
    BY <2>2 DEF TypeOK, Fails, useVars
  <2>3. count \in Int /\ count + 1 \in Int /\ count - 1 \in Int
    BY DEF TypeOK
  <2>4. {"type", "page", "iobuf", "bus", "cs0", "cs1", "cs2", "cache", "dev"} = Step
    BY DEF Step
  <2>5. CASE Register \/ GetPage \/ GetIobuf
    BY <2>1, <2>2, <2>3, <2>4, <2>5 DEF Register, GetPage, GetIobuf, Leave
  <2>6. CASE GetBus
    BY <2>1, <2>2, <2>3, <2>4, <2>6 DEF GetBus, Leave
  <2>7. CASE MapWindow("cs0", "cs1") \/ MapWindow("cs1", "cs2") \/ MapWindow("cs2", "cache")
    <3>1. Cleanup => have' \subseteq have /\ count' \in Int
      BY <2>3 DEF Cleanup, Unregister
    <3> QED
      BY <2>1, <2>2, <2>3, <2>4, <2>7, <3>1 DEF MapWindow, Leave
  <2>8. CASE GetCache \/ RegisterDriver
    BY <2>1, <2>2, <2>3, <2>4, <2>8 DEF GetCache, RegisterDriver
  <2> QED
    BY <1>1, <2>5, <2>6, <2>7, <2>8 DEF Boot
<1>2. ASSUME NEW t \in Tasks,
             Load(t) \/ GetOps(t) \/ ListFails(t) \/ ConfigureFails(t) \/ Exit(t)
      PROVE  TypeOK'
  BY <1>2 DEF TypeOK, Load, GetOps, ListFails, ConfigureFails, Exit, GiveUp, Inside,
     Listed, initVars
<1>f. ASSUME NEW S, S \subseteq Step \cup Windows, oops' = S \ have,
             UNCHANGED <<initVars, count, owner, tpc, cpc, stale>>
      PROVE  TypeOK'
  BY <1>f DEF TypeOK, initVars
<1>3. ASSUME NEW t \in Tasks, Configure(t) PROVE TypeOK'
  <2>1. CASE {"cache"} \subseteq have
    BY <1>3, <2>1 DEF TypeOK, Configure, Follow, Listed, initVars
  <2>2. CASE ~({"cache"} \subseteq have)
    BY <1>3, <1>f, <2>2 DEF Configure, Follow, Step
  <2> QED BY <2>1, <2>2
<1>4. ASSUME NEW c \in Clients, NEW w \in Locs, Transfer(c, w) PROVE TypeOK'
  <2> DEFINE need == {"page", "bus", w}
  <2>1. CASE need \subseteq have
    BY <1>4, <2>1 DEF TypeOK, Transfer, Follow, initVars
  <2>2. CASE ~(need \subseteq have)
    <3>1. need \subseteq Step \cup Windows
      BY DEF Step
    <3>2. oops' = need \ have /\ UNCHANGED <<initVars, count, owner, tpc, cpc, stale>>
      BY <1>4, <2>2 DEF Transfer, Follow
    <3> QED BY <1>f, <3>1, <3>2
  <2> QED BY <1>4, <2>1, <2>2
<1>5. ASSUME NEW c \in Clients, GotIobuf(c) PROVE TypeOK'
  <2>1. CASE {"iobuf"} \subseteq have
    BY <1>5, <2>1 DEF TypeOK, GotIobuf, Follow, initVars
  <2>2. CASE ~({"iobuf"} \subseteq have)
    BY <1>5, <1>f, <2>2 DEF GotIobuf, Follow, Step
  <2> QED BY <2>1, <2>2
<1>6. ASSUME NEW c \in Clients,
             IoBegin(c) \/ Interrupted(c) \/ InputRefused(c) \/ CopyFaults(c) \/ IoEnd(c)
      PROVE  TypeOK'
  BY <1>6 DEF TypeOK, IoBegin, Interrupted, InputRefused, CopyFaults, IoEnd, Return,
     initVars
<1>7. ASSUME NEW c \in Clients, UseFreed(c) PROVE TypeOK'
  BY <1>7 DEF TypeOK, UseFreed, initVars
<1>8. CASE UNCHANGED vars
  BY <1>8 DEF TypeOK, vars, initVars, useVars
<1> QED
  BY <1>1, <1>2, <1>3, <1>4, <1>5, <1>6, <1>7, <1>8 DEF Next, Use, LoadStep, IoStep

(* Type correctness of the registry and its users.                         *)
THEOREM TypeCorrect == Spec => []TypeOK
<1>1. Init => TypeOK
  BY DEF Init, TypeOK, Step, Listed
<1> QED
  BY <1>1, TypeStep, PTL DEF Spec

(* The users of the driver: loads under way and register accesses.         *)
Loads == {t \in Tasks : tpc[t] = "config"}
Accesses == {c \in Clients : cpc[c] # "idle"}

(* What makes the count tell: 1 for the registration and 1 for each user.  *)
Paired ==
  oops = {} =>
    count = (IF "type" \in have THEN 1 ELSE 0)
            + Cardinality(Loads) + Cardinality(Accesses)

(* One more, or one fewer, of a finite set of users.                       *)
LEMMA OneUser ==
  ASSUME NEW S, IsFiniteSet(S), NEW F \in SUBSET S, NEW G \in SUBSET S, NEW x,
         G \ {x} = F \ {x}
  PROVE  /\ x \notin F /\ x \in G => Cardinality(G) = Cardinality(F) + 1
         /\ x \in F /\ x \notin G => Cardinality(G) = Cardinality(F) - 1
         /\ (x \in F <=> x \in G) => Cardinality(G) = Cardinality(F)
<1>1. IsFiniteSet(F) /\ IsFiniteSet(G)
  BY FS_Subset
<1>3. ASSUME x \notin F, x \in G PROVE Cardinality(G) = Cardinality(F) + 1
  <2>1. G = F \cup {x}
    BY <1>3
  <2> QED BY <1>1, <1>3, <2>1, FS_AddElement
<1>4. ASSUME x \in F, x \notin G PROVE Cardinality(G) = Cardinality(F) - 1
  <2>1. G = F \ {x}
    BY <1>4
  <2> QED BY <1>1, <1>4, <2>1, FS_RemoveElement
<1>5. ASSUME x \in F <=> x \in G PROVE Cardinality(G) = Cardinality(F)
  <2>1. G = F
    BY <1>5
  <2> QED BY <2>1
<1> QED BY <1>3, <1>4, <1>5

(* Init, and every exit of it: 1 with the type registered, 0 without.      *)
LEMMA BootCount == RegInv /\ Paired /\ Boot => Paired'
<1> SUFFICES ASSUME RegInv, Boot PROVE Paired'
  OBVIOUS
<1>1. /\ at # "done" /\ have \subseteq Step
      /\ \A t \in Tasks : tpc[t] = "idle"
      /\ \A c \in Clients : cpc[c] = "idle"
      /\ count = IF at = "type" THEN 0 ELSE 1
      /\ at # "type" => "type" \in have
      /\ at = "type" => "type" \notin have
  <2>1. at # "done"
    BY DEF Boot, Register, GetPage, GetIobuf, GetBus, MapWindow, GetCache,
       RegisterDriver, Acquire, Fails
  <2>2. failed \subseteq Unchecked /\ have \subseteq Before(at)
        /\ Before(at) \subseteq have \cup failed
    BY <2>1 DEF RegInv, UnderWay
  <2>3. (at # "type" => "type" \in have) /\ (at = "type" => "type" \notin have)
    BY <2>2 DEF Before, Unchecked
  <2> QED
    BY <2>1, <2>3 DEF RegInv, Types, UnderWay
<1>2. Loads = {} /\ Accesses = {}
  BY <1>1 DEF Loads, Accesses
<1>3. UNCHANGED useVars
  BY DEF Boot, Register, GetPage, GetIobuf, GetBus, MapWindow, GetCache,
     RegisterDriver, Acquire, Fails
<1>4. Cardinality(Loads') = 0 /\ Cardinality(Accesses') = 0
  BY <1>2, <1>3, FS_EmptySet DEF Loads, Accesses, useVars
<1>5. count' = IF "type" \in have' THEN 1 ELSE 0
  <2>1. CASE Register
    BY <1>1, <2>1 DEF Register, Acquire, Fails
  <2>2. CASE GetPage \/ GetIobuf \/ GetBus
    BY <1>1, <2>2 DEF GetPage, GetIobuf, GetBus, Acquire, Fails
  <2>3. ASSUME NEW w \in Mapped, NEW next, MapWindow(w, next)
        PROVE  count' = IF "type" \in have' THEN 1 ELSE 0
    <3>1. at = w /\ w # "type"
      BY <2>3 DEF MapWindow, Acquire, Fails, Mapped
    <3>2. count = 1 /\ "type" \in have
      BY <1>1, <3>1
    <3>3. CASE Cleanup
      BY <3>2, <3>3 DEF Cleanup, Unregister
    <3>4. CASE Acquire(w, next) /\ UNCHANGED count
      BY <3>2, <3>4 DEF Acquire
    <3> QED
      BY <2>3, <3>3, <3>4 DEF MapWindow
  <2>4. CASE GetCache \/ RegisterDriver
    BY <1>1, <2>4 DEF GetCache, RegisterDriver, Acquire, Fails
  <2> QED
    BY <2>1, <2>2, <2>3, <2>4 DEF Boot, Mapped
<1> QED
  BY <1>4, <1>5 DEF Paired

(* Each user takes the driver once, and gives it back once.                *)
LEMMA UseCount == RegInv /\ Paired /\ Use => Paired'
<1> SUFFICES ASSUME RegInv, Paired, Use, oops' = {} PROVE Paired'
  BY DEF Paired
<1> DEFINE base == IF "type" \in have THEN 1 ELSE 0
<1>1. oops = {} /\ UNCHANGED initVars
  BY DEF Use, LoadStep, IoStep, Load, ListFails, GetOps, ConfigureFails, Configure,
     Exit, IoBegin, Interrupted, InputRefused, GotIobuf, CopyFaults, Transfer, IoEnd,
     UseFreed, Proceed, Return, Up
<1>2. count = base + Cardinality(Loads) + Cardinality(Accesses)
  BY <1>1 DEF Paired
<1>3. base \in Nat /\ base' = base
  BY <1>1 DEF initVars
<1>4. SUFFICES count' = base + Cardinality(Loads') + Cardinality(Accesses')
  BY <1>3 DEF Paired
<1>5. /\ tpc \in [Tasks -> {"idle"} \cup Listed]
      /\ cpc \in [Clients -> {"idle", "wait", "hold", "sent"}]
  BY DEF RegInv, Types
<1>6. Cardinality(Loads) \in Nat /\ Cardinality(Accesses) \in Nat
  <2>1. Loads \in SUBSET Tasks /\ Accesses \in SUBSET Clients
    BY DEF Loads, Accesses
  <2> QED
    BY <2>1, FS_Subset, FS_CardinalityType, RegistryAssumption
<1> HIDE DEF base
<1>7. ASSUME NEW t \in Tasks, NEW v, tpc' = [tpc EXCEPT ![t] = v], cpc' = cpc
      PROVE  /\ Cardinality(Accesses') = Cardinality(Accesses)
             /\ tpc[t] # "config" /\ v = "config" =>
                  Cardinality(Loads') = Cardinality(Loads) + 1
             /\ tpc[t] = "config" /\ v # "config" =>
                  Cardinality(Loads') = Cardinality(Loads) - 1
             /\ tpc[t] # "config" /\ v # "config" =>
                  Cardinality(Loads') = Cardinality(Loads)
  <2>1. Accesses' = Accesses
    BY <1>7 DEF Accesses
  <2>2. /\ Loads \in SUBSET Tasks /\ Loads' \in SUBSET Tasks
        /\ Loads' \ {t} = Loads \ {t}
        /\ (t \in Loads <=> tpc[t] = "config") /\ (t \in Loads' <=> v = "config")
    BY <1>5, <1>7 DEF Loads
  <2>3. IsFiniteSet(Tasks)
    BY RegistryAssumption
  <2> QED
    BY <2>1, <2>2, <2>3, OneUser
<1>8. ASSUME NEW c \in Clients, NEW v, cpc' = [cpc EXCEPT ![c] = v], tpc' = tpc
      PROVE  /\ Cardinality(Loads') = Cardinality(Loads)
             /\ cpc[c] = "idle" /\ v # "idle" =>
                  Cardinality(Accesses') = Cardinality(Accesses) + 1
             /\ cpc[c] # "idle" /\ v = "idle" =>
                  Cardinality(Accesses') = Cardinality(Accesses) - 1
             /\ cpc[c] # "idle" /\ v # "idle" =>
                  Cardinality(Accesses') = Cardinality(Accesses)
  <2>1. Loads' = Loads
    BY <1>8 DEF Loads
  <2>2. /\ Accesses \in SUBSET Clients /\ Accesses' \in SUBSET Clients
        /\ Accesses' \ {c} = Accesses \ {c}
        /\ (c \in Accesses <=> cpc[c] # "idle") /\ (c \in Accesses' <=> v # "idle")
    BY <1>5, <1>8 DEF Accesses
  <2>3. IsFiniteSet(Clients)
    BY RegistryAssumption
  <2> QED
    BY <2>1, <2>2, <2>3, OneUser
<1>9. ASSUME NEW t \in Tasks, LoadStep(t)
      PROVE  count' = base + Cardinality(Loads') + Cardinality(Accesses')
  <2>1. CASE GetOps(t)
    <3>1. /\ tpc' = [tpc EXCEPT ![t] = "config"] /\ cpc' = cpc
          /\ count' = count + 1 /\ tpc[t] # "config"
      BY <2>1 DEF GetOps
    <3>2. /\ Cardinality(Loads') = Cardinality(Loads) + 1
          /\ Cardinality(Accesses') = Cardinality(Accesses)
      BY <1>7, <3>1, Zenon
    <3> QED BY <1>2, <1>3, <1>6, <3>1, <3>2
  <2>2. CASE ConfigureFails(t) \/ Configure(t)
    <3>1. PICK v \in {"idle", "run"} :
            /\ tpc' = [tpc EXCEPT ![t] = v] /\ cpc' = cpc
            /\ count' = count - 1 /\ tpc[t] = "config"
      <4>1. CASE ConfigureFails(t)
        BY <4>1 DEF ConfigureFails, GiveUp
      <4>2. CASE Configure(t)
        <5>1. {"cache"} \subseteq have
          BY <4>2 DEF Configure, Follow
        <5> QED
          BY <4>2, <5>1 DEF Configure, Follow
      <4> QED BY <2>2, <4>1, <4>2
    <3>2. v # "config"
      OBVIOUS
    <3>3. /\ Cardinality(Loads') = Cardinality(Loads) - 1
          /\ Cardinality(Accesses') = Cardinality(Accesses)
      BY <1>7, <3>1, <3>2, Zenon
    <3> QED BY <1>2, <1>3, <1>6, <3>1, <3>3
  <2>3. CASE Load(t) \/ ListFails(t) \/ Exit(t)
    <3>1. PICK v \in {"idle", "listed"} :
            /\ tpc' = [tpc EXCEPT ![t] = v] /\ cpc' = cpc
            /\ count' = count /\ tpc[t] # "config"
      BY <2>3 DEF Load, ListFails, Exit, GiveUp
    <3>2. v # "config"
      OBVIOUS
    <3>3. /\ Cardinality(Loads') = Cardinality(Loads)
          /\ Cardinality(Accesses') = Cardinality(Accesses)
      BY <1>7, <3>1, <3>2, Zenon
    <3> QED BY <1>2, <1>3, <1>6, <3>1, <3>3
  <2> QED
    BY <1>9, <2>1, <2>2, <2>3 DEF LoadStep
<1>10. ASSUME NEW c \in Clients, IoStep(c)
       PROVE  count' = base + Cardinality(Loads') + Cardinality(Accesses')
  <2>1. CASE IoBegin(c)
    <3>1. /\ cpc' = [cpc EXCEPT ![c] = "wait"] /\ tpc' = tpc
          /\ count' = count + 1 /\ cpc[c] = "idle" /\ "wait" # "idle"
      BY <2>1 DEF IoBegin
    <3>2. /\ Cardinality(Loads') = Cardinality(Loads)
          /\ Cardinality(Accesses') = Cardinality(Accesses) + 1
      BY <1>8, <3>1, Zenon
    <3> QED BY <1>2, <1>3, <1>6, <3>1, <3>2
  <2>2. CASE Interrupted(c) \/ InputRefused(c) \/ CopyFaults(c) \/ IoEnd(c)
    <3>1. /\ cpc' = [cpc EXCEPT ![c] = "idle"] /\ tpc' = tpc
          /\ count' = count - 1 /\ cpc[c] # "idle"
      BY <2>2 DEF Interrupted, InputRefused, CopyFaults, IoEnd, Return, Proceed
    <3>2. /\ Cardinality(Loads') = Cardinality(Loads)
          /\ Cardinality(Accesses') = Cardinality(Accesses) - 1
      BY <1>8, <3>1, Zenon
    <3> QED BY <1>2, <1>3, <1>6, <3>1, <3>2
  <2>3. ASSUME GotIobuf(c) \/ \E w \in Locs : Transfer(c, w)
        PROVE  count' = base + Cardinality(Loads') + Cardinality(Accesses')
    <3>1. PICK v \in {"hold", "sent"} :
            /\ cpc' = [cpc EXCEPT ![c] = v] /\ tpc' = tpc
            /\ count' = count /\ cpc[c] # "idle"
      <4>1. CASE GotIobuf(c)
        <5>1. {"iobuf"} \subseteq have
          BY <4>1 DEF GotIobuf, Follow
        <5> QED
          BY <4>1, <5>1 DEF GotIobuf, Follow, Proceed
      <4>2. ASSUME NEW w \in Locs, Transfer(c, w)
            PROVE  /\ cpc' = [cpc EXCEPT ![c] = "sent"] /\ tpc' = tpc
                   /\ count' = count /\ cpc[c] # "idle"
        <5>1. {"page", "bus", w} \subseteq have
          BY <4>2 DEF Transfer, Follow
        <5> QED
          BY <4>2, <5>1 DEF Transfer, Follow, Proceed
      <4> QED BY <2>3, <4>1, <4>2
    <3>2. v # "idle"
      OBVIOUS
    <3>3. /\ Cardinality(Loads') = Cardinality(Loads)
          /\ Cardinality(Accesses') = Cardinality(Accesses)
      BY <1>8, <3>1, <3>2, Zenon
    <3> QED BY <1>2, <1>3, <1>6, <3>1, <3>3
  <2>4. ~UseFreed(c)
    BY DEF UseFreed
  <2> QED
    BY <1>10, <2>1, <2>2, <2>3, <2>4 DEF IoStep
<1> QED
  BY <1>9, <1>10 DEF Use

LEMMA PairedCorrect == Spec => []Paired
<1>1. Init => Paired
  <2> SUFFICES ASSUME Init PROVE Paired
    OBVIOUS
  <2>1. Loads = {} /\ Accesses = {} /\ "type" \notin have /\ count = 0
    BY DEF Init, Loads, Accesses
  <2> QED
    BY <2>1, FS_EmptySet DEF Paired
<1>2. RegInv /\ Paired /\ [Next]_vars => Paired'
  <2>1. Paired /\ UNCHANGED vars => Paired'
    BY DEF Paired, Loads, Accesses, vars, initVars, useVars
  <2> QED
    BY <2>1, BootCount, UseCount DEF Next
<1> QED
  BY <1>1, <1>2, RegCorrect, PTL DEF Spec

(* For any number of loads and register accesses, and wherever init gave   *)
(* up: hwrtype_rhino.count is 1 exactly if nobody is between get_hwrops    *)
(* and put_hwrops, so that no exit of a load or an access forgets it.      *)
THEOREM CountBalancedCorrect == Spec => []CountBalanced
<1>1. RegInv /\ Paired => CountBalanced
  <2> SUFFICES ASSUME RegInv, Paired, oops = {} PROVE CountBalanced
    BY DEF CountBalanced
  <2>1. IsFiniteSet(Loads) /\ IsFiniteSet(Accesses)
    <3>1. Loads \in SUBSET Tasks /\ Accesses \in SUBSET Clients
      BY DEF Loads, Accesses
    <3> QED BY <3>1, FS_Subset, RegistryAssumption
  <2>2. /\ Cardinality(Loads) \in Nat /\ Cardinality(Accesses) \in Nat
        /\ Cardinality(Loads) = 0 <=> Loads = {}
        /\ Cardinality(Accesses) = 0 <=> Accesses = {}
    BY <2>1, FS_CardinalityType, FS_EmptySet
  <2>3. count = (IF "type" \in have THEN 1 ELSE 0)
                + Cardinality(Loads) + Cardinality(Accesses)
    BY DEF Paired
  <2>4. "type" \notin have => Loads = {} /\ Accesses = {}
    BY RegistryAssumption DEF RegInv, Users, Loads, Accesses
  <2>5. Loads = {} /\ Accesses = {} <=> Inside = {} /\ \A t \in Tasks : tpc[t] # "config"
    BY DEF Loads, Accesses, Inside
  <2> HIDE DEF Loads, Accesses
  <2> QED BY <2>2, <2>3, <2>4, <2>5 DEF CountBalanced
<1> QED BY <1>1, PairedCorrect, RegCorrect, PTL
==============================================================================
