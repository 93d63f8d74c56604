--------------------------- MODULE RhinoFanProofs ---------------------------
(***************************************************************************)
(* The safety properties of RhinoFan for any number of concurrent runs,    *)
(* any command lines and any contents of the other registers.              *)
(***************************************************************************)
EXTENDS RhinoFan, TLAPS

Options == {"mode", "speed", "ppr", "fault", "clear"}
Sections == Options \cup {"status", "rpm", "scale"}

(* The options that main handles before a section. *)
Before(sec) ==
  CASE sec = "start" -> {}
    [] sec = "mode"  -> {}
    [] sec = "speed" -> {"mode"}
    [] sec = "ppr"   -> {"mode", "speed"}
    [] sec = "fault" -> {"mode", "speed", "ppr"}
    [] sec = "clear" -> {"mode", "speed", "ppr", "fault"}
    [] OTHER         -> Options

(* The history variables are functions. *)
HistoryOK ==
  /\ said = [s \in Settings |-> said[s]]
  /\ did \in [Procs -> SUBSET Options]
  /\ skipped \in [Procs -> SUBSET {"mode", "ppr"}]

(* A run that is under way has a command line that was accepted, and is in *)
(* a section that it asks for, with the ones before it behind it.          *)
UnderWay ==
  \A p \in Procs : pc[p][1] \notin {"start", "end"} =>
    /\ args[p] \in Args
    /\ ~Refused(args[p])
    /\ exit[p] = NULL
    /\ pc[p][1] \in Asked(args[p]) \cup {"rpm", "scale"}
    /\ Asked(args[p]) \cap Before(pc[p][1]) \subseteq did[p] \cup skipped[p]

NotBegun ==
  \A p \in Procs : pc[p][1] = "start" => exit[p] = NULL /\ saw[p] = NULL

(* The chip points at what a run is about to read, unless the run was      *)
(* crossed.                                                                *)
PointerOwn ==
  \A p \in Procs \ crossed : pc[p][2] = "get" => ptr = RegisterOf(pc[p][1], args[p])

SawOwn ==
  \A p \in Procs : saw[p] # NULL =>
    /\ args[p] \in Args
    /\ p \notin crossed => saw[p] = RpmReg(args[p].fan)

(* The copy a run is about to change and write back is the register.       *)
CopyOwn ==
  /\ raced => crossed # {}
  /\ \A p \in Procs \ crossed : pc[p] \in Changing => loc[p] = config

ZeroIsDone ==
  \A p \in Procs : exit[p] = 0 => Asked(args[p]) \ {"status"} \subseteq did[p] \cup skipped[p]

IInv ==
  /\ TypeOK
  /\ HistoryOK
  /\ UnderWay
  /\ NotBegun
  /\ PointerOwn
  /\ SawOwn
  /\ CopyOwn
  /\ ZeroIsDone
  /\ Truthful
  /\ ClearReleased

-----------------------------------------------------------------------------

LEMMA ArgFields ==
  ASSUME NEW a \in Args
  PROVE  /\ a.fan \in Fans
         /\ a.mode \in {"a", "d", NULL}
         /\ a.speed \in Nat \cup {NULL}
         /\ a.ppr \in {1, 2, 4, 8, NULL}
         /\ a.thr \in Nat \cup {NULL}
         /\ a.clear \in BOOLEAN
BY ArgsAssumption DEF CommandLine

(* The next section is one that was asked for, and skips only sections     *)
(* that were not.                                                          *)
LEMMA AfterNext ==
  ASSUME NEW a \in Args, NEW sec \in Options \cup {"start"}
  PROVE  /\ After(a, sec) \in Places
         /\ After(a, sec)[1] \in Asked(a)
         /\ After(a, sec)[1] \in Options \cup {"status"}
         /\ After(a, sec)[2] \in {"ptr", "put"}
         /\ After(a, sec) \notin Changing
         /\ Asked(a) \cap Before(After(a, sec)[1]) \subseteq (Asked(a) \cap Before(sec)) \cup {sec}
<1>1. sec \in {"start", "mode", "speed", "ppr", "fault", "clear"}
  BY DEF Options
<1>2. After(a, sec) \in {<<"mode", "ptr">>, <<"speed", "put">>, <<"ppr", "ptr">>,
                         <<"fault", "put">>, <<"clear", "ptr">>, <<"status", "ptr">>}
  BY <1>1 DEF After, AfterMode, AfterSpeed, AfterPpr, AfterFault
<1>3. After(a, sec)[1] \in Asked(a)
  BY <1>1 DEF After, AfterMode, AfterSpeed, AfterPpr, AfterFault, Asked
<1>4. Asked(a) \cap Before(After(a, sec)[1]) \subseteq (Asked(a) \cap Before(sec)) \cup {sec}
  <2>1. CASE sec = "start"
    BY <2>1 DEF After, AfterMode, AfterSpeed, AfterPpr, AfterFault, Asked, Before, Options
  <2>2. CASE sec = "mode"
    BY <2>2 DEF After, AfterMode, AfterSpeed, AfterPpr, AfterFault, Asked, Before, Options
  <2>3. CASE sec = "speed"
    BY <2>3 DEF After, AfterSpeed, AfterPpr, AfterFault, Asked, Before, Options
  <2>4. CASE sec = "ppr"
    BY <2>4 DEF After, AfterPpr, AfterFault, Asked, Before, Options
  <2>5. CASE sec = "fault"
    BY <2>5 DEF After, AfterFault, Asked, Before, Options
  <2>6. CASE sec = "clear"
    BY <2>6 DEF After, Asked, Before, Options
  <2> QED BY <1>1, <2>1, <2>2, <2>3, <2>4, <2>5, <2>6
<1> QED BY <1>2, <1>3, <1>4 DEF Places, Changing, Options

(* The registers keep their widths. *)
LEMMA Widths ==
  ASSUME NEW n \in Nat
  PROVE  /\ Threshold(n) \in Nat
         /\ FaultByte(Threshold(n)) \in 0..255
         /\ Threshold(n) < 12800 => FaultByte(Threshold(n)) = Threshold(n) \div 50
<1>1. Threshold(n) \in Nat
  BY DEF Threshold
<1>2. ASSUME NEW t \in Nat
      PROVE  /\ t \div 50 \in Nat
             /\ t < 12800 => t \div 50 < 256
  OBVIOUS
<1>3. ASSUME NEW t \in Nat
      PROVE  t % 256 \in 0..255 /\ (t < 256 => t % 256 = t)
  OBVIOUS
<1> QED BY <1>1, <1>2, <1>3 DEF FaultByte

LEMMA BitsType ==
  ASSUME NEW n PROVE Bits(n) \in 0..3
BY DEF Bits

LEMMA PlaceCases ==
  ASSUME NEW x \in Places
  PROVE  /\ x = <<x[1], x[2]>>
         /\ x[1] \in Sections \cup {"start", "end"}
         /\ x[2] \in {"args", "end", "reset", "ptr", "get", "put"}
         /\ x[1] = "start" => x[2] = "args"
         /\ x[1] = "end" => x[2] = "end"
         /\ x[2] \in {"ptr", "get"} => x[1] \in {"mode", "ppr", "clear", "status", "rpm", "scale"}
         /\ x[2] \in {"ptr", "get"} => <<x[1], "get">> \in Places
         /\ x[2] = "put" => x[1] \in Options
         /\ x[2] = "reset" => x[1] = "clear"
         /\ x[2] = "get" => x \in Reading
         /\ x[2] \notin {"put", "reset"} => x \notin Changing
         /\ x[2] \in {"put", "reset"} /\ x[1] \in {"mode", "ppr", "clear"} => x \in Changing
BY DEF Places, Sections, Options, Reading, Changing

(* A configuration made from a copy is one. *)
LEMMA WithType ==
  ASSUME TypeOK, NEW p \in Procs, args[p] \in Args
  PROVE  /\ args[p].mode # NULL => WithMode(p) \in Config
         /\ WithPpr(p) \in Config
         /\ WithClear(p, TRUE) \in Config
         /\ WithClear(p, FALSE) \in Config
BY ArgFields, BitsType DEF TypeOK, Config, WithMode, WithPpr, WithClear, Fans

(* What the fields of such a configuration are. *)
LEMMA WithFields ==
  ASSUME TypeOK, NEW p \in Procs, args[p] \in Args
  PROVE  /\ WithMode(p).clear = loc[p].clear
         /\ WithMode(p).ppr = loc[p].ppr
         /\ WithMode(p).mode = args[p].mode
         /\ WithPpr(p).clear = loc[p].clear
         /\ WithPpr(p).mode = loc[p].mode
         /\ WithPpr(p).ppr[args[p].fan] = Bits(args[p].ppr)
         /\ \A f \in Fans : f # args[p].fan => WithPpr(p).ppr[f] = loc[p].ppr[f]
         /\ \A b \in BOOLEAN : /\ WithClear(p, b).clear = b
                              /\ WithClear(p, b).mode = loc[p].mode
                              /\ WithClear(p, b).ppr = loc[p].ppr
BY ArgFields DEF TypeOK, Config, WithMode, WithPpr, WithClear, Fans

-----------------------------------------------------------------------------

LEMMA InitInv == Init => IInv
<1> SUFFICES ASSUME Init PROVE IInv
  OBVIOUS
<1> USE DEF Init
<1>1. config \in Config /\ config.clear = FALSE
  <2> [f \in Fans |-> 1] \in [Fans -> 0..3]
    OBVIOUS
  <2> QED BY DEF Config
<1>2. pc \in [Procs -> Places]
  BY DEF Places
<1>3. TypeOK
  <2>1. loc \in [Procs -> Config]
    BY <1>1
  <2>2. fault \in [Fans -> 0..255]
    OBVIOUS
  <2>3. args \in [Procs -> Args \cup {NULL}] /\ exit \in [Procs -> {0, 1, 130, NULL}]
        /\ saw \in [Procs -> Registers \cup {NULL}]
    OBVIOUS
  <2>4. duty \in 0..15 /\ ptr \in Registers /\ crossed \subseteq Procs
    BY DEF Registers
  <2>5. raced \in BOOLEAN /\ stuck \in BOOLEAN
    OBVIOUS
  <2> HIDE DEF Init
  <2> QED BY <1>1, <1>2, <2>1, <2>2, <2>3, <2>4, <2>5 DEF TypeOK
<1>4. HistoryOK
  BY DEF HistoryOK, Options
<1>5. UnderWay /\ NotBegun /\ PointerOwn /\ SawOwn /\ CopyOwn /\ ZeroIsDone
  BY NullAssumption DEF UnderWay, NotBegun, PointerOwn, SawOwn, CopyOwn, ZeroIsDone, Changing
<1>6. Truthful
  BY DEF Truthful, Settings, FaultReg, PprField, Fans
<1>7. ClearReleased
  BY <1>1 DEF ClearReleased
<1> QED BY <1>3, <1>4, <1>5, <1>6, <1>7 DEF IInv


(* Going on to the next section keeps the account of what was done.        *)
LEMMA GoOnInv ==
  ASSUME IInv, NEW p \in Procs, args[p] \in Args, ~Refused(args[p]), exit[p] = NULL,
         pc[p][1] \in Options, GoOn(p), args' = args, saw' = saw,
         did' \in [Procs -> SUBSET Options], skipped' \in [Procs -> SUBSET {"mode", "ppr"}],
         \A q \in Procs : did[q] \cup skipped[q] \subseteq did'[q] \cup skipped'[q],
         pc[p][1] \in did'[p] \cup skipped'[p]
  PROVE  /\ pc' \in [Procs -> Places]
         /\ exit' = exit
         /\ \A q \in Procs : q # p => pc'[q] = pc[q]
         /\ pc'[p][2] \in {"ptr", "put"} /\ pc'[p] \notin Changing
         /\ UnderWay' /\ NotBegun' /\ ZeroIsDone'
<1> DEFINE n == After(args[p], pc[p][1])
<1>1. /\ n \in Places /\ n[1] \in Asked(args[p]) /\ n[1] \in Options \cup {"status"} /\ n[2] \in {"ptr", "put"}
      /\ n \notin Changing
      /\ Asked(args[p]) \cap Before(n[1]) \subseteq (Asked(args[p]) \cap Before(pc[p][1])) \cup {pc[p][1]}
  BY AfterNext
<1>2. pc' = [pc EXCEPT ![p] = n] /\ exit' = exit
  BY DEF GoOn, GoTo
<1>3. pc[p][1] \notin {"start", "end"} /\ pc \in [Procs -> Places]
  BY DEF Options, IInv, TypeOK
<1> HIDE DEF n
<1>4. pc' \in [Procs -> Places] /\ (\A q \in Procs : q # p => pc'[q] = pc[q]) /\ pc'[p] = n
  BY <1>1, <1>2, <1>3
<1>5. UnderWay'
  <2> SUFFICES ASSUME NEW q \in Procs, pc'[q][1] \notin {"start", "end"}
               PROVE  /\ args[q] \in Args /\ ~Refused(args[q]) /\ exit[q] = NULL
                      /\ pc'[q][1] \in Asked(args[q]) \cup {"rpm", "scale"}
                      /\ Asked(args[q]) \cap Before(pc'[q][1]) \subseteq did'[q] \cup skipped'[q]
    BY <1>2 DEF UnderWay
  <2>1. CASE q = p
    <3>1. Asked(args[p]) \cap Before(pc[p][1]) \subseteq did[p] \cup skipped[p]
      BY <1>3 DEF IInv, UnderWay
    <3> QED BY <2>1, <3>1, <1>1, <1>4
  <2>2. CASE q # p
    BY <2>2, <1>4 DEF IInv, UnderWay
  <2> QED BY <2>1, <2>2
<1>6. NotBegun'
  BY <1>1, <1>2, <1>4 DEF IInv, NotBegun, Options
<1>7. ZeroIsDone'
  BY <1>2 DEF IInv, ZeroIsDone
<1> QED BY <1>1, <1>2, <1>4, <1>5, <1>6, <1>7

(* The pointer, the speeds seen and the copies, when a run goes on or ends *)
(* and leaves the configuration alone.                                     *)
LEMMA OwnKept ==
  ASSUME IInv, NEW p \in Procs, args' = args, loc' = loc, config' = config, raced' = raced,
         \A q \in Procs : saw'[q] \in {saw[q], NULL} /\ (q # p => pc'[q] = pc[q]),
         pc'[p][2] # "get", pc'[p] \notin Changing,
         (ptr' = ptr /\ crossed' = crossed) \/ SetPtr(p, ptr')
  PROVE  PointerOwn' /\ SawOwn' /\ CopyOwn'
<1>1. /\ crossed \subseteq crossed'
      /\ ptr' = ptr \/ \A q \in Procs : q # p /\ pc[q] \in Reading => q \in crossed'
  BY DEF SetPtr, Others
<1>2. \A q \in Procs : pc[q][2] = "get" => pc[q] \in Reading
  BY PlaceCases DEF IInv, TypeOK
<1>3. PointerOwn'
  BY <1>1, <1>2 DEF IInv, PointerOwn
<1>4. SawOwn' /\ CopyOwn'
  BY <1>1 DEF IInv, SawOwn, CopyOwn
<1> QED BY <1>3, <1>4

(* The same when it writes the configuration.                              *)
LEMMA OwnStored ==
  ASSUME IInv, NEW p \in Procs, NEW c, StoreConfig(p, c), args' = args, saw' = saw,
         \A q \in Procs : q # p => pc'[q] = pc[q] /\ loc'[q] = loc[q],
         pc[p] \in Changing, pc'[p][2] # "get", pc'[p] \in Changing => loc'[p] = c
  PROVE  PointerOwn' /\ SawOwn' /\ CopyOwn'
<1>1. /\ crossed \subseteq crossed' /\ config' = c /\ raced' = (raced \/ loc[p] # config)
      /\ \A q \in Procs : q # p /\ pc[q] \in Reading \cup Changing => q \in crossed'
  BY DEF StoreConfig, Others
<1>2. \A q \in Procs : pc[q][2] = "get" => pc[q] \in Reading
  BY PlaceCases DEF IInv, TypeOK
<1>3. PointerOwn'
  BY <1>1, <1>2 DEF PointerOwn
<1>4. SawOwn'
  BY <1>1 DEF IInv, SawOwn
<1>5. raced' => crossed' # {}
  <2>1. raced \in BOOLEAN /\ (loc[p] # config => p \in crossed)
    BY DEF IInv, TypeOK, CopyOwn
  <2>2. raced => crossed # {}
    BY DEF IInv, CopyOwn
  <2> QED BY <1>1, <2>1, <2>2
<1>6. CopyOwn'
  BY <1>1, <1>5 DEF CopyOwn
<1> QED BY <1>3, <1>4, <1>6

(* A configuration that is written keeps what was reported, if it was     *)
(* made from the register as it is.                                        *)
LEMMA StoreKeeps ==
  ASSUME IInv, NEW p \in Procs, NEW c, StoreConfig(p, c),
         said'["duty"] \in {said["duty"], NULL},
         \A f \in Fans : said'[FaultReg(f)] \in {said[FaultReg(f)], NULL},
         \/ said'["mode"] \in {c.mode, NULL}
         \/ said'["mode"] = said["mode"] /\ c.mode = loc[p].mode,
         \A f \in Fans : \/ said'[PprField(f)] = NULL
                         \/ c.ppr[f] = Bits(said'[PprField(f)])
                         \/ said'[PprField(f)] = said[PprField(f)] /\ c.ppr[f] = loc[p].ppr[f]
  PROVE  Truthful'
<1>1. raced' = (raced \/ loc[p] # config) /\ config' = c /\ duty' = duty /\ fault' = fault
  BY DEF StoreConfig
<1>2. raced \in BOOLEAN
  BY DEF IInv, TypeOK
<1>3. ~raced' => ~raced /\ loc[p] = config
  BY <1>1, <1>2
<1>4. said'["duty"] # NULL => duty' = said'["duty"]
  BY <1>1 DEF IInv, Truthful
<1>5. (said'["mode"] # NULL /\ ~raced') => config'.mode = said'["mode"]
  BY <1>1, <1>3 DEF IInv, Truthful
<1>6. ASSUME NEW f \in Fans
      PROVE  (said'[FaultReg(f)] # NULL /\ said'[FaultReg(f)] < 12800)
                => fault'[f] = said'[FaultReg(f)] \div 50
  BY <1>1 DEF IInv, Truthful
<1>7. ASSUME NEW f \in Fans
      PROVE  (said'[PprField(f)] # NULL /\ ~raced') => config'.ppr[f] = Bits(said'[PprField(f)])
  BY <1>1, <1>3 DEF IInv, Truthful
<1> QED BY <1>4, <1>5, <1>6, <1>7 DEF Truthful

(* Writing a configuration with the clear bit of the copy.                 *)
LEMMA StoreKeepsClear ==
  ASSUME IInv, NEW p \in Procs, NEW c, StoreConfig(p, c), c.clear = loc[p].clear,
         stuck \/ pc[p] = <<"clear", "reset">> => stuck',
         \A q \in Procs : q # p => pc'[q] = pc[q]
  PROVE  ClearReleased'
<1>1. raced' = (raced \/ loc[p] # config) /\ config' = c
  BY DEF StoreConfig
<1>2. raced \in BOOLEAN
  BY DEF IInv, TypeOK
<1>3. ~raced' => ~raced /\ loc[p] = config
  BY <1>1, <1>2
<1> QED BY <1>1, <1>3 DEF IInv, ClearReleased

LEMMA StartInv ==
  ASSUME IInv, NEW p \in Procs, Start(p)
  PROVE  IInv'
<1> PICK a \in Args : /\ args' = [args EXCEPT ![p] = a]
                      /\ (~Refused(a) /\ GoTo(p, After(a, "start"))) \/ Exit(p, 1)
  BY DEF Start
<1> DEFINE n == After(a, "start")
<1>a. /\ n \in Places /\ n[1] \in Asked(a) /\ n[1] \in Options \cup {"status"} /\ n[2] \in {"ptr", "put"}
      /\ n \notin Changing
      /\ Asked(a) \cap Before(n[1]) \subseteq (Asked(a) \cap Before("start")) \cup {"start"}
  BY AfterNext
<1>b. Asked(a) \cap Before(n[1]) = {}
  BY <1>a DEF Asked, Before
<1>c. pc[p] = <<"start", "args">> /\ pc \in [Procs -> Places] /\ exit[p] = NULL /\ saw[p] = NULL
  BY DEF Start, IInv, NotBegun, TypeOK
<1>d. \/ ~Refused(a) /\ pc' = [pc EXCEPT ![p] = n] /\ exit' = exit
      \/ pc' = [pc EXCEPT ![p] = <<"end", "end">>] /\ exit' = [exit EXCEPT ![p] = 1]
  BY DEF GoTo, Exit
<1> HIDE DEF n
<1>e. UNCHANGED <<chip, saw, past, loc, did, skipped>>
  BY DEF Start
<1>f. pc' \in [Procs -> Places]
  BY <1>a, <1>c, <1>d DEF Places
<1>1. TypeOK' /\ HistoryOK'
  BY <1>d, <1>e, <1>f DEF IInv, TypeOK, HistoryOK, chip, past
<1>2. UnderWay' /\ NotBegun'
  <2> SUFFICES ASSUME NEW q \in Procs PROVE UnderWay!(q)' /\ NotBegun!(q)'
    BY DEF UnderWay, NotBegun
  <2>1. CASE q = p
    BY <2>1, <1>a, <1>b, <1>c, <1>d, <1>e DEF IInv, TypeOK, Options
  <2>2. CASE q # p
    BY <2>2, <1>c, <1>d, <1>e DEF IInv, TypeOK, UnderWay, NotBegun
  <2> QED BY <2>1, <2>2
<1>3. PointerOwn' /\ SawOwn' /\ CopyOwn'
  <2>1. /\ pc'[p][2] # "get" /\ pc'[p] \notin Changing
        /\ \A q \in Procs : q # p => pc'[q] = pc[q] /\ args'[q] = args[q]
    BY <1>a, <1>c, <1>d DEF IInv, TypeOK, Changing
  <2>2. UNCHANGED <<config, ptr, crossed, saw, raced, loc>> /\ saw'[p] = NULL
    BY <1>c, <1>e DEF chip, past
  <2>3. PointerOwn'
    BY <2>1, <2>2 DEF IInv, PointerOwn
  <2>4. SawOwn'
    BY <2>1, <2>2 DEF IInv, SawOwn
  <2>5. CopyOwn'
    BY <2>1, <2>2 DEF IInv, CopyOwn
  <2> QED BY <2>3, <2>4, <2>5
<1>4. ZeroIsDone'
  BY <1>c, <1>d, <1>e, NullAssumption DEF IInv, TypeOK, ZeroIsDone
<1>5. Truthful'
  BY <1>e DEF IInv, Truthful, chip, past
<1>6. ClearReleased'
  BY <1>c, <1>d, <1>e DEF IInv, TypeOK, ClearReleased, chip, past
<1> QED BY <1>1, <1>2, <1>3, <1>4, <1>5, <1>6 DEF IInv

LEMMA PointInv ==
  ASSUME IInv, NEW p \in Procs, Point(p)
  PROVE  IInv'
<1>a. pc[p] \in Places /\ args[p] \in Args /\ pc[p][1] \notin {"start", "end"}
  BY PlaceCases DEF IInv, TypeOK, UnderWay, Point
<1>b. /\ pc' = [pc EXCEPT ![p] = <<pc[p][1], "get">>] /\ ptr' = RegisterOf(pc[p][1], args[p])
      /\ crossed' = crossed \cup Others(p, Reading)
      /\ UNCHANGED <<config, duty, fault, exit, args, did, skipped, saw, said, raced, stuck, loc>>
  BY DEF Point, GoTo, SetPtr, past
<1>c. pc' \in [Procs -> Places] /\ pc[p][2] = "ptr"
  BY <1>b, PlaceCases DEF IInv, TypeOK, Point
<1>1. TypeOK' /\ HistoryOK'
  <2>1. ptr' \in Registers
    BY <1>b DEF RegisterOf, RpmReg, Registers
  <2>2. crossed' \subseteq Procs
    BY <1>b DEF IInv, TypeOK, Others
  <2> QED BY <1>b, <1>c, <2>1, <2>2 DEF IInv, TypeOK, HistoryOK
<1>2. UnderWay' /\ NotBegun'
  BY <1>a, <1>b DEF IInv, TypeOK, UnderWay, NotBegun
<1>3. PointerOwn' /\ SawOwn' /\ CopyOwn'
  <2>1. /\ crossed \subseteq crossed'
        /\ \A q \in Procs : q # p /\ pc[q] \in Reading => q \in crossed'
    BY <1>b DEF Others
  <2>2. /\ pc'[p] = <<pc[p][1], "get">> /\ pc'[p] \notin Changing
        /\ \A q \in Procs : q # p => pc'[q] = pc[q] /\ (pc[q][2] = "get" => pc[q] \in Reading)
    BY <1>b, PlaceCases DEF IInv, TypeOK, Changing
  <2>3. PointerOwn'
    BY <1>b, <2>1, <2>2 DEF PointerOwn
  <2>4. SawOwn'
    BY <1>b, <2>1 DEF IInv, SawOwn
  <2>5. CopyOwn'
    BY <1>b, <2>1, <2>2 DEF IInv, CopyOwn
  <2> QED BY <2>3, <2>4, <2>5
<1>4. ZeroIsDone'
  BY <1>b DEF IInv, ZeroIsDone
<1>5. Truthful'
  BY <1>b DEF IInv, Truthful
<1>6. ClearReleased'
  BY <1>b, <1>c DEF IInv, TypeOK, ClearReleased
<1> QED BY <1>1, <1>2, <1>3, <1>4, <1>5, <1>6 DEF IInv

LEMMA PointFailsInv ==
  ASSUME IInv, NEW p \in Procs, PointFails(p)
  PROVE  IInv'
<1>a. pc[p] \in Places /\ args[p] \in Args /\ ~Refused(args[p]) /\ exit[p] = NULL
      /\ pc[p][1] \in Asked(args[p]) \cup {"rpm", "scale"}
  BY PlaceCases DEF IInv, TypeOK, UnderWay, PointFails
<1>b. /\ UNCHANGED <<config, duty, fault, args, did, past>>
      /\ ReadFailed(p)
      /\ (ptr' = ptr /\ crossed' = crossed) \/ SetPtr(p, RegisterOf(pc[p][1], args[p]))
      /\ pc[p][2] \in {"ptr", "get"}
  BY DEF PointFails, SetPtr, chip
<1>c. ptr' \in Registers /\ crossed' \subseteq Procs /\ ((ptr' = ptr /\ crossed' = crossed) \/ SetPtr(p, ptr'))
  BY <1>b DEF IInv, TypeOK, Registers, RegisterOf, RpmReg, SetPtr, Others
<1>d. Truthful'
  BY <1>b DEF IInv, Truthful, past
<1>e. pc[p] # <<"clear", "reset">> /\ pc[p][1] \notin {"start", "end"} /\ pc \in [Procs -> Places]
  BY <1>a, <1>b, PlaceCases, ZenonT(30) DEF IInv, TypeOK
<1>1. CASE pc[p][1] \in {"mode", "ppr"}
  <2>1. /\ GoOn(p) /\ UNCHANGED <<loc, saw>>
        /\ skipped' = [skipped EXCEPT ![p] = @ \cup {pc[p][1]}]
    BY <1>1, <1>b DEF ReadFailed, ReadConfigFailed, ReadStatusFailed, ReadScaleFailed
  <2>2. HistoryOK'
    BY <1>1, <1>b, <2>1 DEF IInv, HistoryOK, past
  <2>3. pc[p][1] \in did'[p] \cup skipped'[p] /\ \A q \in Procs : did[q] \cup skipped[q] \subseteq did'[q] \cup skipped'[q]
    BY <1>b, <2>1 DEF IInv, HistoryOK
  <2>4. /\ pc' \in [Procs -> Places] /\ exit' = exit
        /\ \A q \in Procs : q # p => pc'[q] = pc[q]
        /\ pc'[p][2] \in {"ptr", "put"} /\ pc'[p] \notin Changing
        /\ UnderWay' /\ NotBegun' /\ ZeroIsDone'
    <3>1. pc[p][1] \in Options
      BY <1>1 DEF Options
    <3> QED BY <1>a, <1>b, <2>1, <2>2, <2>3, <3>1, GoOnInv DEF HistoryOK
  <2>5. TypeOK'
    BY <1>b, <1>c, <2>1, <2>4 DEF IInv, TypeOK, past
  <2>6. PointerOwn' /\ SawOwn' /\ CopyOwn'
    BY <1>b, <1>c, <2>1, <2>4, OwnKept DEF past
  <2>7. ClearReleased'
    BY <1>b, <1>e, <2>4 DEF IInv, ClearReleased, past
  <2> QED BY <1>d, <2>2, <2>4, <2>5, <2>6, <2>7 DEF IInv
<1>2. CASE pc[p][1] \notin {"mode", "ppr"}
  <2>1. \E code \in {0, 1} :
          /\ Exit(p, code)
          /\ code = 0 => pc[p][1] \in {"status", "rpm", "scale"}
    BY <1>2, <1>b DEF ReadFailed, ReadConfigFailed, ReadStatusFailed, ReadScaleFailed
  <2> PICK code \in {0, 1} : /\ Exit(p, code)
                             /\ code = 0 => pc[p][1] \in {"status", "rpm", "scale"}
    BY <2>1
  <2>2. UNCHANGED <<loc, skipped>> /\ (saw' = saw \/ saw' = [saw EXCEPT ![p] = NULL])
    BY <1>2, <1>b DEF ReadFailed, ReadConfigFailed, ReadStatusFailed, ReadScaleFailed
  <2>3. pc' = [pc EXCEPT ![p] = <<"end", "end">>] /\ exit' = [exit EXCEPT ![p] = code]
    BY DEF Exit
  <2>4. pc' \in [Procs -> Places]
    BY <1>e, <2>3 DEF Places
  <2>5. TypeOK' /\ HistoryOK'
    BY <1>b, <1>c, <2>2, <2>3, <2>4 DEF IInv, TypeOK, HistoryOK, past
  <2>6. UnderWay' /\ NotBegun'
    BY <1>b, <1>e, <2>2, <2>3 DEF IInv, TypeOK, UnderWay, NotBegun
  <2>7. PointerOwn' /\ SawOwn' /\ CopyOwn'
    <3>1. /\ pc'[p][2] # "get" /\ pc'[p] \notin Changing
          /\ \A q \in Procs : saw'[q] \in {saw[q], NULL} /\ (q # p => pc'[q] = pc[q])
      BY <1>e, <2>2, <2>3 DEF IInv, TypeOK, Changing
    <3> QED BY <1>b, <1>c, <2>2, <3>1, OwnKept DEF past
  <2>8. ZeroIsDone'
    <3>1. code = 0 => Asked(args[p]) \ {"status"} \subseteq did[p] \cup skipped[p]
      BY <1>e DEF IInv, UnderWay, Before, Asked, Options
    <3> QED BY <1>b, <2>2, <2>3, <3>1 DEF IInv, TypeOK, ZeroIsDone
  <2>9. ClearReleased'
    BY <1>b, <1>e, <2>3 DEF IInv, ClearReleased, past
  <2> QED BY <1>d, <2>5, <2>6, <2>7, <2>8, <2>9 DEF IInv
<1> QED BY <1>1, <1>2

LEMMA GetFailsInv ==
  ASSUME IInv, NEW p \in Procs, GetFails(p)
  PROVE  IInv'
<1>a. pc[p] \in Places /\ args[p] \in Args /\ ~Refused(args[p]) /\ exit[p] = NULL
      /\ pc[p][1] \in Asked(args[p]) \cup {"rpm", "scale"}
  BY PlaceCases DEF IInv, TypeOK, UnderWay, GetFails
<1>b. /\ UNCHANGED <<config, duty, fault, args, did, past>>
      /\ ReadFailed(p)
      /\ (ptr' = ptr /\ crossed' = crossed) \/ SetPtr(p, RegisterOf(pc[p][1], args[p]))
      /\ pc[p][2] \in {"ptr", "get"}
  BY DEF GetFails, chip
<1>c. ptr' \in Registers /\ crossed' \subseteq Procs /\ ((ptr' = ptr /\ crossed' = crossed) \/ SetPtr(p, ptr'))
  BY <1>b DEF IInv, TypeOK, Registers, RegisterOf, RpmReg, SetPtr, Others
<1>d. Truthful'
  BY <1>b DEF IInv, Truthful, past
<1>e. pc[p] # <<"clear", "reset">> /\ pc[p][1] \notin {"start", "end"} /\ pc \in [Procs -> Places]
  BY <1>a, <1>b, PlaceCases, ZenonT(30) DEF IInv, TypeOK
<1>1. CASE pc[p][1] \in {"mode", "ppr"}
  <2>1. /\ GoOn(p) /\ UNCHANGED <<loc, saw>>
        /\ skipped' = [skipped EXCEPT ![p] = @ \cup {pc[p][1]}]
    BY <1>1, <1>b DEF ReadFailed, ReadConfigFailed, ReadStatusFailed, ReadScaleFailed
  <2>2. HistoryOK'
    BY <1>1, <1>b, <2>1 DEF IInv, HistoryOK, past
  <2>3. pc[p][1] \in did'[p] \cup skipped'[p] /\ \A q \in Procs : did[q] \cup skipped[q] \subseteq did'[q] \cup skipped'[q]
    BY <1>b, <2>1 DEF IInv, HistoryOK
  <2>4. /\ pc' \in [Procs -> Places] /\ exit' = exit
        /\ \A q \in Procs : q # p => pc'[q] = pc[q]
        /\ pc'[p][2] \in {"ptr", "put"} /\ pc'[p] \notin Changing
        /\ UnderWay' /\ NotBegun' /\ ZeroIsDone'
    <3>1. pc[p][1] \in Options
      BY <1>1 DEF Options
    <3> QED BY <1>a, <1>b, <2>1, <2>2, <2>3, <3>1, GoOnInv DEF HistoryOK
  <2>5. TypeOK'
    BY <1>b, <1>c, <2>1, <2>4 DEF IInv, TypeOK, past
  <2>6. PointerOwn' /\ SawOwn' /\ CopyOwn'
    BY <1>b, <1>c, <2>1, <2>4, OwnKept DEF past
  <2>7. ClearReleased'
    BY <1>b, <1>e, <2>4 DEF IInv, ClearReleased, past
  <2> QED BY <1>d, <2>2, <2>4, <2>5, <2>6, <2>7 DEF IInv
<1>2. CASE pc[p][1] \notin {"mode", "ppr"}
  <2>1. \E code \in {0, 1} :
          /\ Exit(p, code)
          /\ code = 0 => pc[p][1] \in {"status", "rpm", "scale"}
    BY <1>2, <1>b DEF ReadFailed, ReadConfigFailed, ReadStatusFailed, ReadScaleFailed
  <2> PICK code \in {0, 1} : /\ Exit(p, code)
                             /\ code = 0 => pc[p][1] \in {"status", "rpm", "scale"}
    BY <2>1
  <2>2. UNCHANGED <<loc, skipped>> /\ (saw' = saw \/ saw' = [saw EXCEPT ![p] = NULL])
    BY <1>2, <1>b DEF ReadFailed, ReadConfigFailed, ReadStatusFailed, ReadScaleFailed
  <2>3. pc' = [pc EXCEPT ![p] = <<"end", "end">>] /\ exit' = [exit EXCEPT ![p] = code]
    BY DEF Exit
  <2>4. pc' \in [Procs -> Places]
    BY <1>e, <2>3 DEF Places
  <2>5. TypeOK' /\ HistoryOK'
    BY <1>b, <1>c, <2>2, <2>3, <2>4 DEF IInv, TypeOK, HistoryOK, past
  <2>6. UnderWay' /\ NotBegun'
    BY <1>b, <1>e, <2>2, <2>3 DEF IInv, TypeOK, UnderWay, NotBegun
  <2>7. PointerOwn' /\ SawOwn' /\ CopyOwn'
    <3>1. /\ pc'[p][2] # "get" /\ pc'[p] \notin Changing
          /\ \A q \in Procs : saw'[q] \in {saw[q], NULL} /\ (q # p => pc'[q] = pc[q])
      BY <1>e, <2>2, <2>3 DEF IInv, TypeOK, Changing
    <3> QED BY <1>b, <1>c, <2>2, <3>1, OwnKept DEF past
  <2>8. ZeroIsDone'
    <3>1. code = 0 => Asked(args[p]) \ {"status"} \subseteq did[p] \cup skipped[p]
      BY <1>e DEF IInv, UnderWay, Before, Asked, Options
    <3> QED BY <1>b, <2>2, <2>3, <3>1 DEF IInv, TypeOK, ZeroIsDone
  <2>9. ClearReleased'
    BY <1>b, <1>e, <2>3 DEF IInv, ClearReleased, past
  <2> QED BY <1>d, <2>5, <2>6, <2>7, <2>8, <2>9 DEF IInv
<1> QED BY <1>1, <1>2

LEMMA GetConfigInv ==
  ASSUME IInv, NEW p \in Procs, GetConfig(p)
  PROVE  IInv'
<1>a. pc[p] \in Places /\ args[p] \in Args /\ pc[p][1] \notin {"start", "end"}
  BY PlaceCases DEF IInv, TypeOK, UnderWay, GetConfig
<1>b. /\ pc' = [pc EXCEPT ![p] = <<pc[p][1], "put">>]
      /\ UNCHANGED <<config, duty, fault, ptr, crossed, exit, args, did, skipped, saw, said, raced, stuck>>
  BY DEF GetConfig, GoTo, chip, past
<1>c. pc' \in [Procs -> Places] /\ pc[p][2] = "get"
  BY <1>a, <1>b, PlaceCases DEF IInv, TypeOK, Places, GetConfig
<1>d. loc' \in [Procs -> Config]
  BY StrayAssumption DEF IInv, TypeOK, GetConfig, Byte
<1>1. TypeOK' /\ HistoryOK'
  BY <1>b, <1>c, <1>d DEF IInv, TypeOK, HistoryOK
<1>2. UnderWay' /\ NotBegun'
  BY <1>a, <1>b DEF IInv, TypeOK, UnderWay, NotBegun
<1>3. PointerOwn' /\ SawOwn' /\ CopyOwn'
  <2>1. pc'[p][2] # "get" /\ \A q \in Procs : q # p => pc'[q] = pc[q] /\ loc'[q] = loc[q]
    BY <1>b DEF IInv, TypeOK, GetConfig
  <2>2. p \notin crossed => loc'[p] = config
    <3>1. p \notin crossed => ptr = "config"
      BY <1>c DEF IInv, PointerOwn, RegisterOf, GetConfig
    <3> QED BY <3>1 DEF IInv, TypeOK, GetConfig, Byte
  <2>3. PointerOwn' /\ SawOwn'
    BY <1>b, <2>1 DEF IInv, PointerOwn, SawOwn
  <2>4. CopyOwn'
    BY <1>b, <2>1, <2>2 DEF IInv, CopyOwn
  <2> QED BY <2>3, <2>4
<1>4. ZeroIsDone'
  BY <1>b DEF IInv, ZeroIsDone
<1>5. Truthful'
  BY <1>b DEF IInv, Truthful
<1>6. ClearReleased'
  BY <1>b, <1>c DEF IInv, TypeOK, ClearReleased
<1> QED BY <1>1, <1>2, <1>3, <1>4, <1>5, <1>6 DEF IInv

LEMMA GetStatusInv ==
  ASSUME IInv, NEW p \in Procs, GetStatus(p)
  PROVE  IInv'
<1>a. pc[p] \in Places /\ args[p] \in Args /\ pc[p][1] \notin {"start", "end"}
  BY PlaceCases DEF IInv, TypeOK, UnderWay, GetStatus
<1>b. /\ pc' = [pc EXCEPT ![p] = <<"rpm", "ptr">>]
      /\ UNCHANGED <<config, duty, fault, ptr, crossed, exit, args, did, skipped, saw, said, raced, stuck, loc>>
  BY DEF GetStatus, GoTo, chip, past
<1>c. pc' \in [Procs -> Places] /\ pc[p][2] = "get"
  BY <1>a, <1>b, PlaceCases DEF IInv, TypeOK, Places, GetStatus
<1>1. TypeOK' /\ HistoryOK'
  BY <1>b, <1>c DEF IInv, TypeOK, HistoryOK
<1>2. UnderWay' /\ NotBegun'
  <2>1. pc[p][1] = "status" /\ pc'[p][1] = "rpm"
    BY <1>b, <1>c DEF IInv, TypeOK, GetStatus
  <2>2. Before(pc'[p][1]) = Before(pc[p][1])
    BY <2>1 DEF Before
  <2> QED BY <1>a, <1>b, <2>1, <2>2 DEF IInv, TypeOK, UnderWay, NotBegun
<1>3. PointerOwn' /\ SawOwn' /\ CopyOwn'
  <2>1. /\ pc'[p][2] # "get" /\ pc'[p] \notin Changing
        /\ \A q \in Procs : saw'[q] \in {saw[q], NULL} /\ (q # p => pc'[q] = pc[q])
    BY <1>b, <1>c DEF IInv, TypeOK, Changing
  <2> QED BY <1>b, <2>1, OwnKept
<1>4. ZeroIsDone'
  BY <1>b DEF IInv, ZeroIsDone
<1>5. Truthful'
  BY <1>b DEF IInv, Truthful
<1>6. ClearReleased'
  BY <1>b, <1>c DEF IInv, TypeOK, ClearReleased
<1> QED BY <1>1, <1>2, <1>3, <1>4, <1>5, <1>6 DEF IInv

LEMMA GetRpmInv ==
  ASSUME IInv, NEW p \in Procs, GetRpm(p)
  PROVE  IInv'
<1>a. pc[p] \in Places /\ args[p] \in Args /\ pc[p][1] \notin {"start", "end"}
  BY PlaceCases DEF IInv, TypeOK, UnderWay, GetRpm
<1>b. /\ pc' = [pc EXCEPT ![p] = <<"scale", "ptr">>]
      /\ UNCHANGED <<config, duty, fault, ptr, crossed, exit, args, did, skipped, said, raced, stuck, loc>>
  BY DEF GetRpm, GoTo, chip, past
<1>c. pc' \in [Procs -> Places] /\ pc[p][2] = "get"
  BY <1>a, <1>b, PlaceCases DEF IInv, TypeOK, Places, GetRpm
<1>d. /\ saw' = [saw EXCEPT ![p] = ptr]
      /\ p \notin crossed => ptr = RpmReg(args[p].fan)
  BY <1>a DEF IInv, PointerOwn, RegisterOf, GetRpm
<1>1. TypeOK' /\ HistoryOK'
  BY <1>b, <1>c, <1>a, <1>d DEF IInv, TypeOK, HistoryOK
<1>2. UnderWay' /\ NotBegun'
  <2>1. pc[p][1] = "rpm" /\ pc'[p][1] = "scale"
    BY <1>b, <1>c DEF IInv, TypeOK, GetRpm
  <2>2. Before(pc'[p][1]) = Before(pc[p][1])
    BY <2>1 DEF Before
  <2> QED BY <1>a, <1>b, <1>d, <2>1, <2>2 DEF IInv, TypeOK, UnderWay, NotBegun
<1>3. PointerOwn' /\ SawOwn' /\ CopyOwn'
  <2>1. /\ pc'[p][2] # "get" /\ pc'[p] \notin Changing /\ saw'[p] = ptr
        /\ \A q \in Procs : q # p => pc'[q] = pc[q] /\ saw'[q] = saw[q]
    BY <1>b, <1>d DEF IInv, TypeOK, Changing
  <2>2. PointerOwn' /\ CopyOwn'
    BY <1>b, <2>1 DEF IInv, PointerOwn, CopyOwn
  <2>3. SawOwn'
    BY <1>a, <1>b, <1>d, <2>1 DEF IInv, SawOwn
  <2> QED BY <2>2, <2>3
<1>4. ZeroIsDone'
  BY <1>b DEF IInv, ZeroIsDone
<1>5. Truthful'
  BY <1>b DEF IInv, Truthful
<1>6. ClearReleased'
  BY <1>b, <1>c DEF IInv, TypeOK, ClearReleased
<1> QED BY <1>1, <1>2, <1>3, <1>4, <1>5, <1>6 DEF IInv

LEMMA GetScaleInv ==
  ASSUME IInv, NEW p \in Procs, GetScale(p)
  PROVE  IInv'
<1>a. pc[p] \in Places /\ args[p] \in Args /\ pc[p][1] \notin {"start", "end"}
  BY PlaceCases DEF IInv, TypeOK, UnderWay, GetScale
<1>b. /\ pc' = [pc EXCEPT ![p] = <<"end", "end">>] /\ exit' = [exit EXCEPT ![p] = 0] /\ pc[p] = <<"scale", "get">>
      /\ UNCHANGED <<config, duty, fault, ptr, crossed, args, did, skipped, saw, said, raced, stuck, loc>>
  BY DEF GetScale, Exit, chip, past
<1>c. pc' \in [Procs -> Places]
  BY <1>b DEF IInv, TypeOK, Places
<1>1. TypeOK' /\ HistoryOK'
  BY <1>b, <1>c DEF IInv, TypeOK, HistoryOK
<1>2. UnderWay' /\ NotBegun'
  BY <1>a, <1>b DEF IInv, TypeOK, UnderWay, NotBegun
<1>3. PointerOwn' /\ SawOwn' /\ CopyOwn'
  <2>1. /\ pc'[p][2] # "get" /\ pc'[p] \notin Changing
        /\ \A q \in Procs : saw'[q] \in {saw[q], NULL} /\ (q # p => pc'[q] = pc[q])
    BY <1>b, <1>c DEF IInv, TypeOK, Changing
  <2> QED BY <1>b, <2>1, OwnKept
<1>4. ZeroIsDone'
  <2>1. Asked(args[p]) \ {"status"} \subseteq did[p] \cup skipped[p]
    BY <1>b DEF IInv, UnderWay, Before, Asked, Options
  <2> QED BY <1>b, <2>1 DEF IInv, TypeOK, ZeroIsDone
<1>5. Truthful'
  BY <1>b DEF IInv, Truthful
<1>6. ClearReleased'
  BY <1>b DEF IInv, TypeOK, ClearReleased
<1> QED BY <1>1, <1>2, <1>3, <1>4, <1>5, <1>6 DEF IInv

LEMMA PutModeInv ==
  ASSUME IInv, NEW p \in Procs, PutMode(p)
  PROVE  IInv'
<1>a. pc[p] \in Places /\ args[p] \in Args /\ ~Refused(args[p]) /\ exit[p] = NULL
      /\ pc[p][1] \in Asked(args[p]) \cup {"rpm", "scale"}
  BY PlaceCases DEF IInv, TypeOK, UnderWay, PutMode
<1>b. /\ GoOn(p) /\ UNCHANGED <<args, skipped, saw, stuck, loc>>
      /\ did' = [did EXCEPT ![p] = @ \cup {"mode"}]
      /\ pc[p] = <<"mode", "put">> /\ pc[p][1] = "mode"
  BY DEF PutMode, Report
<1>said. said' = [said EXCEPT !["mode"] = args[p].mode]
  BY DEF PutMode, Report
<1>reg. /\ config' \in Config /\ ptr' \in Registers /\ crossed' \subseteq Procs
        /\ duty' = duty /\ fault' = fault /\ raced' \in BOOLEAN
  BY <1>a, <1>b, WithType, ArgFields DEF IInv, PutMode, StoreConfig, Others, Registers, TypeOK, Asked
<1>1. HistoryOK'
  BY <1>b, <1>said DEF IInv, HistoryOK, Options
<1>2. /\ pc' \in [Procs -> Places] /\ exit' = exit
      /\ \A q \in Procs : q # p => pc'[q] = pc[q]
      /\ pc'[p][2] \in {"ptr", "put"} /\ pc'[p] \notin Changing
      /\ UnderWay' /\ NotBegun' /\ ZeroIsDone'
  <2>1. pc[p][1] \in Options
    BY <1>b DEF Options
  <2>2. pc[p][1] \in did'[p] \cup skipped'[p] /\ \A q \in Procs : did[q] \cup skipped[q] \subseteq did'[q] \cup skipped'[q]
    BY <1>b DEF IInv, HistoryOK
  <2> QED BY <1>a, <1>b, <1>1, <2>1, <2>2, GoOnInv DEF HistoryOK
<1>3. TypeOK'
  BY <1>b, <1>2, <1>reg DEF IInv, TypeOK
<1>4. PointerOwn' /\ SawOwn' /\ CopyOwn'
  <2>1. StoreConfig(p, WithMode(p)) /\ pc[p] \in Changing
    BY <1>b DEF PutMode, Changing
  <2> QED BY <1>b, <1>2, <2>1, OwnStored
<1>5. Truthful'
  <2>1. StoreConfig(p, WithMode(p))
    BY DEF PutMode
  <2>2. \A s \in Settings \ {"mode"} : said'[s] = said[s]
    BY <1>said DEF IInv, HistoryOK
  <2>3. said'["mode"] = WithMode(p).mode
    BY <1>a, <1>said, WithFields DEF IInv, HistoryOK, Settings
  <2>4. \A f \in Fans : /\ PprField(f) \in Settings \ {"mode"} /\ FaultReg(f) \in Settings \ {"mode"}
                        /\ WithMode(p).ppr[f] = loc[p].ppr[f]
    BY <1>a, WithFields DEF IInv, PprField, FaultReg, Settings
  <2>5. "duty" \in Settings \ {"mode"}
    BY DEF Settings
  <2> QED BY <2>1, <2>2, <2>3, <2>4, <2>5, StoreKeeps
<1>6. ClearReleased'
  <2>1. StoreConfig(p, WithMode(p)) /\ WithMode(p).clear = loc[p].clear
    BY <1>a, <1>b, WithFields DEF IInv, PutMode
  <2>2. pc[p] # <<"clear", "reset">>
    BY <1>b
  <2> QED BY <1>b, <1>2, <2>1, <2>2, StoreKeepsClear
<1> QED BY <1>1, <1>2, <1>3, <1>4, <1>5, <1>6 DEF IInv

LEMMA PutPprInv ==
  ASSUME IInv, NEW p \in Procs, PutPpr(p)
  PROVE  IInv'
<1>a. pc[p] \in Places /\ args[p] \in Args /\ ~Refused(args[p]) /\ exit[p] = NULL
      /\ pc[p][1] \in Asked(args[p]) \cup {"rpm", "scale"}
  BY PlaceCases DEF IInv, TypeOK, UnderWay, PutPpr
<1>b. /\ GoOn(p) /\ UNCHANGED <<args, skipped, saw, stuck, loc>>
      /\ did' = [did EXCEPT ![p] = @ \cup {"ppr"}]
      /\ pc[p] = <<"ppr", "put">> /\ pc[p][1] = "ppr"
  BY DEF PutPpr, Report
<1>said. said' = [said EXCEPT ![PprField(args[p].fan)] = args[p].ppr]
  BY DEF PutPpr, Report
<1>reg. /\ config' \in Config /\ ptr' \in Registers /\ crossed' \subseteq Procs
        /\ duty' = duty /\ fault' = fault /\ raced' \in BOOLEAN
  BY <1>a, <1>b, WithType, ArgFields DEF IInv, PutPpr, StoreConfig, Others, Registers, TypeOK, Asked
<1>1. HistoryOK'
  BY <1>b, <1>said DEF IInv, HistoryOK, Options
<1>2. /\ pc' \in [Procs -> Places] /\ exit' = exit
      /\ \A q \in Procs : q # p => pc'[q] = pc[q]
      /\ pc'[p][2] \in {"ptr", "put"} /\ pc'[p] \notin Changing
      /\ UnderWay' /\ NotBegun' /\ ZeroIsDone'
  <2>1. pc[p][1] \in Options
    BY <1>b DEF Options
  <2>2. pc[p][1] \in did'[p] \cup skipped'[p] /\ \A q \in Procs : did[q] \cup skipped[q] \subseteq did'[q] \cup skipped'[q]
    BY <1>b DEF IInv, HistoryOK
  <2> QED BY <1>a, <1>b, <1>1, <2>1, <2>2, GoOnInv DEF HistoryOK
<1>3. TypeOK'
  BY <1>b, <1>2, <1>reg DEF IInv, TypeOK
<1>4. PointerOwn' /\ SawOwn' /\ CopyOwn'
  <2>1. StoreConfig(p, WithPpr(p)) /\ pc[p] \in Changing
    BY <1>b DEF PutPpr, Changing
  <2> QED BY <1>b, <1>2, <2>1, OwnStored
<1>5. Truthful'
  <2> DEFINE S == {PprField(args[p].fan)}
  <2>1. StoreConfig(p, WithPpr(p))
    BY DEF PutPpr
  <2>2. \A s \in Settings \ S : said'[s] = said[s]
    BY <1>said DEF IInv, HistoryOK
  <2>3. args[p].fan \in Fans
    BY <1>a, ArgFields
  <2>4. /\ S \in SUBSET Settings /\ "mode" \in Settings \ S /\ "duty" \in Settings \ S
        /\ \A f \in Fans : FaultReg(f) \in Settings \ S /\ (f # args[p].fan => PprField(f) \in Settings \ S)
    BY <2>3 DEF Settings, PprField, FaultReg, Fans
  <2>5. WithPpr(p).mode = loc[p].mode
    BY <1>a, WithFields DEF IInv
  <2>6. \A f \in Fans : f # args[p].fan => WithPpr(p).ppr[f] = loc[p].ppr[f]
    BY <1>a, WithFields DEF IInv
  <2>7. said'[PprField(args[p].fan)] = args[p].ppr
    BY <1>said, <2>4 DEF IInv, HistoryOK
  <2>8. WithPpr(p).ppr[args[p].fan] = Bits(args[p].ppr)
    BY <1>a, WithFields DEF IInv
  <2> HIDE DEF S
  <2>9. \A f \in Fans : \/ WithPpr(p).ppr[f] = Bits(said'[PprField(f)])
                        \/ said'[PprField(f)] = said[PprField(f)] /\ WithPpr(p).ppr[f] = loc[p].ppr[f]
    <3> SUFFICES ASSUME NEW f \in Fans
                 PROVE  \/ WithPpr(p).ppr[f] = Bits(said'[PprField(f)])
                        \/ said'[PprField(f)] = said[PprField(f)] /\ WithPpr(p).ppr[f] = loc[p].ppr[f]
      OBVIOUS
    <3>1. CASE f = args[p].fan
      BY <3>1, <2>7, <2>8
    <3>2. CASE f # args[p].fan
      BY <3>2, <2>2, <2>4, <2>6
    <3> QED BY <3>1, <3>2
  <2> QED BY <2>1, <2>2, <2>4, <2>5, <2>9, StoreKeeps
<1>6. ClearReleased'
  <2>1. StoreConfig(p, WithPpr(p)) /\ WithPpr(p).clear = loc[p].clear
    BY <1>a, <1>b, WithFields DEF IInv, PutPpr
  <2>2. pc[p] # <<"clear", "reset">>
    BY <1>b
  <2> QED BY <1>b, <1>2, <2>1, <2>2, StoreKeepsClear
<1> QED BY <1>1, <1>2, <1>3, <1>4, <1>5, <1>6 DEF IInv

LEMMA PutSpeedInv ==
  ASSUME IInv, NEW p \in Procs, PutSpeed(p)
  PROVE  IInv'
<1>a. pc[p] \in Places /\ args[p] \in Args /\ ~Refused(args[p]) /\ exit[p] = NULL
      /\ pc[p][1] \in Asked(args[p]) \cup {"rpm", "scale"}
  BY PlaceCases DEF IInv, TypeOK, UnderWay, PutSpeed
<1>b. /\ GoOn(p) /\ UNCHANGED <<config, fault, args, skipped, saw, raced, stuck, loc>>
      /\ did' = [did EXCEPT ![p] = @ \cup {"speed"}]
      /\ pc[p] = <<"speed", "put">> /\ pc[p][1] = "speed"
  BY DEF PutSpeed, Report
<1>said. said' = [said EXCEPT !["duty"] = Dutycycle(args[p].speed)]
  BY DEF PutSpeed, Report
<1>reg. /\ duty' = Dutycycle(args[p].speed) /\ duty' \in 0..15 /\ ptr' \in Registers
        /\ crossed' \subseteq Procs /\ SetPtr(p, ptr')
  <2>1. args[p].speed # NULL /\ args[p].speed \in Nat
    BY <1>a, <1>b, ArgFields DEF Asked
  <2>2. Dutycycle(args[p].speed) \in 0..15
    BY <1>a, <2>1 DEF Refused, Dutycycle
  <2> QED BY <2>2 DEF IInv, TypeOK, PutSpeed, SetPtr, Others, Registers
<1>1. HistoryOK'
  BY <1>b, <1>said DEF IInv, HistoryOK, Options
<1>2. /\ pc' \in [Procs -> Places] /\ exit' = exit
      /\ \A q \in Procs : q # p => pc'[q] = pc[q]
      /\ pc'[p][2] \in {"ptr", "put"} /\ pc'[p] \notin Changing
      /\ UnderWay' /\ NotBegun' /\ ZeroIsDone'
  <2>1. pc[p][1] \in Options
    BY <1>b DEF Options
  <2>2. pc[p][1] \in did'[p] \cup skipped'[p] /\ \A q \in Procs : did[q] \cup skipped[q] \subseteq did'[q] \cup skipped'[q]
    BY <1>b DEF IInv, HistoryOK
  <2> QED BY <1>a, <1>b, <1>1, <2>1, <2>2, GoOnInv DEF HistoryOK
<1>3. TypeOK'
  BY <1>b, <1>2, <1>reg DEF IInv, TypeOK
<1>4. PointerOwn' /\ SawOwn' /\ CopyOwn'
  BY <1>b, <1>2, <1>reg, OwnKept
<1>5. Truthful'
  <2>1. \A s \in Settings \ {"duty"} : said'[s] = said[s]
    BY <1>said DEF IInv, HistoryOK
  <2>2. said'["duty"] = duty'
    BY <1>said, <1>reg DEF IInv, HistoryOK, Settings
  <2>3. "mode" \in Settings \ {"duty"} /\ \A f \in Fans : {PprField(f), FaultReg(f)} \subseteq Settings \ {"duty"}
    BY DEF Settings, PprField, FaultReg
  <2> QED BY <1>b, <2>1, <2>2, <2>3 DEF IInv, Truthful
<1>6. ClearReleased'
  BY <1>b, <1>2 DEF IInv, ClearReleased
<1> QED BY <1>1, <1>2, <1>3, <1>4, <1>5, <1>6 DEF IInv

LEMMA PutFaultInv ==
  ASSUME IInv, NEW p \in Procs, PutFault(p)
  PROVE  IInv'
<1>a. pc[p] \in Places /\ args[p] \in Args /\ ~Refused(args[p]) /\ exit[p] = NULL
      /\ pc[p][1] \in Asked(args[p]) \cup {"rpm", "scale"}
  BY PlaceCases DEF IInv, TypeOK, UnderWay, PutFault
<1>b. /\ GoOn(p) /\ UNCHANGED <<config, duty, args, skipped, saw, raced, stuck, loc>>
      /\ did' = [did EXCEPT ![p] = @ \cup {"fault"}]
      /\ pc[p] = <<"fault", "put">> /\ pc[p][1] = "fault"
  BY DEF PutFault, Report
<1>said. said' = [said EXCEPT ![FaultReg(args[p].fan)] = Threshold(args[p].thr)]
  BY DEF PutFault, Report
<1>thr. args[p].thr \in Nat /\ args[p].fan \in Fans
  BY <1>a, <1>b, ArgFields DEF Asked
<1>reg. /\ fault' = [fault EXCEPT ![args[p].fan] = FaultByte(Threshold(args[p].thr))]
        /\ fault' \in [Fans -> 0..255] /\ ptr' \in Registers
        /\ crossed' \subseteq Procs /\ SetPtr(p, ptr')
  BY <1>thr, Widths DEF IInv, TypeOK, PutFault, SetPtr, Others, Registers, FaultReg
<1>1. HistoryOK'
  BY <1>b, <1>said DEF IInv, HistoryOK, Options
<1>2. /\ pc' \in [Procs -> Places] /\ exit' = exit
      /\ \A q \in Procs : q # p => pc'[q] = pc[q]
      /\ pc'[p][2] \in {"ptr", "put"} /\ pc'[p] \notin Changing
      /\ UnderWay' /\ NotBegun' /\ ZeroIsDone'
  <2>1. pc[p][1] \in Options
    BY <1>b DEF Options
  <2>2. pc[p][1] \in did'[p] \cup skipped'[p] /\ \A q \in Procs : did[q] \cup skipped[q] \subseteq did'[q] \cup skipped'[q]
    BY <1>b DEF IInv, HistoryOK
  <2> QED BY <1>a, <1>b, <1>1, <2>1, <2>2, GoOnInv DEF HistoryOK
<1>3. TypeOK'
  BY <1>b, <1>2, <1>reg DEF IInv, TypeOK
<1>4. PointerOwn' /\ SawOwn' /\ CopyOwn'
  BY <1>b, <1>2, <1>reg, OwnKept
<1>5. Truthful'
  <2> DEFINE r == FaultReg(args[p].fan)
  <2>1. r \in Settings /\ "mode" \in Settings \ {r} /\ "duty" \in Settings \ {r}
        /\ \A f \in Fans : PprField(f) \in Settings \ {r} /\ (f # args[p].fan => FaultReg(f) \in Settings \ {r})
    BY <1>thr DEF Settings, PprField, FaultReg, Fans
  <2>2. said'[r] = Threshold(args[p].thr) /\ \A s \in Settings \ {r} : said'[s] = said[s]
    BY <1>said, <2>1 DEF IInv, HistoryOK
  <2> HIDE DEF r
  <2>3. ASSUME NEW f \in Fans, said'[FaultReg(f)] # NULL, said'[FaultReg(f)] < 12800
        PROVE  fault'[f] = said'[FaultReg(f)] \div 50
    <3>1. CASE f = args[p].fan
      BY <3>1, <1>thr, <1>reg, <2>2, <2>3, Widths DEF IInv, TypeOK, r
    <3>2. CASE f # args[p].fan
      BY <3>2, <1>reg, <2>1, <2>2, <2>3 DEF IInv, TypeOK, Truthful
    <3> QED BY <3>1, <3>2
  <2> QED BY <1>b, <2>1, <2>2, <2>3 DEF IInv, Truthful
<1>6. ClearReleased'
  BY <1>b, <1>2 DEF IInv, ClearReleased
<1> QED BY <1>1, <1>2, <1>3, <1>4, <1>5, <1>6 DEF IInv

LEMMA PutClearInv ==
  ASSUME IInv, NEW p \in Procs, PutClear(p)
  PROVE  IInv'
<1>a. pc[p] \in Places /\ args[p] \in Args /\ ~Refused(args[p]) /\ exit[p] = NULL
      /\ pc[p][1] \in Asked(args[p]) \cup {"rpm", "scale"}
  BY PlaceCases DEF IInv, TypeOK, UnderWay, PutClear
<1>b. /\ pc[p] = <<"clear", "put">> /\ pc' = [pc EXCEPT ![p] = <<"clear", "reset">>]
      /\ exit' = exit /\ UNCHANGED <<args, did, skipped, saw, said, stuck>>
  BY DEF PutClear, GoTo
<1>reg. /\ config' \in Config /\ ptr' \in Registers /\ crossed' \subseteq Procs
        /\ duty' = duty /\ fault' = fault /\ raced' \in BOOLEAN
  BY <1>a, <1>b, WithType, ArgFields DEF IInv, PutClear, StoreConfig, Others, Registers, TypeOK, Asked
<1>1. TypeOK' /\ HistoryOK'
  <2>1. pc' \in [Procs -> Places]
    BY <1>b DEF IInv, TypeOK, Places
  <2>2. loc' \in [Procs -> Config]
    BY <1>a, WithType DEF IInv, TypeOK, PutClear
  <2> QED BY <1>b, <1>reg, <2>1, <2>2 DEF IInv, TypeOK, HistoryOK
<1>2. UnderWay' /\ NotBegun'
  BY <1>b DEF IInv, TypeOK, UnderWay, NotBegun
<1>3. PointerOwn' /\ SawOwn' /\ CopyOwn'
  <2>1. pc'[p][2] # "get" /\ pc[p] \in Changing
        /\ \A q \in Procs : q # p => pc'[q] = pc[q] /\ loc'[q] = loc[q]
    BY <1>b DEF IInv, TypeOK, PutClear, Changing
  <2>2. StoreConfig(p, WithClear(p, TRUE)) /\ loc'[p] = WithClear(p, TRUE)
    BY DEF IInv, TypeOK, PutClear
  <2> QED BY <1>b, <2>1, <2>2, OwnStored
<1>4. ZeroIsDone'
  BY <1>b DEF IInv, ZeroIsDone
<1>5. Truthful'
  <2>1. StoreConfig(p, WithClear(p, TRUE))
    BY DEF PutClear
  <2>2. WithClear(p, TRUE).mode = loc[p].mode /\ WithClear(p, TRUE).ppr = loc[p].ppr
    BY <1>a, WithFields DEF IInv
  <2> QED BY <1>b, <2>1, <2>2, StoreKeeps
<1>6. ClearReleased'
  BY <1>b DEF IInv, TypeOK, ClearReleased
<1> QED BY <1>1, <1>2, <1>3, <1>4, <1>5, <1>6 DEF IInv

LEMMA PutResetInv ==
  ASSUME IInv, NEW p \in Procs, PutReset(p)
  PROVE  IInv'
<1>a. pc[p] \in Places /\ args[p] \in Args /\ ~Refused(args[p]) /\ exit[p] = NULL
      /\ pc[p][1] \in Asked(args[p]) \cup {"rpm", "scale"}
  BY PlaceCases DEF IInv, TypeOK, UnderWay, PutReset
<1>b. /\ GoOn(p) /\ UNCHANGED <<args, skipped, saw, said, stuck, loc>>
      /\ did' = [did EXCEPT ![p] = @ \cup {"clear"}]
      /\ pc[p] = <<"clear", "reset">> /\ pc[p][1] = "clear"
  BY DEF PutReset, Report
<1>said. UNCHANGED said
  BY <1>b
<1>reg. /\ config' \in Config /\ ptr' \in Registers /\ crossed' \subseteq Procs
        /\ duty' = duty /\ fault' = fault /\ raced' \in BOOLEAN
  BY <1>a, <1>b, WithType, ArgFields DEF IInv, PutReset, StoreConfig, Others, Registers, TypeOK, Asked
<1>1. HistoryOK'
  BY <1>b, <1>said DEF IInv, HistoryOK, Options
<1>2. /\ pc' \in [Procs -> Places] /\ exit' = exit
      /\ \A q \in Procs : q # p => pc'[q] = pc[q]
      /\ pc'[p][2] \in {"ptr", "put"} /\ pc'[p] \notin Changing
      /\ UnderWay' /\ NotBegun' /\ ZeroIsDone'
  <2>1. pc[p][1] \in Options
    BY <1>b DEF Options
  <2>2. pc[p][1] \in did'[p] \cup skipped'[p] /\ \A q \in Procs : did[q] \cup skipped[q] \subseteq did'[q] \cup skipped'[q]
    BY <1>b DEF IInv, HistoryOK
  <2> QED BY <1>a, <1>b, <1>1, <2>1, <2>2, GoOnInv DEF HistoryOK
<1>3. TypeOK'
  BY <1>b, <1>2, <1>reg DEF IInv, TypeOK
<1>4. PointerOwn' /\ SawOwn' /\ CopyOwn'
  <2>1. StoreConfig(p, WithClear(p, FALSE)) /\ pc[p] \in Changing
    BY <1>b DEF PutReset, Changing
  <2> QED BY <1>b, <1>2, <2>1, OwnStored
<1>5. Truthful'
  <2>1. StoreConfig(p, WithClear(p, FALSE))
    BY DEF PutReset
  <2>2. WithClear(p, FALSE).mode = loc[p].mode /\ WithClear(p, FALSE).ppr = loc[p].ppr
    BY <1>a, WithFields DEF IInv
  <2> QED BY <1>b, <2>1, <2>2, StoreKeeps
<1>6. ClearReleased'
  <2>1. config'.clear = FALSE
    BY <1>a, WithFields DEF IInv, PutReset, StoreConfig
  <2> QED BY <2>1 DEF ClearReleased
<1> QED BY <1>1, <1>2, <1>3, <1>4, <1>5, <1>6 DEF IInv

LEMMA PutFailsInv ==
  ASSUME IInv, NEW p \in Procs, PutFails(p)
  PROVE  IInv'
<1>a. pc[p] \in Places /\ args[p] \in Args /\ ~Refused(args[p]) /\ exit[p] = NULL
      /\ pc[p][1] \in Asked(args[p]) \cup {"rpm", "scale"}
  BY PlaceCases DEF IInv, TypeOK, UnderWay, PutFails
<1>b. /\ pc[p][2] \in {"put", "reset"} /\ pc' = [pc EXCEPT ![p] = <<"end", "end">>]
      /\ exit' = [exit EXCEPT ![p] = 1] /\ UNCHANGED <<args, did, skipped, saw, loc>>
      /\ said' = [s \in Settings |-> IF s \in InDoubt(p) THEN NULL ELSE said[s]]
      /\ stuck' = (stuck \/ pc[p][1] = "clear")
  BY DEF PutFails, Exit
<1>c. /\ pc' \in [Procs -> Places] /\ pc'[p][2] # "get" /\ pc[p][1] \notin {"start", "end"}
      /\ pc'[p] \notin Changing /\ \A q \in Procs : q # p => pc'[q] = pc[q]
  BY <1>a, <1>b, PlaceCases DEF IInv, TypeOK, Places, Changing
<1>d. \/ UNCHANGED <<config, duty, fault, ptr, crossed, raced>>
      \/ pc[p][1] \in {"mode", "ppr", "clear"} /\ StoreConfig(p, ConfigToPut(p))
      \/ /\ pc[p][1] = "speed" /\ duty' = Dutycycle(args[p].speed)
         /\ SetPtr(p, "duty") /\ UNCHANGED <<config, fault, raced>>
      \/ /\ pc[p][1] = "fault" /\ fault' = [fault EXCEPT ![args[p].fan] = FaultByte(Threshold(args[p].thr))]
         /\ SetPtr(p, FaultReg(args[p].fan)) /\ UNCHANGED <<config, duty, raced>>
  BY DEF PutFails, chip
<1>e. HistoryOK' /\ stuck' \in BOOLEAN
  BY <1>b DEF IInv, HistoryOK, TypeOK
<1>f. UnderWay' /\ NotBegun' /\ ZeroIsDone'
  BY <1>b, <1>c DEF IInv, TypeOK, UnderWay, NotBegun, ZeroIsDone
<1>g. args[p].fan \in Fans /\ \A s \in Settings : said'[s] = said[s] \/ said'[s] = NULL
  BY <1>a, <1>b, ArgFields
<1>h. (stuck \/ pc[p][1] = "clear" => stuck') /\ (pc[p] = <<"clear", "reset">> => pc[p][1] = "clear")
  <2>1. stuck \in BOOLEAN
    BY DEF IInv, TypeOK
  <2>2. stuck \/ pc[p][1] = "clear" => stuck'
    BY <1>b, <2>1
  <2>3. pc[p] = <<"clear", "reset">> => pc[p][1] = "clear"
    OBVIOUS
  <2> QED BY <2>2, <2>3
<1>names. /\ "mode" \in Settings /\ "duty" \in Settings
          /\ \A f \in Fans : PprField(f) \in Settings /\ FaultReg(f) \in Settings
  BY DEF PprField, FaultReg, Settings
<1>1. CASE UNCHANGED <<config, duty, fault, ptr, crossed, raced>>
  <2>1. TypeOK'
    BY <1>1, <1>b, <1>c, <1>e DEF IInv, TypeOK
  <2>2. PointerOwn' /\ SawOwn' /\ CopyOwn'
    BY <1>1, <1>b, <1>c, OwnKept
  <2>3. Truthful'
    <3>1. \A f \in Fans : PprField(f) \in Settings /\ FaultReg(f) \in Settings
      BY DEF PprField, FaultReg, Settings
    <3>2. "mode" \in Settings /\ "duty" \in Settings
      BY DEF Settings
    <3> QED BY <1>1, <1>g, <3>1, <3>2 DEF IInv, Truthful
  <2>4. ClearReleased'
    BY <1>1, <1>b, <1>c, <1>h DEF IInv, ClearReleased
  <2> QED BY <1>e, <1>f, <2>1, <2>2, <2>3, <2>4 DEF IInv
<1>2. CASE pc[p][1] \in {"mode", "ppr", "clear"} /\ StoreConfig(p, ConfigToPut(p))
  <2> DEFINE c == ConfigToPut(p)
  <2>1. c \in Config /\ (pc[p][1] # "clear" => c.clear = loc[p].clear) /\ Truthful'
    <3>1. CASE pc[p][1] = "mode"
      <4>1. c = WithMode(p) /\ args[p].mode # NULL
        BY <1>a, <1>b, <3>1, PlaceCases, ZenonT(30) DEF ConfigToPut, Asked
      <4>2. c \in Config /\ c.clear = loc[p].clear /\ c.ppr = loc[p].ppr
        BY <1>a, <4>1, WithType, WithFields DEF IInv
      <4>3. said'["mode"] = NULL
        BY <1>b, <3>1 DEF InDoubt, Settings
      <4>4. \A f \in Fans : said'[PprField(f)] \in {said[PprField(f)], NULL}
        BY <1>g, <1>names
      <4> HIDE DEF c
      <4>5. Truthful'
        BY <1>2, <1>g, <1>names, <4>2, <4>3, <4>4, StoreKeeps DEF c
      <4> QED BY <4>2, <4>5
    <3>2. CASE pc[p][1] = "ppr"
      <4>1. c = WithPpr(p)
        BY <1>a, <1>b, <3>2, PlaceCases DEF ConfigToPut
      <4>2. c \in Config /\ c.clear = loc[p].clear /\ c.mode = loc[p].mode
            /\ \A f \in Fans : f # args[p].fan => c.ppr[f] = loc[p].ppr[f]
        BY <1>a, <4>1, WithType, WithFields DEF IInv
      <4>3. said'[PprField(args[p].fan)] = NULL
        BY <1>b, <1>g, <1>names, <3>2 DEF InDoubt
      <4> HIDE DEF c
      <4>4. \A f \in Fans : \/ said'[PprField(f)] = NULL
                            \/ said'[PprField(f)] = said[PprField(f)] /\ c.ppr[f] = loc[p].ppr[f]
        <5> SUFFICES ASSUME NEW f \in Fans
                     PROVE  \/ said'[PprField(f)] = NULL
                            \/ said'[PprField(f)] = said[PprField(f)] /\ c.ppr[f] = loc[p].ppr[f]
          OBVIOUS
        <5>1. CASE f = args[p].fan
          BY <5>1, <4>3
        <5>2. CASE f # args[p].fan
          BY <5>2, <1>g, <1>names, <4>2
        <5> QED BY <5>1, <5>2
      <4>5. Truthful'
        BY <1>2, <1>g, <1>names, <4>2, <4>4, StoreKeeps DEF c
      <4> QED BY <4>2, <4>5
    <3>3. CASE pc[p][1] = "clear"
      <4>1. c = WithClear(p, TRUE) \/ c = WithClear(p, FALSE)
        BY <1>a, <1>b, <3>3, PlaceCases DEF ConfigToPut
      <4>2. c \in Config /\ c.mode = loc[p].mode /\ c.ppr = loc[p].ppr
        BY <1>a, <4>1, WithType, WithFields DEF IInv
      <4> HIDE DEF c
      <4>3. Truthful'
        BY <1>2, <1>g, <1>names, <4>2, StoreKeeps DEF c
      <4> QED BY <3>3, <4>2, <4>3
    <3> QED BY <1>2, <3>1, <3>2, <3>3
  <2>4. StoreConfig(p, c)
    BY <1>2
  <2> HIDE DEF c
  <2>5. /\ config' = c /\ raced' = (raced \/ loc[p] # config) /\ ptr' = "config"
        /\ crossed' = crossed \cup Others(p, Reading \cup Changing)
        /\ UNCHANGED <<duty, fault>>
    BY <1>2 DEF c, StoreConfig
  <2>6. TypeOK'
    BY <1>b, <1>c, <1>e, <2>1, <2>5 DEF IInv, TypeOK, Registers, Others
  <2>7. PointerOwn' /\ SawOwn' /\ CopyOwn'
    <3>1. pc[p] \in Changing
      BY <1>2, <1>a, <1>b, PlaceCases
    <3> QED BY <1>b, <1>c, <2>4, <3>1, OwnStored
  <2>8. ClearReleased'
    <3>1. CASE pc[p][1] = "clear"
      BY <3>1, <1>h DEF ClearReleased
    <3>2. CASE pc[p][1] # "clear"
      BY <3>2, <1>c, <1>h, <2>1, <2>4, StoreKeepsClear
    <3> QED BY <3>1, <3>2
  <2> QED BY <1>e, <1>f, <2>1, <2>6, <2>7, <2>8 DEF IInv
<1>3. CASE /\ pc[p][1] = "speed" /\ duty' = Dutycycle(args[p].speed)
           /\ SetPtr(p, "duty") /\ UNCHANGED <<config, fault, raced>>
  <2>1. args[p].speed # NULL /\ args[p].speed \in Nat
    BY <1>a, <1>3, ArgFields DEF Asked
  <2>2. duty' \in 0..15
    BY <1>a, <1>3, <2>1 DEF Refused, Dutycycle
  <2>3. TypeOK'
    BY <1>3, <1>b, <1>c, <1>e, <2>2 DEF IInv, TypeOK, SetPtr, Others, Registers
  <2>4. PointerOwn' /\ SawOwn' /\ CopyOwn'
    BY <1>3, <1>b, <1>c, OwnKept DEF SetPtr
  <2>5. Truthful'
    <3>1. \A f \in Fans : PprField(f) \in Settings /\ FaultReg(f) \in Settings
      BY DEF PprField, FaultReg, Settings
    <3>2. "mode" \in Settings /\ said'["duty"] = NULL
      BY <1>3, <1>b DEF Settings, InDoubt
    <3> QED BY <1>3, <1>g, <3>1, <3>2 DEF IInv, Truthful
  <2>6. ClearReleased'
    BY <1>3, <1>b, <1>c, <1>h DEF IInv, ClearReleased
  <2> QED BY <1>e, <1>f, <2>3, <2>4, <2>5, <2>6 DEF IInv
<1>4. CASE /\ pc[p][1] = "fault" /\ fault' = [fault EXCEPT ![args[p].fan] = FaultByte(Threshold(args[p].thr))]
           /\ SetPtr(p, FaultReg(args[p].fan)) /\ UNCHANGED <<config, duty, raced>>
  <2>1. args[p].thr \in Nat
    BY <1>a, <1>4, ArgFields DEF Asked
  <2>2. /\ fault' \in [Fans -> 0..255] /\ ptr' \in Registers
        /\ crossed' \subseteq Procs /\ SetPtr(p, ptr')
    BY <1>4, <1>g, <2>1, Widths DEF IInv, TypeOK, SetPtr, Others, Registers, FaultReg
  <2>3. TypeOK'
    BY <1>4, <1>b, <1>c, <1>e, <2>2 DEF IInv, TypeOK
  <2>4. PointerOwn' /\ SawOwn' /\ CopyOwn'
    BY <1>4, <1>b, <1>c, <2>2, OwnKept
  <2>5. Truthful'
    <3>1. \A f \in Fans : PprField(f) \in Settings /\ FaultReg(f) \in Settings
      BY DEF PprField, FaultReg, Settings
    <3>2. "mode" \in Settings /\ "duty" \in Settings
      BY DEF Settings
    <3>3. said'[FaultReg(args[p].fan)] = NULL
      BY <1>4, <1>b, <1>g, <3>1 DEF InDoubt
    <3>4. \A f \in Fans : f # args[p].fan => fault'[f] = fault[f]
      BY <1>4 DEF IInv, TypeOK
    <3> QED BY <1>4, <1>g, <3>1, <3>2, <3>3, <3>4 DEF IInv, Truthful
  <2>6. ClearReleased'
    BY <1>4, <1>b, <1>c, <1>h DEF IInv, ClearReleased
  <2> QED BY <1>e, <1>f, <2>3, <2>4, <2>5, <2>6 DEF IInv
<1> QED BY <1>d, <1>1, <1>2, <1>3, <1>4

LEMMA KillInv ==
  ASSUME IInv, NEW p \in Procs, Kill(p)
  PROVE  IInv'
<1>a. pc[p] \in Places /\ args[p] \in Args /\ ~Refused(args[p]) /\ exit[p] = NULL
      /\ pc[p][1] \in Asked(args[p]) \cup {"rpm", "scale"}
  BY PlaceCases DEF IInv, TypeOK, UnderWay, Kill
<1>b. /\ UNCHANGED <<config, duty, fault, ptr, crossed, args, did, skipped, said, raced, loc>>
      /\ pc' = [pc EXCEPT ![p] = <<"end", "end">>] /\ exit' = [exit EXCEPT ![p] = 130]
      /\ stuck' = (stuck \/ pc[p] = <<"clear", "reset">>) /\ saw' = [saw EXCEPT ![p] = NULL]
  BY DEF Kill, Exit, chip
<1>c. stuck \in BOOLEAN /\ pc \in [Procs -> Places] /\ pc' \in [Procs -> Places]
  BY <1>b DEF IInv, TypeOK, Places
<1>d. (stuck \/ pc[p] = <<"clear", "reset">> => stuck') /\ stuck' \in BOOLEAN
  BY <1>b, <1>c
<1>1. TypeOK' /\ HistoryOK'
  BY <1>b, <1>c, <1>d DEF IInv, TypeOK, HistoryOK
<1>2. UnderWay' /\ NotBegun'
  BY <1>b, <1>c DEF IInv, TypeOK, UnderWay, NotBegun
<1>3. PointerOwn' /\ SawOwn' /\ CopyOwn'
  <2>1. /\ pc'[p][2] # "get" /\ pc'[p] \notin Changing
        /\ \A q \in Procs : saw'[q] \in {saw[q], NULL} /\ (q # p => pc'[q] = pc[q])
    BY <1>b, <1>c DEF IInv, TypeOK, Changing
  <2> QED BY <1>b, <2>1, OwnKept
<1>4. ZeroIsDone'
  BY <1>b DEF IInv, TypeOK, ZeroIsDone
<1>5. Truthful'
  BY <1>b DEF IInv, Truthful
<1>6. ClearReleased'
  BY <1>b, <1>c, <1>d DEF IInv, ClearReleased
<1> QED BY <1>1, <1>2, <1>3, <1>4, <1>5, <1>6 DEF IInv

LEMMA NextInv == IInv /\ [Next]_vars => IInv'
<1> SUFFICES ASSUME IInv, [Next]_vars PROVE IInv'
  OBVIOUS
<1>1. ASSUME NEW p \in Procs, Start(p) \/ Step(p) \/ Kill(p) PROVE IInv'
  BY <1>1, StartInv, PointInv, PointFailsInv, GetFailsInv, GetConfigInv, GetStatusInv, GetRpmInv,
     GetScaleInv, PutModeInv, PutSpeedInv, PutPprInv, PutFaultInv, PutClearInv, PutResetInv,
     PutFailsInv, KillInv DEF Step
<1>2. CASE UNCHANGED vars
  <2>1. UNCHANGED <<config, duty, fault, ptr, crossed, args, exit, did, skipped, saw, said, raced,
                    stuck, pc, loc>>
    BY <1>2 DEF vars, chip, run, past
  <2>2. TypeOK' /\ HistoryOK' /\ UnderWay' /\ NotBegun' /\ ZeroIsDone'
    BY <2>1 DEF IInv, TypeOK, HistoryOK, UnderWay, NotBegun, ZeroIsDone
  <2>3. PointerOwn' /\ SawOwn' /\ CopyOwn' /\ Truthful' /\ ClearReleased'
    BY <2>1 DEF IInv, PointerOwn, SawOwn, CopyOwn, Truthful, ClearReleased
  <2> QED BY <2>2, <2>3 DEF IInv
<1> QED BY <1>1, <1>2 DEF Next

LEMMA Inductive == Spec => []IInv
BY InitInv, NextInv, PTL DEF Spec

-----------------------------------------------------------------------------

(* The registers of the chip keep their widths, and a run stays at the     *)
(* places of main, for any command lines.                                  *)
THEOREM TypeCorrect == Spec => []TypeOK
<1>1. IInv => TypeOK
  BY DEF IInv
<1> QED BY <1>1, Inductive, PTL

(* What rhino_fan prints after a successful write is what the chip holds,  *)
(* until a run writes back a copy of the configuration that is out of date.*)
THEOREM TruthfulCorrect == Spec => []Truthful
<1>1. IInv => Truthful
  BY DEF IInv
<1> QED BY <1>1, Inductive, PTL

(* The clear bit is not left set by runs that neither fail nor race.       *)
THEOREM ClearReleasedCorrect == Spec => []ClearReleased
<1>1. IInv => ClearReleased
  BY DEF IInv
<1> QED BY <1>1, Inductive, PTL

(* A run that no other run's transaction came between shows the speed of   *)
(* its own fan, and the configuration is written over a newer one only if  *)
(* some run was crossed, for any number of runs, failures and signals.     *)
THEOREM OnlyCrossedCorrect == Spec => []OnlyCrossed
<1>1. IInv => OnlyCrossed
  BY DEF IInv, SawOwn, CopyOwn, OnlyCrossed
<1> QED BY <1>1, Inductive, PTL

(* Exit code 0 means that everything was done, but for a failed read of    *)
(* the configuration before a mode or a pulse count.                       *)
THEOREM ExitHonestCorrect == Spec => []ExitHonest
<1>1. IInv => ExitHonest
  BY DEF IInv, ZeroIsDone, HistoryOK, ExitHonest
<1> QED BY <1>1, Inductive, PTL
=============================================================================
