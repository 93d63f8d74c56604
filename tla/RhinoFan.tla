------------------------------ MODULE RhinoFan ------------------------------
(***************************************************************************)
(* Several runs of rhino_fan over one TC654 fan controller.                *)
(*                                                                         *)
(* The program (utils/util/rhino_fan.c) goes through its options in a      *)
(* fixed order - mode, speed, pulses per revolution, fault threshold,      *)
(* clear - and then shows the speed of its fan.  Three of the options      *)
(* change a few bits of one configuration register: they read it, change   *)
(* their bits and write it back.  A read (i2c_read) is itself two bus      *)
(* transactions: a write of the register number, which the chip keeps, and *)
(* a read of whatever register the chip then points at.  Nothing locks     *)
(* the bus between transactions, any of them may fail, and a run may be    *)
(* killed between any two.                                                 *)
(*                                                                         *)
(* A process handles its options as sections; pc[p] is the section and the *)
(* transaction that comes next in it.                                      *)
(***************************************************************************)
EXTENDS Naturals

CONSTANTS Procs,  \* the runs of rhino_fan
          Args,   \* the command lines they may be given
          Stray,  \* what a byte of another register may look like as a configuration
          NULL

VARIABLES config,  \* the configuration register, by fields
          duty,    \* the duty cycle register
          fault,   \* the two fan fault registers
          ptr,     \* the register the chip points at
          pc,      \* per process: <<section, transaction>>
          args,    \* per process: its command line
          loc,     \* per process: its copy of the configuration register
          saw,     \* per process: the register its fan speed really came from
          exit,    \* per process: its exit code
          did,     \* history: the sections a process reported as done
          skipped, \* history: the sections it left out after a failed read
          said,    \* history: the value last reported for each setting
          raced,   \* history: a configuration was written over a newer one
          crossed, \* history: the runs that another's transaction came between
          stuck    \* history: a run ended between the two writes of a clear

chip == <<config, duty, fault, ptr, crossed>>
run  == <<args, exit, did, skipped>>
past == <<said, raced, stuck>>
vars == <<chip, run, saw, past, pc, loc>>

Fans == {1, 2}

Config == [clear : BOOLEAN, mode : {"a", "d"}, ppr : [Fans -> 0..3]]

Registers == {"config", "duty", "fault1", "fault2", "status", "rpm1", "rpm2"}

Settings == {"mode", "duty", "ppr1", "ppr2", "fault1", "fault2"}

CommandLine == [fan : Fans, mode : {"a", "d", NULL}, speed : Nat \cup {NULL},
                ppr : {1, 2, 4, 8, NULL}, thr : Nat \cup {NULL}, clear : BOOLEAN]

ASSUME ArgsAssumption == Args \subseteq CommandLine
ASSUME StrayAssumption == Stray \subseteq Config
ASSUME NullAssumption ==
  NULL \notin Nat /\ NULL \notin {"a", "d"} /\ NULL \notin Procs

(* The sections of a command line. *)
Asked(a) ==
  {"status"} \cup (IF a.mode # NULL THEN {"mode"} ELSE {})
             \cup (IF a.speed # NULL THEN {"speed"} ELSE {})
             \cup (IF a.ppr # NULL THEN {"ppr"} ELSE {})
             \cup (IF a.thr # NULL THEN {"fault"} ELSE {})
             \cup (IF a.clear THEN {"clear"} ELSE {})

(* Where the command line a leads after the options up to a section. *)
AfterFault(a) == IF a.clear THEN <<"clear", "ptr">> ELSE <<"status", "ptr">>
AfterPpr(a) == IF a.thr # NULL THEN <<"fault", "put">> ELSE AfterFault(a)
AfterSpeed(a) == IF a.ppr # NULL THEN <<"ppr", "ptr">> ELSE AfterPpr(a)
AfterMode(a) == IF a.speed # NULL THEN <<"speed", "put">> ELSE AfterSpeed(a)

After(a, sec) ==
  CASE sec = "start" -> IF a.mode # NULL THEN <<"mode", "ptr">> ELSE AfterMode(a)
    [] sec = "mode"  -> AfterMode(a)
    [] sec = "speed" -> AfterSpeed(a)
    [] sec = "ppr"   -> AfterPpr(a)
    [] sec = "fault" -> AfterFault(a)
    [] OTHER         -> <<"status", "ptr">>

RpmReg(fan) == IF fan = 1 THEN "rpm1" ELSE "rpm2"
FaultReg(fan) == IF fan = 1 THEN "fault1" ELSE "fault2"
PprField(fan) == IF fan = 1 THEN "ppr1" ELSE "ppr2"

(* Mutant: the speed of fan 1 whatever the fan. *)
RegisterOfFan1(sec, a) ==
  CASE sec = "status" -> "status"
    [] sec = "rpm"    -> "rpm1"
    [] OTHER          -> "config"

(* The register a section reads. *)
RegisterOf(sec, a) ==
  CASE sec = "status" -> "status"
    [] sec = "rpm"    -> RpmReg(a.fan)
    [] OTHER          -> "config"

Bits(pulses) == CASE pulses = 1 -> 0 [] pulses = 4 -> 2 [] pulses = 8 -> 3 [] OTHER -> 1

(* (unsigned char)strtol, and threshold / 50 kept in an unsigned char. *)
Dutycycle(n) == n % 256
Threshold(n) == n % 65536
FaultByte(threshold) == (threshold \div 50) % 256

Init ==
  /\ config = [clear |-> FALSE, mode |-> "a", ppr |-> [f \in Fans |-> 1]]
  /\ duty = 2
  /\ fault = [f \in Fans |-> 10]
  /\ ptr = "config" /\ crossed = {}
  /\ pc = [p \in Procs |-> <<"start", "args">>]
  /\ args = [p \in Procs |-> NULL]
  /\ loc = [p \in Procs |-> config]
  /\ saw = [p \in Procs |-> NULL]
  /\ exit = [p \in Procs |-> NULL]
  /\ did = [p \in Procs |-> {}]
  /\ skipped = [p \in Procs |-> {}]
  /\ said = [s \in Settings |-> NULL]
  /\ raced = FALSE
  /\ stuck = FALSE

Exit(p, code) ==
  /\ pc' = [pc EXCEPT ![p] = <<"end", "end">>]
  /\ exit' = [exit EXCEPT ![p] = code]

GoTo(p, where) ==
  /\ pc' = [pc EXCEPT ![p] = where]
  /\ exit' = exit

GoOn(p) == GoTo(p, After(args[p], pc[p][1]))

(***************************************************************************)
(* The command line.  A duty cycle above 15 is refused after its cast to a *)
(* byte; a run also ends here on any other error in its options, and if    *)
(* the bus cannot be opened.                                               *)
(***************************************************************************)
Refused(a) == IF a.speed = NULL THEN FALSE ELSE Dutycycle(a.speed) > 15

Start(p) ==
  /\ pc[p] = <<"start", "args">>
  /\ \E a \in Args :
       /\ args' = [args EXCEPT ![p] = a]
       /\ \/ ~Refused(a) /\ GoTo(p, After(a, "start"))
          \/ Exit(p, 1)
  /\ UNCHANGED <<chip, saw, past, loc, did, skipped>>

(***************************************************************************)
(* i2c_read: the register number, then the byte the chip points at.  A     *)
(* failed transaction may have reached the chip or not.                    *)
(***************************************************************************)
(* A run is between the transactions of i2c_read, or between reading the  *)
(* configuration register and writing it back.                             *)
Reading == {"mode", "ppr", "clear", "status", "rpm", "scale"} \X {"get"}
Changing == ({"mode", "ppr", "clear"} \X {"put"}) \cup {<<"clear", "reset">>}

Others(p, places) == {q \in Procs \ {p} : pc[q] \in places}

SetPtr(p, r) == ptr' = r /\ crossed' = crossed \cup Others(p, Reading)

Point(p) ==
  /\ pc[p][2] = "ptr"
  /\ SetPtr(p, RegisterOf(pc[p][1], args[p]))
  /\ GoTo(p, <<pc[p][1], "get">>)
  /\ UNCHANGED <<config, duty, fault, args, did, skipped, saw, past, loc>>

(* Mutant: the result of TC654readConfig is not looked at; it has cleared  *)
(* config.                                                                 *)
ReadConfigFailedGoesOn(p) ==
  /\ pc[p][1] \in {"mode", "ppr", "clear"}
  /\ loc' = [loc EXCEPT ![p] = [clear |-> FALSE, mode |-> "a", ppr |-> [f \in Fans |-> 0]]]
  /\ GoTo(p, <<pc[p][1], "put">>)
  /\ UNCHANGED <<saw, skipped>>

(* What the caller makes of a failed read. *)
ReadConfigFailed(p) ==
  /\ UNCHANGED <<loc, saw>>
  /\ \/ /\ pc[p][1] \in {"mode", "ppr"}
        /\ skipped' = [skipped EXCEPT ![p] = @ \cup {pc[p][1]}]
        /\ GoOn(p)
     \/ /\ pc[p][1] = "clear"
        /\ skipped' = skipped
        /\ Exit(p, 1)

ReadStatusFailed(p) ==
  /\ pc[p][1] \in {"status", "rpm"}
  /\ saw' = [saw EXCEPT ![p] = NULL]
  /\ Exit(p, 0)
  /\ UNCHANGED <<loc, skipped>>

(* TC654readConfig clears config when it fails; TC654readRPM looks at the  *)
(* bit of the resolution only in that case.                                *)
ReadScaleFailed(p) ==
  /\ pc[p][1] = "scale"
  /\ Exit(p, 0)
  /\ UNCHANGED <<loc, skipped, saw>>

(* Mutant: a failed read is tried again. *)
ReadFailedRetries(p) ==
  /\ GoTo(p, <<pc[p][1], "ptr">>)
  /\ UNCHANGED <<loc, saw, skipped>>

ReadFailed(p) ==
  \/ ReadConfigFailed(p)
  \/ ReadStatusFailed(p)
  \/ ReadScaleFailed(p)

PointFails(p) ==
  /\ pc[p][2] = "ptr"
  /\ \/ UNCHANGED <<ptr, crossed>>
     \/ SetPtr(p, RegisterOf(pc[p][1], args[p]))
  /\ ReadFailed(p)
  /\ UNCHANGED <<config, duty, fault, args, did, past>>

GetFails(p) ==
  /\ pc[p][2] = "get"
  /\ ReadFailed(p)
  /\ UNCHANGED <<chip, args, did, past>>

Byte == IF ptr = "config" THEN {config} ELSE Stray

GetConfig(p) ==
  /\ pc[p][2] = "get"
  /\ pc[p][1] \in {"mode", "ppr", "clear"}
  /\ loc' \in {[loc EXCEPT ![p] = c] : c \in Byte}
  /\ GoTo(p, <<pc[p][1], "put">>)
  /\ UNCHANGED <<chip, args, did, skipped, saw, past>>

GetStatus(p) ==
  /\ pc[p] = <<"status", "get">>
  /\ GoTo(p, <<"rpm", "ptr">>)
  /\ UNCHANGED <<chip, args, did, skipped, saw, past, loc>>

GetRpm(p) ==
  /\ pc[p] = <<"rpm", "get">>
  /\ saw' = [saw EXCEPT ![p] = ptr]
  /\ GoTo(p, <<"scale", "ptr">>)
  /\ UNCHANGED <<chip, args, did, skipped, past, loc>>

(* A configuration that could be read is not looked at. *)
GetScale(p) ==
  /\ pc[p] = <<"scale", "get">>
  /\ Exit(p, 0)
  /\ UNCHANGED <<chip, args, did, skipped, saw, past, loc>>

(***************************************************************************)
(* i2c_write: one transaction, which also leaves the chip pointing at the  *)
(* register.                                                               *)
(***************************************************************************)

(* Write c over the configuration register. *)
StoreConfig(p, c) ==
  /\ config' = c
  /\ raced' = (raced \/ loc[p] # config)
  /\ ptr' = "config"
  /\ crossed' = crossed \cup Others(p, Reading \cup Changing)
  /\ UNCHANGED <<duty, fault>>

(* Mutant: the bits of fan 1 whatever the fan. *)
WithPprOnFan1(p) == [loc[p] EXCEPT !.ppr[1] = Bits(args[p].ppr)]

WithMode(p) == [loc[p] EXCEPT !.mode = args[p].mode]
WithPpr(p) == [loc[p] EXCEPT !.ppr[args[p].fan] = Bits(args[p].ppr)]
WithClear(p, b) == [loc[p] EXCEPT !.clear = b]

Report(p, setting, v) ==
  /\ did' = [did EXCEPT ![p] = @ \cup {pc[p][1]}]
  /\ said' = [said EXCEPT ![setting] = v]

PutMode(p) ==
  /\ pc[p] = <<"mode", "put">>
  /\ StoreConfig(p, WithMode(p))
  /\ Report(p, "mode", args[p].mode)
  /\ GoOn(p)
  /\ UNCHANGED <<args, skipped, saw, stuck, loc>>

PutPpr(p) ==
  /\ pc[p] = <<"ppr", "put">>
  /\ StoreConfig(p, WithPpr(p))
  /\ Report(p, PprField(args[p].fan), args[p].ppr)
  /\ GoOn(p)
  /\ UNCHANGED <<args, skipped, saw, stuck, loc>>

PutSpeed(p) ==
  /\ pc[p] = <<"speed", "put">>
  /\ duty' = Dutycycle(args[p].speed)
  /\ SetPtr(p, "duty")
  /\ Report(p, "duty", Dutycycle(args[p].speed))
  /\ GoOn(p)
  /\ UNCHANGED <<config, fault, args, skipped, saw, raced, stuck, loc>>

PutFault(p) ==
  /\ pc[p] = <<"fault", "put">>
  /\ fault' = [fault EXCEPT ![args[p].fan] = FaultByte(Threshold(args[p].thr))]
  /\ SetPtr(p, FaultReg(args[p].fan))
  /\ Report(p, FaultReg(args[p].fan), Threshold(args[p].thr))
  /\ GoOn(p)
  /\ UNCHANGED <<config, duty, args, skipped, saw, raced, stuck, loc>>

(* The clear option sets the bit and then clears it, from one read. *)
PutClear(p) ==
  /\ pc[p] = <<"clear", "put">>
  /\ StoreConfig(p, WithClear(p, TRUE))
  /\ loc' = [loc EXCEPT ![p] = WithClear(p, TRUE)]
  /\ GoTo(p, <<"clear", "reset">>)
  /\ UNCHANGED <<args, did, skipped, saw, said, stuck>>

(* Mutant: the second write leaves the bit set. *)
PutResetForgotten(p) ==
  /\ pc[p] = <<"clear", "reset">>
  /\ StoreConfig(p, loc[p])
  /\ did' = [did EXCEPT ![p] = @ \cup {"clear"}]
  /\ GoOn(p)
  /\ UNCHANGED <<args, skipped, saw, said, stuck, loc>>

PutReset(p) ==
  /\ pc[p] = <<"clear", "reset">>
  /\ StoreConfig(p, WithClear(p, FALSE))
  /\ did' = [did EXCEPT ![p] = @ \cup {"clear"}]
  /\ GoOn(p)
  /\ UNCHANGED <<args, skipped, saw, said, stuck, loc>>

(* A write that fails ends the program; the byte may have reached the chip. *)
ConfigToPut(p) ==
  CASE pc[p] = <<"mode", "put">>  -> WithMode(p)
    [] pc[p] = <<"ppr", "put">>   -> WithPpr(p)
    [] pc[p] = <<"clear", "put">> -> WithClear(p, TRUE)
    [] OTHER                      -> WithClear(p, FALSE)

(* Settings that a failed write of p leaves in doubt. *)
InDoubt(p) ==
  CASE pc[p][1] = "mode"  -> {"mode"}
    [] pc[p][1] = "speed" -> {"duty"}
    [] pc[p][1] = "ppr"   -> {PprField(args[p].fan)}
    [] pc[p][1] = "fault" -> {FaultReg(args[p].fan)}
    [] OTHER              -> {}

(* Mutant: no return after a failed write. *)
PutFailsGoesOn(p) ==
  /\ pc[p][2] \in {"put", "reset"}
  /\ UNCHANGED <<chip, raced>>
  /\ said' = [s \in Settings |-> IF s \in InDoubt(p) THEN NULL ELSE said[s]]
  /\ stuck' = (stuck \/ pc[p][1] = "clear")
  /\ GoOn(p)
  /\ UNCHANGED <<args, did, skipped, saw, loc>>

PutFails(p) ==
  /\ pc[p][2] \in {"put", "reset"}
  /\ \/ UNCHANGED <<chip, raced>>
     \/ /\ pc[p][1] \in {"mode", "ppr", "clear"}
        /\ StoreConfig(p, ConfigToPut(p))
     \/ /\ pc[p][1] = "speed"
        /\ duty' = Dutycycle(args[p].speed)
        /\ SetPtr(p, "duty")
        /\ UNCHANGED <<config, fault, raced>>
     \/ /\ pc[p][1] = "fault"
        /\ fault' = [fault EXCEPT ![args[p].fan] = FaultByte(Threshold(args[p].thr))]
        /\ SetPtr(p, FaultReg(args[p].fan))
        /\ UNCHANGED <<config, duty, raced>>
  /\ said' = [s \in Settings |-> IF s \in InDoubt(p) THEN NULL ELSE said[s]]
  /\ stuck' = (stuck \/ pc[p][1] = "clear")
  /\ Exit(p, 1)
  /\ UNCHANGED <<args, did, skipped, saw, loc>>

(* The program is interrupted between two transactions. *)
Kill(p) ==
  /\ pc[p][1] \notin {"start", "end"}
  /\ Exit(p, 130)
  /\ stuck' = (stuck \/ pc[p] = <<"clear", "reset">>)
  /\ saw' = [saw EXCEPT ![p] = NULL]
  /\ UNCHANGED <<chip, args, did, skipped, said, raced, loc>>

Step(p) ==
  \/ Point(p) \/ PointFails(p) \/ GetFails(p)
  \/ GetConfig(p) \/ GetStatus(p) \/ GetRpm(p) \/ GetScale(p)
  \/ PutMode(p) \/ PutSpeed(p) \/ PutPpr(p) \/ PutFault(p)
  \/ PutClear(p) \/ PutReset(p) \/ PutFails(p)

Next == \E p \in Procs : Start(p) \/ Step(p) \/ Kill(p)

(* A run that was started is scheduled, and its transactions return. *)
Spec == Init /\ [][Next]_vars /\ \A p \in Procs : WF_vars(Step(p))

-----------------------------------------------------------------------------

Places ==
  {<<"start", "args">>, <<"speed", "put">>, <<"fault", "put">>, <<"clear", "reset">>, <<"end", "end">>}
    \cup ({"mode", "ppr", "clear"} \X {"ptr", "get", "put"})
    \cup ({"status", "rpm", "scale"} \X {"ptr", "get"})

(* The type of the state: the registers keep their widths. *)
TypeOK ==
  /\ config \in Config
  /\ duty \in 0..15
  /\ fault \in [Fans -> 0..255]
  /\ ptr \in Registers /\ crossed \subseteq Procs
  /\ pc \in [Procs -> Places]
  /\ args \in [Procs -> Args \cup {NULL}]
  /\ loc \in [Procs -> Config]
  /\ saw \in [Procs -> Registers \cup {NULL}]
  /\ exit \in [Procs -> {0, 1, 130, NULL}]
  /\ raced \in BOOLEAN /\ stuck \in BOOLEAN

(***************************************************************************)
(* What the runs have reported is what the chip holds (main prints a       *)
(* setting after TC654write... returned 0).  For the settings in the       *)
(* configuration register this needs that no run wrote back a copy that    *)
(* was not the register any more; for a threshold, that it is below        *)
(* 256 * 50, as the chip holds threshold / 50 in a byte.                   *)
(***************************************************************************)
Truthful ==
  /\ said["duty"] # NULL => duty = said["duty"]
  /\ \A f \in Fans :
       /\ (said[FaultReg(f)] # NULL /\ said[FaultReg(f)] < 12800)
             => fault[f] = said[FaultReg(f)] \div 50
       /\ (said[PprField(f)] # NULL /\ ~raced) => config.ppr[f] = Bits(said[PprField(f)])
  /\ (said["mode"] # NULL /\ ~raced) => config.mode = said["mode"]

(***************************************************************************)
(* The clear bit, which holds the fault logic of the chip in reset, is set *)
(* only while a run is between the two writes of its clear option, unless  *)
(* a run was stopped there by an error or a signal, or wrote back an old   *)
(* copy of the register.                                                   *)
(***************************************************************************)
ClearReleased ==
  config.clear => \/ raced \/ stuck
                  \/ \E p \in Procs : pc[p] = <<"clear", "reset">>

(***************************************************************************)
(* Only interleaving does harm.  A run shows the speed of its own fan, and *)
(* what it writes back is made from the register as it is, unless a        *)
(* transaction of another run came between its own that belong together:   *)
(* no failed transaction, no early exit and no signal, in any run, makes   *)
(* it read another register or write back a copy that is out of date.      *)
(***************************************************************************)
OnlyCrossed ==
  /\ raced => crossed # {}
  /\ \A p \in Procs \ crossed : saw[p] # NULL => saw[p] = RpmReg(args[p].fan)

(***************************************************************************)
(* A run that exits with 0 has done everything it was asked for, but for a *)
(* mode or a pulse count whose read failed.                                *)
(***************************************************************************)
ExitHonest ==
  \A p \in Procs : exit[p] = 0 =>
    /\ Asked(args[p]) \ {"status"} \subseteq did[p] \cup skipped[p]
    /\ skipped[p] \subseteq {"mode", "ppr"}

(* Every run ends, whatever fails. *)
RunEnds ==
  \A p \in Procs : (pc[p][1] # "start") ~> (pc[p][1] = "end")
=============================================================================
