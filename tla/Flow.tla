--------------------------------- MODULE Flow ---------------------------------
(***************************************************************************)
(* A flow's folder and the forge that goes on from it (snax_forge/flow/    *)
(* run.py, forge.py, gen/bundle.py): the stages of a flow write the folder *)
(* out/flow/<name>/ one after the other, over what an earlier flow left;   *)
(* `pixi run forge' then makes the bundle from the folder, its expected    *)
(* lines from the run, and checks that the bundle's program is the flow's. *)
(* Each flow is of a version of the design (the recipe, the platform and   *)
(* every --set); a flow or forge fails at any stage, or is killed.  One    *)
(* flow at a time runs in a folder; forge's later steps are beside it.     *)
(***************************************************************************)
EXTENDS Integers, Sequences, FiniteSets

CONSTANTS
  Versions,   \* of the design; 0 is "not there"
  Flows,      \* bound: the flows
  Forges,     \* bound: the forges, and bundles made alone
  Beside,     \* bound: the flows begun beside a forge's later steps
  Refusing    \* the versions whose bundle the RTL catalogue refuses

ASSUME FlowAssumption ==
  /\ Versions \subseteq Nat \ {0} /\ Flows \in Nat /\ Forges \in Nat /\ Beside \in Nat
  /\ Refusing \subseteq Versions

VARIABLES
  folder,  \* per artefact the version it is of
  elf,     \* sw/forge.elf: the gen/ files it was built from; old: they changed since
  flow,    \* the flow that runs: its version, stage, and who called it
  bundle,  \* the bundle's folder
  forge,   \* the forge, or the bundle made alone, that runs
  flows, forges  \* bounded counters

vars == <<folder, elf, flow, bundle, forge, flows, forges>>

Files == {"log", "report", "sandbox", "design", "tasks", "program", "data",
          "stdout", "record", "profile"}
Failed == -1   \* what flow.log says of a flow that failed
Program == <<folder["program"], folder["data"]>>   \* gen/'s main.c and data.h
NoElf == [of |-> <<0, 0>>, sha |-> <<0, 0>>, old |-> FALSE]

(* The stages in order, after the folder is cleared.                       *)
Stages == <<"clear log", "clear report", "clear run", "sandbox", "design", "lower", "gen", "gen data",
            "sw", "gvsoc", "check", "convert", "report", "log">>

-----------------------------------------------------------------------------
(* A flow.                                                                 *)

Runs == flow.stage > 0
Stage == Stages[flow.stage]
Put(file, v) == folder' = [folder EXCEPT ![file] = v]

Start(v, kind, caller) ==
  /\ ~Runs /\ flows < Flows /\ flows' = flows + 1
  /\ kind = "own" => folder["sandbox"] = v   \* a step's graph of this folder
  /\ flow' = [version |-> v, kind |-> kind, stage |-> 1, caller |-> caller, passed |-> FALSE]
  /\ UNCHANGED <<folder, elf, bundle>>

Advance == flow' = [flow EXCEPT !.stage = IF @ = Len(Stages) THEN 0 ELSE @ + 1]

ClearedShort == IF Stage = "clear log" THEN {"log"} ELSE IF Stage = "clear run" THEN {"stdout", "record", "profile"} ELSE {} \* a mutant
Cleared ==
  CASE Stage = "clear log" -> {"log"}
    [] Stage = "clear report" -> {"report"}
    [] Stage = "clear run" -> {"stdout", "record", "profile"}
Clear ==
  /\ Stage \in {"clear log", "clear report", "clear run"}
  /\ folder' = [f \in Files |-> IF f \in Cleared THEN 0 ELSE folder[f]]
  /\ Advance /\ UNCHANGED elf

(* The sandbox's graphs; none from a bound graph, which clears an earlier  *)
(* flow's unless it is one of them.                                        *)
KeptSandbox == IF flow.kind = "recipe" THEN flow.version ELSE folder["sandbox"] \* a mutant
Sandbox ==
  CASE flow.kind = "recipe" -> flow.version [] flow.kind = "own" -> folder["sandbox"] [] OTHER -> 0

Writes(stage) ==
  CASE stage = "design" -> "design" [] stage = "lower" -> "tasks"
    [] stage = "gen" -> "program" [] stage = "gen data" -> "data"
    [] stage = "check" -> "record" [] stage = "convert" -> "profile" [] stage = "report" -> "report"

WriteStage ==
  /\ Stage \in {"design", "lower", "check", "convert", "report"}
  /\ Put(Writes(Stage), flow.version)
  /\ Advance /\ UNCHANGED elf

SandboxStage == Stage = "sandbox" /\ Put("sandbox", Sandbox) /\ Advance /\ UNCHANGED elf

(* gen writes a file only when it changes, so make keeps the program when  *)
(* nothing did.                                                            *)
Gen ==
  /\ Stage \in {"gen", "gen data"}
  /\ Put(Writes(Stage), flow.version)
  /\ elf' = [elf EXCEPT !.old = @ \/ folder[Writes(Stage)] # flow.version]
  /\ Advance

BuiltOnce == IF elf.of = <<0, 0>> THEN Program ELSE elf.of   \* a mutant
Built == IF elf.of = <<0, 0>> \/ elf.old THEN Program ELSE elf.of
Sw ==
  /\ Stage = "sw"
  /\ elf' = [of |-> Built, sha |-> Built, old |-> FALSE]
  /\ Advance /\ UNCHANGED folder

(* The run: its output, and whether the program's own check passes.        *)
Gvsoc ==
  /\ Stage = "gvsoc"
  /\ Put("stdout", elf.of[1])
  /\ \E ok \in BOOLEAN : flow' = [flow EXCEPT !.stage = @ + 1, !.passed = ok]
  /\ UNCHANGED elf

Done == Stage = "log" /\ Put("log", flow.version) /\ Advance /\ UNCHANGED elf

(* A stage refuses: flow.log says so.                                      *)
Fail ==
  /\ flow.stage > 3 /\ Stage # "log"
  /\ Put("log", Failed)
  /\ flow' = [flow EXCEPT !.stage = 0, !.passed = FALSE]
  /\ UNCHANGED elf

FlowStep ==
  /\ Runs
  /\ Clear \/ SandboxStage \/ WriteStage \/ Gen \/ Sw \/ Gvsoc \/ Done \/ Fail
  /\ UNCHANGED <<bundle, forge, flows, forges>>

KillFlow ==
  /\ Runs /\ flow.caller = "cmd"
  /\ flow' = [flow EXCEPT !.stage = 0, !.passed = FALSE]
  /\ UNCHANGED <<folder, elf, bundle, forge, flows, forges>>

-----------------------------------------------------------------------------
(* The bundle: rtl/ and the expected lines removed, the program's files,   *)
(* rtl/, then bundle.json; with a run, the expected lines and bundle.json  *)
(* again.                                                                  *)

To(step) == forge' = [forge EXCEPT !.step = step]
Stopped == To("failed")
Reads(file) == folder[file] # 0   \* a file that is not there is an OSError

BeginBundle ==
  /\ forge.step = "bundle"
  /\ IF Reads("design")
     THEN /\ bundle' = [bundle EXCEPT !.rtl = 0, !.expected = <<0, 0>>]
          /\ forge' = [forge EXCEPT !.step = "generate", !.point = folder["design"]]
     ELSE Stopped /\ UNCHANGED bundle
Generate == forge.step = "generate" /\ bundle' = [bundle EXCEPT !.root = forge.point] /\ To("rtl")
Rtl ==   \* refused after the program's files are written
  /\ forge.step = "rtl"
  /\ IF forge.point \in Refusing THEN To("refused") /\ UNCHANGED bundle
     ELSE bundle' = [bundle EXCEPT !.rtl = forge.point] /\ To("json")
BundleJson ==
  /\ forge.step = "json"
  /\ bundle' = [bundle EXCEPT !.json = [of |-> forge.point, expected |-> FALSE]]
  /\ To(IF forge.whole THEN "expected" ELSE "over")

(* From the run's output and the design point's fills.                     *)
Expected ==
  /\ forge.step = "expected"
  /\ IF Reads("stdout") /\ Reads("tasks") /\ Reads("design")
     THEN /\ bundle' = [bundle EXCEPT !.expected = <<folder["stdout"], folder["tasks"]>>]
          /\ To("name")
     ELSE Stopped /\ UNCHANGED bundle
Name ==
  /\ forge.step = "name"
  /\ bundle' = [bundle EXCEPT !.json.expected = TRUE] /\ To("sha")

(* run.json's sha of the flow's program, then the bundle's own program.    *)
Sha ==
  /\ forge.step = "sha"
  /\ IF Reads("record") THEN forge' = [forge EXCEPT !.step = "sw", !.sha = elf.sha] ELSE Stopped
  /\ UNCHANGED bundle
MatchesAny == TRUE   \* a mutant
Matches == <<bundle.root, bundle.root>> = forge.sha
ForgeSw ==
  /\ forge.step = "sw"
  /\ To(IF Matches THEN "over" ELSE "failed")
  /\ UNCHANGED bundle

BundleStep ==
  /\ BeginBundle \/ Generate \/ Rtl \/ BundleJson \/ Expected \/ Name \/ Sha \/ ForgeSw
  /\ UNCHANGED <<folder, elf, flow, flows, forges>>

Idle == forge.step \in {"idle", "over", "failed", "refused"}
NewForge(step, whole) == forge' = [step |-> step, whole |-> whole, point |-> 0, sha |-> <<0, 0>>, beside |-> 0]

StartForge(v) ==
  /\ Idle /\ forges < Forges /\ forges' = forges + 1
  /\ Start(v, "recipe", "forge") /\ NewForge("flow", TRUE)
FlowOver ==
  /\ forge.step = "flow" /\ ~Runs
  /\ To(IF flow.passed THEN "bundle" ELSE "failed")
  /\ flow' = [flow EXCEPT !.caller = "cmd"]
  /\ UNCHANGED <<folder, elf, bundle, flows, forges>>
BundleAlone ==
  /\ Idle /\ forges < Forges /\ forges' = forges + 1
  /\ NewForge("bundle", FALSE)
  /\ UNCHANGED <<folder, elf, flow, bundle, flows>>

KillForge ==   \* with the flow it is in
  /\ ~Idle
  /\ Stopped
  /\ flow' = IF forge.step = "flow" THEN [flow EXCEPT !.stage = 0, !.passed = FALSE, !.caller = "cmd"] ELSE flow
  /\ UNCHANGED <<folder, elf, bundle, flows, forges>>

-----------------------------------------------------------------------------
Init ==
  /\ folder = [f \in Files |-> 0] /\ elf = NoElf
  /\ flow = [version |-> 0, kind |-> "recipe", stage |-> 0, caller |-> "cmd", passed |-> FALSE]
  /\ bundle = [root |-> 0, rtl |-> 0, json |-> [of |-> 0, expected |-> FALSE], expected |-> <<0, 0>>]
  /\ forge = [step |-> "idle", whole |-> FALSE, point |-> 0, sha |-> <<0, 0>>, beside |-> 0]
  /\ flows = 0 /\ forges = 0

StartFlow ==
  /\ forge.step # "flow"   \* forge's own flow has the folder
  /\ \E v \in Versions, kind \in {"recipe", "own", "other"} : Start(v, kind, "cmd")
  /\ Idle \/ forge.beside < Beside
  /\ forge' = [forge EXCEPT !.beside = IF Idle THEN @ ELSE @ + 1]
  /\ UNCHANGED forges

Next ==
  \/ StartFlow \/ FlowStep \/ KillFlow
  \/ \E v \in Versions : StartForge(v)
  \/ BundleAlone \/ FlowOver \/ BundleStep \/ KillForge
Spec == Init /\ [][Next]_vars

-----------------------------------------------------------------------------
(* Nothing in the folder is of an earlier flow than what comes before it:  *)
(* after any failures and kills, a log, a report, a profile, a record and  *)
(* an output that are there are of one version with the program, gen/, the *)
(* tasks and the design they came from; and a recipe is never shown beside *)
(* a run that did not come from it.                                        *)
Chain == <<"log", "report", "profile", "record", "stdout", "program", "data", "tasks", "design">>
NothingStale ==
  /\ \A i \in 1 .. 5 : folder[Chain[i]] > 0 =>
       \A j \in i + 1 .. Len(Chain) : folder[Chain[j]] = folder[Chain[i]]
  /\ folder["stdout"] # 0 => elf.of = Program /\ ~elf.old
  /\ folder["stdout"] # 0 => folder["sandbox"] \in {0, folder["stdout"]}

(* When forge says it passed, its bundle, the bundle's RTL and the lines   *)
(* the RTL must print are of one design, though another flow began in the  *)
(* folder after its own: its program's sha is another then, or the bundle  *)
(* and the lines are that flow's too.  Of two flows the first could leave  *)
(* its lines and the second the design's program again.                    *)
ForgeIsOne ==
  forge.step = "over" /\ forge.whole /\ forge.beside <= 1 =>
    \E v \in Versions :
      /\ bundle.root = v /\ bundle.rtl = v /\ bundle.json = [of |-> v, expected |-> TRUE]
      /\ bundle.expected = <<v, v>>

(* After a bundle that was refused, not killed, bundle.json still names    *)
(* the expected lines when the bundle has them only.                       *)
NamesWhatItHas == forge.step = "refused" /\ bundle.json.expected => bundle.expected # <<0, 0>>
=============================================================================
