----------------------------- MODULE FlowProofs -----------------------------
(***************************************************************************)
(* What a flow's folder holds after any failures and kills, and what a     *)
(* forge that passed made from it: for any versions of the design and any  *)
(* number of flows and forges.                                             *)
(***************************************************************************)
EXTENDS Flow, TLAPS

----------------------------------------------------------------------------
(* The inductive invariant.                                                *)

Of == Versions \cup {0}
Kinds == {"recipe", "own", "other"}
Steps == {"idle", "flow", "bundle", "generate", "rtl", "json", "expected", "name", "sha",
          "sw", "over", "failed", "refused"}

FlowType == [version : Of, kind : Kinds, stage : 0 .. 14, caller : {"cmd", "forge"},
             passed : BOOLEAN]
ForgeType == [step : Steps, whole : BOOLEAN, point : Of, sha : Of \X Of, beside : Nat]
BundleType == [root : Of, rtl : Of, json : [of : Of, expected : BOOLEAN],
               expected : Of \X Of]
Typed ==
  /\ folder \in [Files -> Of \cup {Failed}]
  /\ \A f \in Files \ {"log"} : folder[f] \in Of
  /\ elf \in [of : Of \X Of, sha : Of \X Of, old : BOOLEAN]
  /\ flow \in FlowType
  /\ Runs => flow.version \in Versions
  /\ bundle \in BundleType
  /\ forge \in ForgeType

(* What a file that is there says of those it was made from.               *)
Chained ==
  /\ folder["log"] > 0 => folder["report"] = folder["log"]
  /\ folder["report"] > 0 => folder["profile"] = folder["report"]
  /\ folder["profile"] > 0 => folder["record"] = folder["profile"]
  /\ folder["record"] > 0 => folder["stdout"] = folder["record"]
  /\ folder["stdout"] > 0 => /\ folder["program"] = folder["stdout"]
                             /\ folder["data"] = folder["stdout"]
                             /\ folder["tasks"] = folder["stdout"]
                             /\ folder["design"] = folder["stdout"]
                             /\ folder["sandbox"] \in {0, folder["stdout"]}
                             /\ elf.of = Program /\ ~elf.old

(* What a flow at its stage has cleared and not written yet, and written.  *)
NotYet ==
  /\ flow.stage > 1 => folder["log"] = 0
  /\ flow.stage \in 3 .. 13 => folder["report"] = 0
  /\ flow.stage \in 4 .. 12 => folder["profile"] = 0
  /\ flow.stage \in 4 .. 11 => folder["record"] = 0
  /\ flow.stage \in 4 .. 10 => folder["stdout"] = 0
Written ==
  /\ flow.stage \in 1 .. 4 /\ flow.kind = "own" => folder["sandbox"] = flow.version
  /\ flow.stage > 4 => folder["sandbox"] \in {0, flow.version}
  /\ flow.stage > 5 => folder["design"] = flow.version
  /\ flow.stage > 6 => folder["tasks"] = flow.version
  /\ flow.stage > 7 => folder["program"] = flow.version
  /\ flow.stage > 8 => folder["data"] = flow.version
  /\ flow.stage > 9 => elf.of = Program /\ ~elf.old
  /\ flow.stage > 10 => folder["stdout"] = flow.version
  /\ flow.stage > 11 => folder["record"] = flow.version
  /\ flow.stage > 12 => folder["profile"] = flow.version
  /\ flow.stage > 13 => folder["report"] = flow.version

(* The program is what make made of gen/, unless gen/ changed since.       *)
ElfFresh ==
  /\ elf.sha = elf.of
  /\ elf.of = <<0, 0>> \/ elf.old \/ elf.of = Program

FolderInv == Typed /\ Chained /\ NotYet /\ Written /\ ElfFresh

(* A whole forge after its own flow: no other runs in the folder until one *)
(* begins beside it, the folder's design is its point until that one       *)
(* writes its own, and lines of another design are in the bundle only when *)
(* the program that stays in the folder is that design's too.              *)
Goes(steps) == forge.whole /\ forge.step \in steps
Alone == forge.beside = 0 \/ (forge.beside = 1 /\ flow.stage \in 1 .. 5)
Lines == <<forge.point, forge.point>>
ForgeInv ==
  /\ forge.step = "flow" => forge.beside = 0
  /\ Goes({"bundle", "generate", "rtl", "json", "expected", "name", "sha", "sw"})
       /\ forge.beside = 0 => ~Runs
  /\ Goes({"generate", "rtl", "json", "expected", "name", "sha", "sw", "over"})
       => forge.point \in Versions
  /\ Goes({"generate", "rtl", "json", "expected"}) /\ Alone => folder["design"] = forge.point
  /\ Goes({"rtl", "json", "expected", "name", "sha", "sw", "over"}) => bundle.root = forge.point
  /\ Goes({"json", "expected", "name", "sha", "sw", "over"}) => bundle.rtl = forge.point
  /\ Goes({"expected", "name", "sha", "sw", "over"}) => bundle.json.of = forge.point
  /\ Goes({"sha", "sw", "over"}) => bundle.json.expected
  /\ Goes({"name", "sha"}) /\ forge.beside <= 1 =>
       \/ bundle.expected = Lines
       \/ /\ elf.sha = bundle.expected /\ forge.beside = 1
          /\ Runs => flow.stage > 10
  /\ Goes({"sw"}) /\ forge.beside <= 1 =>
       bundle.expected = Lines \/ forge.sha = bundle.expected
  /\ Goes({"over"}) /\ forge.beside <= 1 => bundle.expected = Lines

----------------------------------------------------------------------------
LEMMA FlowSet ==
  ASSUME NEW r \in FlowType, NEW n \in 0 .. 14, NEW ok \in BOOLEAN, NEW m, NEW q,
         m = [r EXCEPT !.stage = n], q = [m EXCEPT !.passed = ok]
  PROVE  /\ q \in FlowType /\ q.stage = n /\ q.passed = ok
         /\ q.version = r.version /\ q.kind = r.kind /\ q.caller = r.caller
<1> DEFINE s == [version |-> r.version, kind |-> r.kind, stage |-> n, caller |-> r.caller,
                 passed |-> ok]
<1>1. r = [version |-> r.version, kind |-> r.kind, stage |-> r.stage, caller |-> r.caller,
           passed |-> r.passed]
  BY DEF FlowType
<1>2. q = s
  <2>1. m = [version |-> r.version, kind |-> r.kind, stage |-> n, caller |-> r.caller,
             passed |-> r.passed]
    BY <1>1
  <2>2. QED BY <2>1
<1>3. s \in FlowType
  BY DEF FlowType
<1>4. QED BY <1>2, <1>3

LEMMA FlowStops ==
  ASSUME NEW r \in FlowType, NEW q, q = [r EXCEPT !.stage = 0, !.passed = FALSE]
  PROVE  q \in FlowType /\ q.stage = 0
<1> PICK ok \in BOOLEAN : ok = FALSE
  OBVIOUS
<1>1. r = [version |-> r.version, kind |-> r.kind, stage |-> r.stage, caller |-> r.caller,
           passed |-> r.passed]
  BY DEF FlowType
<1>2. q = [version |-> r.version, kind |-> r.kind, stage |-> 0, caller |-> r.caller, passed |-> ok]
  <2>1. PICK m : m = [r EXCEPT !.stage = 0]
    OBVIOUS
  <2>2. m = [version |-> r.version, kind |-> r.kind, stage |-> 0, caller |-> r.caller,
             passed |-> r.passed]
    BY <1>1, <2>1
  <2>3. q = [m EXCEPT !.passed = ok]
    BY <2>1
  <2>4. QED BY <2>2, <2>3
<1>3. /\ r.version \in Of /\ r.kind \in Kinds /\ r.caller \in {"cmd", "forge"}
      /\ 0 \in 0 .. 14
  BY DEF FlowType
<1>4. QED BY <1>2, <1>3 DEF FlowType

LEMMA StagesAre ==
  ASSUME Typed, Runs
  PROVE  /\ Stage = "clear log" <=> flow.stage = 1
         /\ Stage = "clear report" <=> flow.stage = 2
         /\ Stage = "clear run" <=> flow.stage = 3
         /\ Stage = "sandbox" <=> flow.stage = 4
         /\ Stage = "design" <=> flow.stage = 5
         /\ Stage = "lower" <=> flow.stage = 6
         /\ Stage = "gen" <=> flow.stage = 7
         /\ Stage = "gen data" <=> flow.stage = 8
         /\ Stage = "sw" <=> flow.stage = 9
         /\ Stage = "gvsoc" <=> flow.stage = 10
         /\ Stage = "check" <=> flow.stage = 11
         /\ Stage = "convert" <=> flow.stage = 12
         /\ Stage = "report" <=> flow.stage = 13
         /\ Stage = "log" <=> flow.stage = 14
         /\ flow.stage \in 1 .. 14 /\ Len(Stages) = 14
<1>1. flow.stage \in 1 .. 14
  BY DEF Typed, FlowType, Runs
<1>2. Len(Stages) = 14
  BY DEF Stages
<1>3. /\ Stages[1] = "clear log" /\ Stages[2] = "clear report"
      /\ Stages[3] = "clear run" /\ Stages[4] = "sandbox"
      /\ Stages[5] = "design" /\ Stages[6] = "lower"
      /\ Stages[7] = "gen" /\ Stages[8] = "gen data"
      /\ Stages[9] = "sw" /\ Stages[10] = "gvsoc"
      /\ Stages[11] = "check" /\ Stages[12] = "convert"
      /\ Stages[13] = "report" /\ Stages[14] = "log"
  BY DEF Stages
<1>4. Stage = Stages[flow.stage]
  BY DEF Stage
<1> DEFINE n == flow.stage
           st == Stage
<1>5. /\ n = 1 => st = "clear log"
      /\ n = 2 => st = "clear report"
      /\ n = 3 => st = "clear run"
      /\ n = 4 => st = "sandbox"
      /\ n = 5 => st = "design"
      /\ n = 6 => st = "lower"
      /\ n = 7 => st = "gen"
      /\ n = 8 => st = "gen data"
      /\ n = 9 => st = "sw"
      /\ n = 10 => st = "gvsoc"
      /\ n = 11 => st = "check"
      /\ n = 12 => st = "convert"
      /\ n = 13 => st = "report"
      /\ n = 14 => st = "log"
  BY <1>3, <1>4
<1> HIDE DEF n, st
<1>6. n = 1 \/ n = 2 \/ n = 3 \/ n = 4 \/ n = 5 \/ n = 6 \/ n = 7
      \/ n = 8 \/ n = 9 \/ n = 10 \/ n = 11 \/ n = 12 \/ n = 13 \/ n = 14
  BY <1>1 DEF n
<1>7. /\ st = "clear log" <=> n = 1
      /\ st = "clear report" <=> n = 2
      /\ st = "clear run" <=> n = 3
      /\ st = "sandbox" <=> n = 4
      /\ st = "design" <=> n = 5
      /\ st = "lower" <=> n = 6
      /\ st = "gen" <=> n = 7
      /\ st = "gen data" <=> n = 8
      /\ st = "sw" <=> n = 9
      /\ st = "gvsoc" <=> n = 10
      /\ st = "check" <=> n = 11
      /\ st = "convert" <=> n = 12
      /\ st = "report" <=> n = 13
      /\ st = "log" <=> n = 14
  BY <1>5, <1>6
<1>8. QED BY <1>1, <1>2, <1>7 DEF n, st

(* What an advancing flow keeps: all but its stage.                        *)
LEMMA Advances ==
  ASSUME Typed, Runs, Advance
  PROVE  /\ flow'.stage = IF flow.stage = 14 THEN 0 ELSE flow.stage + 1
         /\ flow'.version = flow.version /\ flow'.kind = flow.kind
         /\ flow' \in FlowType
         /\ flow.version \in Versions
<1>1. flow \in FlowType
      /\ Len(Stages) = 14 /\ flow.version \in Versions
  BY StagesAre DEF Typed
<1>2. flow' = [flow EXCEPT !.stage = IF @ = 14 THEN 0 ELSE @ + 1]
  BY <1>1 DEF Advance
<1>3. QED BY <1>1, <1>2 DEF FlowType

LEMMA FilesAre ==
  ASSUME Typed
  PROVE  /\ \A f \in Files \ {"log"} : folder[f] \in Of
         /\ Of \subseteq Nat /\ 0 \in Of /\ Versions \subseteq Of
         /\ \A v \in Versions : v \in Nat /\ v > 0
         /\ folder["log"] \in Of \cup {-1} /\ DOMAIN folder = Files
  BY FlowAssumption DEF Typed, Of, Failed, Files

(* Clearing: the files of the stage go, and nothing else changes.          *)
LEMMA ClearKeeps ==
  ASSUME FolderInv, Runs, Clear
  PROVE  /\ folder' \in [Files -> Of \cup {Failed}]
         /\ \A f \in Files \ {"log"} : folder'[f] \in Of
         /\ Chained' /\ NotYet' /\ Written' /\ ElfFresh'
<1>1. /\ flow'.stage = flow.stage + 1 /\ flow'.version = flow.version
      /\ flow'.kind = flow.kind /\ flow.stage \in 1 .. 3
      /\ flow.stage = 1 => Cleared = {"log"}
      /\ flow.stage = 2 => Cleared = {"report"}
      /\ flow.stage = 3 => Cleared = {"stdout", "record", "profile"}
      /\ elf' = elf
  <2>1. Typed /\ Advance /\ elf' = elf
    BY DEF FolderInv, Clear
  <2>2. flow.stage = 1 \/ flow.stage = 2 \/ flow.stage = 3
    BY <2>1, StagesAre DEF Clear
  <2>3. /\ Stage = "clear log" <=> flow.stage = 1
        /\ Stage = "clear report" <=> flow.stage = 2
        /\ Stage = "clear run" <=> flow.stage = 3
    BY <2>1, StagesAre
  <2>4. /\ flow.stage = 1 => Cleared = {"log"}
        /\ flow.stage = 2 => Cleared = {"report"}
        /\ flow.stage = 3 => Cleared = {"stdout", "record", "profile"}
    BY <2>2, <2>3 DEF Cleared
  <2>5. QED BY <2>1, <2>2, <2>4, Advances
<1>2. folder' = [f \in Files |-> IF f \in Cleared THEN 0 ELSE folder[f]]
  BY DEF Clear
<1>3. /\ folder' \in [Files -> Of \cup {Failed}]
      /\ \A f \in Files \ {"log"} : folder'[f] \in Of
  BY <1>2, FilesAre DEF FolderInv, Typed
<1>4. \A f \in Files : folder'[f] = IF f \in Cleared THEN 0 ELSE folder[f]
  BY <1>2
<1>5. CASE flow.stage = 1
  <2>1. /\ folder'["log"] = 0
        /\ \A f \in Files \ {"log"} : folder'[f] = folder[f]
    BY <1>1, <1>4, <1>5 DEF Files
  <2>2. QED BY <1>1, <1>3, <1>5, <2>1
            DEF FolderInv, Files, Chained, NotYet, Written, ElfFresh, Program
<1>6. CASE flow.stage = 2
  <2>1. /\ folder'["report"] = 0
        /\ \A f \in Files \ {"report"} : folder'[f] = folder[f]
    BY <1>1, <1>4, <1>6 DEF Files
  <2>2. QED BY <1>1, <1>3, <1>6, <2>1
            DEF FolderInv, Files, Chained, NotYet, Written, ElfFresh, Program
<1>7. CASE flow.stage = 3
  <2>1. /\ folder'["stdout"] = 0 /\ folder'["record"] = 0 /\ folder'["profile"] = 0
        /\ \A f \in Files \ {"stdout", "record", "profile"} : folder'[f] = folder[f]
    BY <1>1, <1>4, <1>7 DEF Files
  <2>2. QED BY <1>1, <1>3, <1>7, <2>1
            DEF FolderInv, Files, Chained, NotYet, Written, ElfFresh, Program
<1>8. QED BY <1>1, <1>3, <1>5, <1>6, <1>7

(* A stage writes its own file and no other.                               *)
LEMMA PutIs ==
  ASSUME Typed, NEW file \in Files, NEW w \in Of, Put(file, w)
  PROVE  /\ folder' \in [Files -> Of \cup {Failed}]
         /\ \A f \in Files \ {"log"} : folder'[f] \in Of
         /\ folder'[file] = w /\ \A f \in Files \ {file} : folder'[f] = folder[f]
BY FilesAre DEF Put, Typed

LEMMA SandboxKeeps ==
  ASSUME FolderInv, Runs, SandboxStage
  PROVE  /\ folder' \in [Files -> Of \cup {Failed}]
         /\ \A f \in Files \ {"log"} : folder'[f] \in Of
         /\ Chained' /\ NotYet' /\ Written' /\ ElfFresh'
<1>1. /\ flow.stage = 4 /\ flow'.stage = 5 /\ flow'.version = flow.version
      /\ Typed /\ elf' = elf
  BY StagesAre, Advances DEF FolderInv, SandboxStage
<1>2. Sandbox \in {0, flow.version} /\ Sandbox \in Of
  BY <1>1, FilesAre DEF FolderInv, Written, Sandbox, Typed
<1>3. /\ folder' \in [Files -> Of \cup {Failed}]
      /\ \A f \in Files \ {"log"} : folder'[f] \in Of
      /\ folder'["sandbox"] = Sandbox
      /\ \A f \in Files \ {"sandbox"} : folder'[f] = folder[f]
  <2>1. Put("sandbox", Sandbox) /\ "sandbox" \in Files
    BY DEF SandboxStage, Files
  <2>2. QED BY <1>1, <1>2, <2>1, PutIs
<1>4. QED BY <1>1, <1>2, <1>3
          DEF FolderInv, Files, Chained, NotYet, Written, ElfFresh, Program

LEMMA WriteKeeps ==
  ASSUME FolderInv, Runs, WriteStage
  PROVE  /\ folder' \in [Files -> Of \cup {Failed}]
         /\ \A f \in Files \ {"log"} : folder'[f] \in Of
         /\ Chained' /\ NotYet' /\ Written' /\ ElfFresh'
<1>1. /\ flow'.stage = flow.stage + 1 /\ flow'.version = flow.version
      /\ flow'.kind = flow.kind /\ flow.version \in Versions
      /\ \/ flow.stage = 5 /\ Writes(Stage) = "design"
         \/ flow.stage = 6 /\ Writes(Stage) = "tasks"
         \/ flow.stage = 11 /\ Writes(Stage) = "record"
         \/ flow.stage = 12 /\ Writes(Stage) = "profile"
         \/ flow.stage = 13 /\ Writes(Stage) = "report"
      /\ Typed /\ elf' = elf /\ Put(Writes(Stage), flow.version)
  <2>1. Typed /\ Advance /\ elf' = elf /\ Put(Writes(Stage), flow.version)
    BY DEF FolderInv, WriteStage
  <2>2. \/ flow.stage = 5 /\ Writes(Stage) = "design"
        \/ flow.stage = 6 /\ Writes(Stage) = "tasks"
        \/ flow.stage = 11 /\ Writes(Stage) = "record"
        \/ flow.stage = 12 /\ Writes(Stage) = "profile"
        \/ flow.stage = 13 /\ Writes(Stage) = "report"
    BY <2>1, StagesAre DEF WriteStage, Writes
  <2>3. QED BY <2>1, <2>2, Advances
<1> DEFINE file == Writes(Stage)
<1>2. file \in Files /\ file # "log"
  BY <1>1 DEF Files
<1>3. /\ folder' \in [Files -> Of \cup {Failed}]
      /\ \A f \in Files \ {"log"} : folder'[f] \in Of
      /\ folder'[file] = flow.version
      /\ \A f \in Files \ {file} : folder'[f] = folder[f]
  BY <1>1, <1>2, FilesAre, PutIs
<1> HIDE DEF file
<1>4. flow.version > 0 /\ flow.version \in Nat
  BY <1>1, FilesAre
<1>5. CASE flow.stage = 5 /\ file = "design"
  BY <1>1, <1>3, <1>5 DEF FolderInv, Files, Chained, NotYet, Written, ElfFresh, Program
<1>6. CASE flow.stage = 6 /\ file = "tasks"
  BY <1>1, <1>3, <1>6 DEF FolderInv, Files, Chained, NotYet, Written, ElfFresh, Program
<1>7. CASE flow.stage = 11 /\ file = "record"
  BY <1>1, <1>3, <1>7 DEF FolderInv, Files, Chained, NotYet, Written, ElfFresh, Program
<1>8. CASE flow.stage = 12 /\ file = "profile"
  BY <1>1, <1>3, <1>8 DEF FolderInv, Files, Chained, NotYet, Written, ElfFresh, Program
<1>9. CASE flow.stage = 13 /\ file = "report"
  BY <1>1, <1>3, <1>9 DEF FolderInv, Files, Chained, NotYet, Written, ElfFresh, Program
<1>10. QED BY <1>1, <1>3, <1>5, <1>6, <1>7, <1>8, <1>9 DEF file

(* gen marks the program old exactly when it changes one of its files.     *)
LEMMA GenKeeps ==
  ASSUME FolderInv, Runs, Gen
  PROVE  /\ folder' \in [Files -> Of \cup {Failed}]
         /\ \A f \in Files \ {"log"} : folder'[f] \in Of
         /\ elf' \in [of : Of \X Of, sha : Of \X Of, old : BOOLEAN]
         /\ Chained' /\ NotYet' /\ Written' /\ ElfFresh'
<1> DEFINE file == Writes(Stage)
<1>1. /\ flow'.stage = flow.stage + 1 /\ flow'.version = flow.version
      /\ flow'.kind = flow.kind /\ flow.version \in Versions
      /\ (flow.stage = 7 /\ file = "program") \/ (flow.stage = 8 /\ file = "data")
      /\ Typed /\ Put(file, flow.version)
  <2>1. Typed /\ Advance /\ Put(file, flow.version)
    BY DEF FolderInv, Gen
  <2>2. (flow.stage = 7 /\ file = "program") \/ (flow.stage = 8 /\ file = "data")
    BY <2>1, StagesAre DEF Gen, Writes
  <2>3. QED BY <2>1, <2>2, Advances
<1>2. file \in Files /\ file # "log"
  BY <1>1 DEF Files
<1>3. /\ folder' \in [Files -> Of \cup {Failed}]
      /\ \A f \in Files \ {"log"} : folder'[f] \in Of
      /\ folder'[file] = flow.version
      /\ \A f \in Files \ {file} : folder'[f] = folder[f]
  BY <1>1, <1>2, FilesAre, PutIs
<1>4. /\ elf'.of = elf.of /\ elf'.sha = elf.sha
      /\ elf'.old <=> elf.old \/ folder[file] # flow.version
      /\ elf' \in [of : Of \X Of, sha : Of \X Of, old : BOOLEAN]
  <2>1. elf' = [elf EXCEPT !.old = @ \/ folder[Writes(Stage)] # flow.version]
    BY DEF Gen
  <2>2. elf \in [of : Of \X Of, sha : Of \X Of, old : BOOLEAN]
    BY <1>1 DEF Typed
  <2>3. QED BY <2>1, <2>2
<1> HIDE DEF file
<1>5. flow.version > 0 /\ flow.version \in Nat
  BY <1>1, FilesAre
<1>6. CASE flow.stage = 7 /\ file = "program"
  BY <1>1, <1>3, <1>4, <1>6
     DEF FolderInv, Files, Chained, NotYet, Written, ElfFresh, Program
<1>7. CASE flow.stage = 8 /\ file = "data"
  BY <1>1, <1>3, <1>4, <1>7
     DEF FolderInv, Files, Chained, NotYet, Written, ElfFresh, Program
<1>8. QED BY <1>1, <1>3, <1>4, <1>6, <1>7

(* make builds the program again unless it is of these files.              *)
LEMMA SwKeeps ==
  ASSUME FolderInv, Runs, Sw
  PROVE  /\ elf' \in [of : Of \X Of, sha : Of \X Of, old : BOOLEAN]
         /\ Chained' /\ NotYet' /\ Written' /\ ElfFresh'
<1>1. /\ flow.stage = 9 /\ flow'.stage = 10 /\ flow'.version = flow.version
      /\ flow.version \in Versions /\ Typed /\ folder' = folder
      /\ elf' = [of |-> Built, sha |-> Built, old |-> FALSE]
  BY StagesAre, Advances DEF FolderInv, Sw
<1>2. Built = Program
  BY DEF Built, FolderInv, ElfFresh
<1>3. Program' = Program /\ Program \in Of \X Of
  BY <1>1, FilesAre DEF Program, Files
<1>4. elf'.of = Program /\ elf'.sha = Program /\ ~elf'.old
  BY <1>1, <1>2
<1>5. QED BY <1>1, <1>2, <1>3, <1>4
          DEF FolderInv, Chained, NotYet, Written, ElfFresh

LEMMA GvsocKeeps ==
  ASSUME FolderInv, Runs, Gvsoc
  PROVE  /\ folder' \in [Files -> Of \cup {Failed}]
         /\ \A f \in Files \ {"log"} : folder'[f] \in Of
         /\ flow' \in FlowType
         /\ flow'.version \in Versions
         /\ Chained' /\ NotYet' /\ Written' /\ ElfFresh'
<1>1. Typed /\ flow.stage = 10 /\ elf' = elf /\ flow.version \in Versions
      /\ Put("stdout", elf.of[1]) /\ "stdout" \in Files
  BY StagesAre DEF FolderInv, Gvsoc, Typed, Files
<1>2. /\ flow'.stage = 11 /\ flow'.version = flow.version /\ flow'.kind = flow.kind
      /\ flow' \in FlowType
  <2>1. PICK ok \in BOOLEAN : flow' = [flow EXCEPT !.stage = @ + 1, !.passed = ok]
    BY DEF Gvsoc
  <2>2. flow \in FlowType
    BY <1>1 DEF Typed
  <2>3. flow.stage + 1 = 11 /\ 11 \in 0 .. 14
    BY <1>1
  <2>4. flow' = [flow EXCEPT !.stage = 11, !.passed = ok]
    BY <2>1, <2>3
  <2>5. PICK m : m = [flow EXCEPT !.stage = 11]
    OBVIOUS
  <2>6. flow' = [m EXCEPT !.passed = ok]
    BY <2>4, <2>5
  <2>7. flow = [version |-> flow.version, kind |-> flow.kind, stage |-> flow.stage,
                caller |-> flow.caller, passed |-> flow.passed]
    BY <2>2 DEF FlowType
  <2>8. m = [version |-> flow.version, kind |-> flow.kind, stage |-> 11,
             caller |-> flow.caller, passed |-> flow.passed]
    BY <2>5, <2>7
  <2>9. flow' = [version |-> flow.version, kind |-> flow.kind, stage |-> 11,
                 caller |-> flow.caller, passed |-> ok]
    BY <2>6, <2>8
  <2>10. ok \in BOOLEAN
    BY <2>1
  <2>11. QED BY <2>2, <2>9, <2>10 DEF FlowType
<1>3. elf.of[1] = flow.version
  BY <1>1 DEF FolderInv, Written, Program
<1>4. /\ folder' \in [Files -> Of \cup {Failed}]
      /\ \A f \in Files \ {"log"} : folder'[f] \in Of
      /\ folder'["stdout"] = flow.version
      /\ \A f \in Files \ {"stdout"} : folder'[f] = folder[f]
  BY <1>1, <1>3, FilesAre, PutIs
<1>5. flow.version > 0 /\ flow.version \in Nat
  BY <1>1, FilesAre
<1>6. QED BY <1>1, <1>2, <1>4, <1>5
          DEF FolderInv, Files, Chained, NotYet, Written, ElfFresh, Program

(* A flow ends: flow.log names its version, or says that it failed.        *)
LEMMA EndKeeps ==
  ASSUME FolderInv, Runs, Done \/ Fail
  PROVE  /\ folder' \in [Files -> Of \cup {Failed}]
         /\ \A f \in Files \ {"log"} : folder'[f] \in Of
         /\ flow' \in FlowType
         /\ ~Runs'
         /\ Chained' /\ NotYet' /\ Written' /\ ElfFresh'
<1>1. /\ flow.stage \in 1 .. 14 /\ flow.version \in Versions /\ elf' = elf /\ Typed
      /\ flow'.stage = 0
      /\ flow' \in FlowType
  <2>1. Typed /\ elf' = elf
    BY DEF FolderInv, Done, Fail
  <2>2. CASE Done
    BY <2>1, <2>2, StagesAre, Advances DEF Done
  <2>3. CASE Fail
    <3>1. flow \in FlowType
          /\ flow.version \in Versions /\ flow.stage \in 1 .. 14
      BY <2>1, StagesAre DEF Typed
    <3>2. flow' = [flow EXCEPT !.stage = 0, !.passed = FALSE]
      BY <2>3 DEF Fail
    <3>3. flow' \in FlowType /\ flow'.stage = 0
      BY <3>1, <3>2, FlowStops
    <3>4. QED BY <2>1, <3>1, <3>3
  <2>4. QED BY <2>1, <2>2, <2>3
<1>2. /\ folder' \in [Files -> Of \cup {Failed}]
      /\ \A f \in Files \ {"log"} : folder'[f] \in Of
      /\ \A f \in Files \ {"log"} : folder'[f] = folder[f]
      /\ folder'["log"] = -1 \/ (flow.stage = 14 /\ folder'["log"] = flow.version)
  <2>1. CASE Done
    <3>1. Put("log", flow.version) /\ "log" \in Files /\ flow.stage = 14
      BY <1>1, <2>1, StagesAre DEF Done, Files
    <3>2. QED BY <1>1, <3>1, FilesAre, PutIs
  <2>2. CASE Fail
    <3>1. Put("log", -1) /\ "log" \in Files
      BY <2>2 DEF Fail, Failed, Files
    <3>2. QED BY <1>1, <3>1, FilesAre DEF Put, Typed, Failed
  <2>3. QED BY <2>1, <2>2
<1>3. flow.version > 0 /\ flow.version \in Nat
  BY <1>1, FilesAre
<1>4. QED BY <1>1, <1>2, <1>3
          DEF FolderInv, Files, Chained, NotYet, Written, ElfFresh, Program, Runs

(* Anything but a step of the flow leaves the folder alone; a flow begins  *)
(* with nothing done, or stops where it is.                                *)
LEMMA FolderStands ==
  ASSUME FolderInv, UNCHANGED <<folder, elf>>,
         \/ flow'.stage = 0
         \/ flow'.stage = 1 /\ (flow'.kind = "own" => folder["sandbox"] = flow'.version)
         \/ flow'.stage = flow.stage /\ flow'.version = flow.version /\ flow'.kind = flow.kind
  PROVE  Chained' /\ NotYet' /\ Written' /\ ElfFresh'
<1>1. folder' = folder /\ elf' = elf /\ Program' = Program
  BY DEF Program
<1>2. CASE flow'.stage = 0
  BY <1>1, <1>2 DEF FolderInv, Chained, NotYet, Written, ElfFresh
<1>3. CASE flow'.stage = 1 /\ (flow'.kind = "own" => folder["sandbox"] = flow'.version)
  BY <1>1, <1>3 DEF FolderInv, Chained, NotYet, Written, ElfFresh
<1>4. CASE flow'.stage = flow.stage /\ flow'.version = flow.version /\ flow'.kind = flow.kind
  BY <1>1, <1>4 DEF FolderInv, Chained, NotYet, Written, ElfFresh
<1>5. QED BY <1>2, <1>3, <1>4

----------------------------------------------------------------------------
(* The forge's steps, field by field.                                      *)

LEMMA ForgeTo ==
  ASSUME NEW r \in ForgeType, NEW step \in Steps, NEW q, q = [r EXCEPT !.step = step]
  PROVE  /\ q \in ForgeType /\ q.step = step
         /\ q.whole = r.whole /\ q.point = r.point /\ q.sha = r.sha /\ q.beside = r.beside
<1>1. r = [step |-> r.step, whole |-> r.whole, point |-> r.point, sha |-> r.sha,
           beside |-> r.beside]
  BY DEF ForgeType
<1>2. q = [step |-> step, whole |-> r.whole, point |-> r.point, sha |-> r.sha,
           beside |-> r.beside]
  BY <1>1
<1>3. QED BY <1>2 DEF ForgeType

LEMMA BundleFields ==
  ASSUME NEW r \in BundleType
  PROVE  r = [root |-> r.root, rtl |-> r.rtl,
              json |-> [of |-> r.json.of, expected |-> r.json.expected],
              expected |-> r.expected]
<1>1. r = [root |-> r.root, rtl |-> r.rtl, json |-> r.json, expected |-> r.expected]
  BY DEF BundleType
<1>2. r.json \in [of : Of, expected : BOOLEAN]
  BY DEF BundleType
<1>3. r.json = [of |-> r.json.of, expected |-> r.json.expected]
  BY <1>2
<1>4. QED BY <1>1, <1>3

(* What a forge's or bundle's step does, for the steps that are taken.     *)
LEMMA BundleSteps ==
  ASSUME Typed, BundleStep
  PROVE  /\ bundle' \in BundleType /\ forge' \in ForgeType
         /\ forge'.whole = forge.whole /\ forge'.beside = forge.beside
         /\ UNCHANGED <<folder, elf, flow>>
         /\ \/ forge'.step \in {"failed", "refused"}
            \/ /\ forge.step = "bundle" /\ forge'.step = "generate"
               /\ forge'.point = folder["design"] /\ folder["design"] # 0
            \/ /\ forge'.point = forge.point /\ forge.step = "generate" /\ forge'.step = "rtl"
               /\ bundle'.root = forge.point
            \/ /\ forge'.point = forge.point /\ forge.step = "rtl" /\ forge'.step = "json"
               /\ bundle'.root = bundle.root /\ bundle'.rtl = forge.point
            \/ /\ forge'.point = forge.point /\ forge.step = "json"
               /\ forge'.step = IF forge.whole THEN "expected" ELSE "over"
               /\ bundle'.root = bundle.root /\ bundle'.rtl = bundle.rtl
               /\ bundle'.json.of = forge.point
            \/ /\ forge'.point = forge.point /\ forge.step = "expected" /\ forge'.step = "name"
               /\ bundle'.root = bundle.root /\ bundle'.rtl = bundle.rtl
               /\ bundle'.json = bundle.json
               /\ bundle'.expected = <<folder["stdout"], folder["tasks"]>>
               /\ folder["stdout"] # 0
            \/ /\ forge'.point = forge.point /\ forge.step = "name" /\ forge'.step = "sha"
               /\ bundle'.root = bundle.root /\ bundle'.rtl = bundle.rtl
               /\ bundle'.json = [of |-> bundle.json.of, expected |-> TRUE]
               /\ bundle'.expected = bundle.expected
            \/ /\ forge'.point = forge.point /\ forge.step = "sha" /\ forge'.step = "sw"
               /\ bundle' = bundle /\ forge'.sha = elf.sha /\ folder["record"] # 0
            \/ /\ forge'.point = forge.point /\ forge.step = "sw" /\ forge'.step = "over"
               /\ bundle' = bundle /\ forge'.sha = forge.sha
               /\ forge.sha = <<bundle.root, bundle.root>>
<1> DEFINE R(root, rtl, of, exp, lines) ==
      [root |-> root, rtl |-> rtl, json |-> [of |-> of, expected |-> exp], expected |-> lines]
<1>1. /\ forge \in ForgeType /\ bundle \in BundleType /\ UNCHANGED <<folder, elf, flow>>
      /\ elf.sha \in Of \X Of /\ 0 \in Of /\ forge.point \in Of /\ forge.whole \in BOOLEAN
      /\ folder["design"] \in Of /\ folder["stdout"] \in Of /\ folder["tasks"] \in Of
  BY FilesAre DEF Typed, BundleStep, Files, ForgeType
<1>2. bundle = R(bundle.root, bundle.rtl, bundle.json.of, bundle.json.expected, bundle.expected)
      /\ bundle.root \in Of /\ bundle.rtl \in Of /\ bundle.json.of \in Of
      /\ bundle.json.expected \in BOOLEAN /\ bundle.expected \in Of \X Of
  <2>1. bundle = R(bundle.root, bundle.rtl, bundle.json.of, bundle.json.expected, bundle.expected)
    BY <1>1, BundleFields
  <2>2. bundle.json \in [of : Of, expected : BOOLEAN]
    BY <1>1 DEF BundleType
  <2>3. QED BY <1>1, <2>1, <2>2 DEF BundleType
<1>3. \A root, rtl, of \in Of : \A exp \in BOOLEAN : \A lines \in Of \X Of :
        R(root, rtl, of, exp, lines) \in BundleType
  BY DEF BundleType
<1>4. \A step \in Steps : To(step) =>
        /\ forge' \in ForgeType /\ forge'.step = step
        /\ forge'.whole = forge.whole /\ forge'.point = forge.point /\ forge'.sha = forge.sha
        /\ forge'.beside = forge.beside
  BY <1>1, ForgeTo DEF To
<1>5. Stopped => /\ forge' \in ForgeType /\ forge'.step = "failed"
                 /\ forge'.whole = forge.whole /\ forge'.beside = forge.beside
  BY <1>4 DEF Stopped, Steps
<1>6. CASE BeginBundle
  <2>1. forge.step = "bundle"
    BY <1>6 DEF BeginBundle
  <2>2. CASE ~Reads("design")
    <3>1. Stopped /\ bundle' = bundle
      BY <1>6, <2>2 DEF BeginBundle
    <3>2. QED BY <1>1, <1>5, <3>1
  <2>3. CASE Reads("design")
    <3>1. /\ bundle' = [bundle EXCEPT !.rtl = 0, !.expected = <<0, 0>>]
          /\ forge' = [forge EXCEPT !.step = "generate", !.point = folder["design"]]
      BY <1>6, <2>3 DEF BeginBundle
    <3>2. PICK m : m = [bundle EXCEPT !.rtl = 0]
      OBVIOUS
    <3>3. bundle' = [m EXCEPT !.expected = <<0, 0>>]
      BY <3>1, <3>2
    <3>4. m = R(bundle.root, 0, bundle.json.of, bundle.json.expected, bundle.expected)
      BY <1>2, <3>2
    <3>5. bundle' = R(bundle.root, 0, bundle.json.of, bundle.json.expected, <<0, 0>>)
      BY <3>3, <3>4
    <3>6. PICK n : n = [forge EXCEPT !.step = "generate"]
      OBVIOUS
    <3>7. forge' = [n EXCEPT !.point = folder["design"]]
      BY <3>1, <3>6
    <3>8. /\ n \in ForgeType /\ n.step = "generate" /\ n.whole = forge.whole
          /\ n.beside = forge.beside
      BY <1>1, <3>6, ForgeTo DEF Steps
    <3>9. /\ forge' \in ForgeType /\ forge'.step = "generate"
          /\ forge'.whole = forge.whole /\ forge'.beside = forge.beside
          /\ forge'.point = folder["design"]
      BY <1>1, <3>7, <3>8 DEF ForgeType
    <3>10. folder["design"] # 0
      BY <2>3 DEF Reads
    <3>11. bundle' \in BundleType
      BY <1>1, <1>2, <1>3, <3>5
    <3>12. QED BY <1>1, <2>1, <3>9, <3>10, <3>11
  <2>4. QED BY <2>2, <2>3
<1>7. CASE Generate
  <2>1. forge.step = "generate" /\ bundle' = [bundle EXCEPT !.root = forge.point] /\ To("rtl")
    BY <1>7 DEF Generate
  <2>2. bundle' = R(forge.point, bundle.rtl, bundle.json.of, bundle.json.expected, bundle.expected)
    BY <1>2, <2>1
  <2>3. bundle' \in BundleType /\ bundle'.root = forge.point
    BY <1>1, <1>2, <1>3, <2>2
  <2>4. QED BY <1>1, <1>4, <2>1, <2>3 DEF Steps
<1>8. CASE Rtl
  <2>1. forge.step = "rtl"
    BY <1>8 DEF Rtl
  <2>2. CASE forge.point \in Refusing
    <3>1. To("refused") /\ bundle' = bundle
      BY <1>8, <2>2 DEF Rtl
    <3>2. QED BY <1>1, <1>4, <3>1 DEF Steps
  <2>3. CASE forge.point \notin Refusing
    <3>1. bundle' = [bundle EXCEPT !.rtl = forge.point] /\ To("json")
      BY <1>8, <2>3 DEF Rtl
    <3>2. bundle' = R(bundle.root, forge.point, bundle.json.of, bundle.json.expected,
                      bundle.expected)
      BY <1>2, <3>1
    <3>3. bundle' \in BundleType /\ bundle'.root = bundle.root /\ bundle'.rtl = forge.point
      BY <1>1, <1>2, <1>3, <3>2
    <3>4. QED BY <1>1, <1>4, <2>1, <3>1, <3>3 DEF Steps
  <2>4. QED BY <2>2, <2>3
<1>9. CASE BundleJson
  <2>1. /\ forge.step = "json" /\ To(IF forge.whole THEN "expected" ELSE "over")
        /\ bundle' = [bundle EXCEPT !.json = [of |-> forge.point, expected |-> FALSE]]
    BY <1>9 DEF BundleJson
  <2>2. bundle' = R(bundle.root, bundle.rtl, forge.point, FALSE, bundle.expected)
    BY <1>2, <2>1
  <2>3. /\ bundle' \in BundleType /\ bundle'.root = bundle.root /\ bundle'.rtl = bundle.rtl
        /\ bundle'.json.of = forge.point
    BY <1>1, <1>2, <1>3, <2>2
  <2>4. (IF forge.whole THEN "expected" ELSE "over") \in Steps
    BY DEF Steps
  <2>5. QED BY <1>1, <1>4, <2>1, <2>3, <2>4
<1>10. CASE Expected
  <2>1. forge.step = "expected"
    BY <1>10 DEF Expected
  <2>2. CASE ~(Reads("stdout") /\ Reads("tasks") /\ Reads("design"))
    <3>1. Stopped /\ bundle' = bundle
      BY <1>10, <2>2 DEF Expected
    <3>2. QED BY <1>1, <1>5, <3>1
  <2>3. CASE Reads("stdout") /\ Reads("tasks") /\ Reads("design")
    <3>1. /\ bundle' = [bundle EXCEPT !.expected = <<folder["stdout"], folder["tasks"]>>]
          /\ To("name") /\ folder["stdout"] # 0
      BY <1>10, <2>3 DEF Expected, Reads
    <3>2. bundle' = R(bundle.root, bundle.rtl, bundle.json.of, bundle.json.expected,
                      <<folder["stdout"], folder["tasks"]>>)
      BY <1>2, <3>1
    <3>3. <<folder["stdout"], folder["tasks"]>> \in Of \X Of
      BY <1>1
    <3>4. /\ bundle' \in BundleType /\ bundle'.root = bundle.root /\ bundle'.rtl = bundle.rtl
          /\ bundle'.json = bundle.json
          /\ bundle'.expected = <<folder["stdout"], folder["tasks"]>>
      BY <1>1, <1>2, <1>3, <3>2, <3>3
    <3>5. QED BY <1>1, <1>4, <2>1, <3>1, <3>4 DEF Steps
  <2>4. QED BY <2>2, <2>3
<1>11. CASE Name
  <2>1. forge.step = "name" /\ bundle' = [bundle EXCEPT !.json.expected = TRUE] /\ To("sha")
    BY <1>11 DEF Name
  <2>2. bundle' = [bundle EXCEPT !.json = [bundle.json EXCEPT !.expected = TRUE]]
    BY <2>1
  <2>3. [bundle.json EXCEPT !.expected = TRUE] = [of |-> bundle.json.of, expected |-> TRUE]
    <3>1. bundle.json \in [of : Of, expected : BOOLEAN]
      BY <1>1 DEF BundleType
    <3>2. PICK j : j = bundle.json
      OBVIOUS
    <3>3. PICK q : q = [j EXCEPT !.expected = TRUE]
      OBVIOUS
    <3>4. q = [of |-> j.of, expected |-> TRUE]
      BY <3>1, <3>2, <3>3
    <3>5. QED BY <3>2, <3>3, <3>4
  <2>4. bundle' = R(bundle.root, bundle.rtl, bundle.json.of, TRUE, bundle.expected)
    BY <1>2, <2>2, <2>3
  <2>5. /\ bundle' \in BundleType /\ bundle'.root = bundle.root /\ bundle'.rtl = bundle.rtl
        /\ bundle'.json = [of |-> bundle.json.of, expected |-> TRUE]
        /\ bundle'.expected = bundle.expected
    BY <1>1, <1>2, <1>3, <2>4
  <2>6. QED BY <1>1, <1>4, <2>1, <2>5 DEF Steps
<1>12. CASE Sha
  <2>1. forge.step = "sha" /\ bundle' = bundle
    BY <1>12 DEF Sha
  <2>2. CASE ~Reads("record")
    <3>1. Stopped
      BY <1>12, <2>2 DEF Sha
    <3>2. QED BY <1>1, <1>5, <2>1, <3>1
  <2>3. CASE Reads("record")
    <3>1. forge' = [forge EXCEPT !.step = "sw", !.sha = elf.sha]
      BY <1>12, <2>3 DEF Sha
    <3>2. PICK n : n = [forge EXCEPT !.step = "sw"]
      OBVIOUS
    <3>3. forge' = [n EXCEPT !.sha = elf.sha]
      BY <3>1, <3>2
    <3>4. /\ n \in ForgeType /\ n.step = "sw" /\ n.whole = forge.whole
          /\ n.beside = forge.beside /\ n.point = forge.point
      BY <1>1, <3>2, ForgeTo DEF Steps
    <3>5. /\ forge' \in ForgeType /\ forge'.step = "sw"
          /\ forge'.whole = forge.whole /\ forge'.beside = forge.beside
          /\ forge'.point = forge.point /\ forge'.sha = elf.sha
      BY <1>1, <3>3, <3>4 DEF ForgeType
    <3>6. folder["record"] # 0
      BY <2>3 DEF Reads
    <3>7. QED BY <1>1, <2>1, <3>5, <3>6
  <2>4. QED BY <2>2, <2>3
<1>13. CASE ForgeSw
  <2>1. /\ forge.step = "sw" /\ bundle' = bundle
        /\ To(IF Matches THEN "over" ELSE "failed")
    BY <1>13 DEF ForgeSw
  <2>2. CASE Matches
    <3>1. To("over") /\ forge.sha = <<bundle.root, bundle.root>>
      BY <2>1, <2>2 DEF Matches
    <3>2. QED BY <1>1, <1>4, <2>1, <3>1 DEF Steps
  <2>3. CASE ~Matches
    <3>1. To("failed")
      BY <2>1, <2>3
    <3>2. QED BY <1>1, <1>4, <2>1, <3>1 DEF Steps
  <2>4. QED BY <2>2, <2>3
<1>14. QED BY <1>6, <1>7, <1>8, <1>9, <1>10, <1>11, <1>12, <1>13 DEF BundleStep

----------------------------------------------------------------------------
(* Every step keeps the folder's invariant.                                *)

LEMMA FolderInit == Init => FolderInv
<1> SUFFICES ASSUME Init PROVE FolderInv
  OBVIOUS
<1>1. /\ 0 \in Of /\ flow.stage = 0 /\ \A f \in Files : folder[f] = 0
      /\ elf.of = <<0, 0>> /\ elf.sha = <<0, 0>>
  BY DEF Init, NoElf, Of
<1>2. Typed
  BY <1>1 DEF Init, Typed, NoElf, FlowType, BundleType, ForgeType, Kinds, Steps, Of, Failed, Runs
<1>3. Chained /\ NotYet /\ Written
  BY <1>1 DEF Chained, NotYet, Written, Files
<1>4. ElfFresh
  BY <1>1 DEF ElfFresh
<1>5. QED BY <1>2, <1>3, <1>4 DEF FolderInv

LEMMA FlowStepKeeps ==
  ASSUME FolderInv, FlowStep
  PROVE  FolderInv'
<1>1. /\ Typed /\ Runs /\ bundle' = bundle /\ forge' = forge
      /\ bundle \in BundleType /\ forge \in ForgeType
      /\ elf \in [of : Of \X Of, sha : Of \X Of, old : BOOLEAN]
      /\ folder \in [Files -> Of \cup {Failed}]
      /\ \A f \in Files \ {"log"} : folder[f] \in Of
  BY DEF FolderInv, Typed, FlowStep
<1>2. Advance => flow' \in FlowType /\ flow'.version \in Versions
  BY <1>1, Advances
<1>3. CASE Clear
  BY <1>1, <1>2, <1>3, ClearKeeps DEF Clear, FolderInv, Typed
<1>4. CASE SandboxStage
  BY <1>1, <1>2, <1>4, SandboxKeeps DEF SandboxStage, FolderInv, Typed
<1>5. CASE WriteStage
  BY <1>1, <1>2, <1>5, WriteKeeps DEF WriteStage, FolderInv, Typed
<1>6. CASE Gen
  <2>1. Advance
    BY <1>6 DEF Gen
  <2>2. QED BY <1>1, <1>2, <1>6, <2>1, GenKeeps DEF FolderInv, Typed
<1>7. CASE Sw
  <2>1. Advance /\ folder' = folder
    BY <1>7 DEF Sw
  <2>2. QED BY <1>1, <1>2, <1>7, <2>1, SwKeeps DEF FolderInv, Typed
<1>8. CASE Gvsoc
  <2>1. elf' = elf
    BY <1>8 DEF Gvsoc
  <2>2. QED BY <1>1, <1>8, <2>1, GvsocKeeps DEF FolderInv, Typed
<1>9. CASE Done \/ Fail
  <2>1. elf' = elf
    BY <1>9 DEF Done, Fail
  <2>2. QED BY <1>1, <1>9, <2>1, EndKeeps DEF FolderInv, Typed
<1>10. QED BY <1>3, <1>4, <1>5, <1>6, <1>7, <1>8, <1>9 DEF FlowStep

(* A flow is begun: in the folder as it is, of a version of the design.    *)
LEMMA StartIs ==
  ASSUME NEW v \in Versions, NEW kind \in Kinds, NEW caller \in {"cmd", "forge"},
         Start(v, kind, caller)
  PROVE  /\ flow' \in FlowType /\ flow'.version = v /\ flow'.kind = kind /\ flow'.stage = 1
         /\ UNCHANGED <<folder, elf, bundle>> /\ ~Runs
         /\ kind = "own" => folder["sandbox"] = v
BY FlowAssumption DEF Start, FlowType, Of

(* A step outside the folder: the flow begins, stops or stays.             *)
LEMMA OutsideKeeps ==
  ASSUME FolderInv, UNCHANGED <<folder, elf>>, flow' \in FlowType,
         bundle' \in BundleType, forge' \in ForgeType,
         \/ flow'.stage = 0
         \/ /\ flow'.stage = 1 /\ flow'.version \in Versions
            /\ flow'.kind = "own" => folder["sandbox"] = flow'.version
         \/ flow'.stage = flow.stage /\ flow'.version = flow.version /\ flow'.kind = flow.kind
  PROVE  FolderInv'
<1>1. Chained' /\ NotYet' /\ Written' /\ ElfFresh'
  BY FolderStands
<1>2. Typed'
  BY DEF FolderInv, Typed, Runs
<1>3. QED BY <1>1, <1>2 DEF FolderInv

LEMMA NewForgeIs ==
  ASSUME NEW step \in {"flow", "bundle"}, NEW whole \in BOOLEAN, NewForge(step, whole)
  PROVE  forge' \in ForgeType /\ forge'.step = step /\ forge'.whole = whole /\ forge'.beside = 0
BY FlowAssumption DEF NewForge, ForgeType, Steps, Of

LEMMA KillFlowIs ==
  ASSUME Typed, KillFlow
  PROVE  /\ flow' \in FlowType /\ flow'.stage = 0
         /\ UNCHANGED <<folder, elf, bundle, forge>>
<1>1. flow' = [flow EXCEPT !.stage = 0, !.passed = FALSE]
      /\ UNCHANGED <<folder, elf, bundle, forge>>
  BY DEF KillFlow
<1>2. flow \in FlowType
  BY DEF Typed
<1>3. flow' \in FlowType /\ flow'.stage = 0
  BY <1>1, <1>2, FlowStops
<1>4. QED BY <1>1, <1>3

LEMMA KillForgeIs ==
  ASSUME Typed, KillForge
  PROVE  /\ flow' \in FlowType
         /\ flow'.stage = 0 \/ flow' = flow
         /\ forge' \in ForgeType /\ forge'.step = "failed"
         /\ UNCHANGED <<folder, elf, bundle>>
<1>1. UNCHANGED <<folder, elf, bundle>> /\ Stopped
  BY DEF KillForge
<1>2. flow \in FlowType /\ forge \in ForgeType /\ 0 \in 0 .. 14 /\ FALSE \in BOOLEAN
  BY DEF Typed
<1>3. forge' \in ForgeType /\ forge'.step = "failed"
  BY <1>1, <1>2, ForgeTo DEF Stopped, To, Steps
<1>4. CASE forge.step # "flow"
  BY <1>1, <1>2, <1>3, <1>4 DEF KillForge
<1>5. CASE forge.step = "flow"
  <2>1. flow' = [flow EXCEPT !.stage = 0, !.passed = FALSE, !.caller = "cmd"]
    BY <1>5 DEF KillForge
  <2>2. PICK n : n = [flow EXCEPT !.stage = 0, !.passed = FALSE]
    OBVIOUS
  <2>3. flow' = [n EXCEPT !.caller = "cmd"]
    BY <2>1, <2>2
  <2>4. n \in FlowType /\ n.stage = 0
    BY <1>2, <2>2, FlowStops
  <2>5. flow' \in FlowType /\ flow'.stage = 0
    BY <2>3, <2>4 DEF FlowType
  <2>6. QED BY <1>1, <1>3, <2>5
<1>6. QED BY <1>4, <1>5

(* A flow is begun in the command line: beside a forge's later steps, or   *)
(* when none is on its way.                                                *)
LEMMA StartFlowIs ==
  ASSUME Typed, StartFlow
  PROVE  /\ flow' \in FlowType /\ flow'.version \in Versions /\ flow'.stage = 1
         /\ flow'.kind = "own" => folder["sandbox"] = flow'.version
         /\ UNCHANGED <<folder, elf, bundle>> /\ ~Runs
         /\ forge' \in ForgeType /\ forge'.step = forge.step /\ forge'.whole = forge.whole
         /\ forge'.point = forge.point /\ forge'.sha = forge.sha
         /\ forge'.beside = IF Idle THEN forge.beside ELSE forge.beside + 1
         /\ forge.step # "flow"
<1>1. PICK v \in Versions, kind \in {"recipe", "own", "other"} : Start(v, kind, "cmd")
  BY DEF StartFlow
<1>2. kind \in Kinds /\ "cmd" \in {"cmd", "forge"}
  BY DEF Kinds
<1>3. /\ flow' \in FlowType /\ flow'.version \in Versions /\ flow'.stage = 1
      /\ flow'.kind = "own" => folder["sandbox"] = flow'.version
      /\ UNCHANGED <<folder, elf, bundle>> /\ ~Runs
  BY <1>1, <1>2, StartIs
<1>4. /\ forge' = [forge EXCEPT !.beside = IF Idle THEN @ ELSE @ + 1]
      /\ forge \in ForgeType /\ forge.step # "flow"
  BY DEF StartFlow, Typed
<1>5. /\ forge' \in ForgeType /\ forge'.step = forge.step /\ forge'.whole = forge.whole
      /\ forge'.point = forge.point /\ forge'.sha = forge.sha
      /\ forge'.beside = IF Idle THEN forge.beside ELSE forge.beside + 1
  <2>1. forge.beside \in Nat /\ forge.beside + 1 \in Nat
    BY <1>4 DEF ForgeType
  <2>2. QED BY <1>4, <2>1 DEF ForgeType
<1>6. QED BY <1>3, <1>4, <1>5

LEMMA StartForgeIs ==
  ASSUME Typed, NEW v \in Versions, StartForge(v)
  PROVE  /\ flow' \in FlowType /\ flow'.version \in Versions /\ flow'.stage = 1
         /\ flow'.kind # "own"
         /\ UNCHANGED <<folder, elf, bundle>>
         /\ forge' \in ForgeType /\ forge'.step = "flow" /\ forge'.beside = 0
<1>1. Start(v, "recipe", "forge") /\ NewForge("flow", TRUE)
  BY DEF StartForge
<1>2. "recipe" \in Kinds /\ "forge" \in {"cmd", "forge"}
  BY DEF Kinds
<1>3. QED BY <1>1, <1>2, StartIs, NewForgeIs

LEMMA FlowOverIs ==
  ASSUME Typed, FlowOver
  PROVE  /\ flow' \in FlowType /\ flow'.stage = flow.stage /\ flow'.version = flow.version
         /\ flow'.kind = flow.kind /\ ~Runs
         /\ UNCHANGED <<folder, elf, bundle>>
         /\ forge' \in ForgeType /\ forge'.step \in {"bundle", "failed"}
         /\ forge'.beside = forge.beside
<1>1. /\ forge.step = "flow" /\ ~Runs /\ UNCHANGED <<folder, elf, bundle>>
      /\ flow \in FlowType /\ forge \in ForgeType
      /\ flow' = [flow EXCEPT !.caller = "cmd"]
  BY DEF FlowOver, Typed
<1>2. To("bundle") \/ To("failed")
  BY DEF FlowOver
<1>3. /\ forge' \in ForgeType /\ forge'.step \in {"bundle", "failed"}
      /\ forge'.beside = forge.beside
  BY <1>1, <1>2, ForgeTo DEF To, Steps
<1>4. QED BY <1>1, <1>3 DEF FlowType

LEMMA BundleAloneIs ==
  ASSUME Typed, BundleAlone
  PROVE  /\ forge' \in ForgeType /\ forge'.step = "bundle" /\ ~forge'.whole
         /\ UNCHANGED <<folder, elf, flow, bundle>>
BY NewForgeIs DEF BundleAlone

LEMMA FolderKept ==
  ASSUME FolderInv, [Next]_vars
  PROVE  FolderInv'
<1>1. /\ Typed /\ flow \in FlowType /\ bundle \in BundleType /\ forge \in ForgeType
  BY DEF FolderInv, Typed
<1>2. CASE StartFlow
  BY <1>1, <1>2, StartFlowIs, OutsideKeeps
<1>3. CASE FlowStep
  BY <1>3, FlowStepKeeps
<1>4. CASE KillFlow
  BY <1>1, <1>4, KillFlowIs, OutsideKeeps
<1>5. CASE \E v \in Versions : StartForge(v)
  BY <1>1, <1>5, StartForgeIs, OutsideKeeps
<1>6. CASE BundleAlone
  BY <1>1, <1>6, BundleAloneIs, OutsideKeeps
<1>7. CASE FlowOver
  BY <1>1, <1>7, FlowOverIs, OutsideKeeps
<1>8. CASE BundleStep
  BY <1>1, <1>8, BundleSteps, OutsideKeeps
<1>9. CASE KillForge
  BY <1>1, <1>9, KillForgeIs, OutsideKeeps
<1>10. CASE UNCHANGED vars
  BY <1>1, <1>10, OutsideKeeps DEF vars
<1>11. QED BY <1>2, <1>3, <1>4, <1>5, <1>6, <1>7, <1>8, <1>9, <1>10 DEF Next

----------------------------------------------------------------------------
(* The theorems.                                                           *)

LEMMA FolderHolds == Spec => []FolderInv
BY FolderInit, FolderKept, PTL DEF Spec

(* Whatever flows and forges ran in a folder, of any versions, however     *)
(* many, whichever of them failed or was killed at any stage: a file that  *)
(* is there is of one version with all it was made from, the program that  *)
(* printed the output is still gen/'s, and no other recipe's sandbox is    *)
(* shown beside the run (flow/run.py's stages and what they clear first).  *)
THEOREM FolderNeverStale == Spec => []NothingStale
<1>1. FolderInv => NothingStale
  <2> SUFFICES ASSUME FolderInv PROVE NothingStale
    OBVIOUS
  <2>1. /\ Chain[1] = "log" /\ Chain[2] = "report" /\ Chain[3] = "profile"
        /\ Chain[4] = "record" /\ Chain[5] = "stdout" /\ Chain[6] = "program"
        /\ Chain[7] = "data" /\ Chain[8] = "tasks" /\ Chain[9] = "design"
        /\ Len(Chain) = 9
    BY DEF Chain
  <2>2. /\ \A f \in Files \ {"log"} : folder[f] \in Nat
        /\ Chained
    BY FilesAre DEF FolderInv
  <2>3. ASSUME NEW i \in 1 .. 5, folder[Chain[i]] > 0
        PROVE  \A j \in i + 1 .. Len(Chain) : folder[Chain[j]] = folder[Chain[i]]
    <3>1. i = 1 \/ i = 2 \/ i = 3 \/ i = 4 \/ i = 5
      OBVIOUS
    <3>2. folder["stdout"] = folder[Chain[i]]
      BY <2>1, <2>2, <2>3, <3>1 DEF Chained
    <3>3. QED
      <4> TAKE j \in i + 1 .. Len(Chain)
      <4>1. j = 2 \/ j = 3 \/ j = 4 \/ j = 5 \/ j = 6 \/ j = 7 \/ j = 8 \/ j = 9
        BY <2>1
      <4>2. CASE j <= 5
        BY <2>1, <2>2, <2>3, <3>1, <4>1, <4>2 DEF Chained
      <4>3. CASE j > 5
        BY <2>1, <2>2, <2>3, <3>2, <4>1, <4>3 DEF Chained
      <4>4. QED BY <2>1, <4>2, <4>3
  <2>4. folder["stdout"] # 0 => folder["stdout"] > 0
    BY <2>2 DEF Files
  <2>5. QED BY <2>2, <2>3, <2>4 DEF NothingStale, Chained
<1>2. QED BY FolderHolds, <1>1, PTL

----------------------------------------------------------------------------
(* What a forge makes of the folder.                                       *)

(* A step of the flow writes the design at stage 5 and the program at 9.   *)
LEMMA FlowStepIs ==
  ASSUME FolderInv, FlowStep
  PROVE  /\ flow.stage \in 1 .. 14 /\ forge' = forge /\ bundle' = bundle
         /\ flow'.stage = 0 \/ flow'.stage = flow.stage + 1
         /\ flow.stage < 5 => folder'["design"] = folder["design"]
         /\ flow.stage > 9 => elf' = elf
<1>1. Typed /\ Runs /\ forge' = forge /\ bundle' = bundle /\ flow.stage \in 1 .. 14
      /\ "design" \in Files
  BY StagesAre DEF FolderInv, FlowStep, Files
<1>2. Advance => flow'.stage = 0 \/ flow'.stage = flow.stage + 1
  BY <1>1, Advances
<1>3. \A f \in Files : \A w : Put(f, w) /\ f # "design" => folder'["design"] = folder["design"]
  BY <1>1 DEF Put, Typed
<1>6. CASE Clear
  <2>1. /\ Advance /\ elf' = elf
        /\ folder' = [f \in Files |-> IF f \in Cleared THEN 0 ELSE folder[f]]
        /\ Stage \in {"clear log", "clear report", "clear run"}
    BY <1>6 DEF Clear
  <2>2. "design" \notin Cleared
    BY <2>1 DEF Cleared
  <2>3. QED BY <1>1, <1>2, <2>1, <2>2
<1>7. CASE SandboxStage
  <2>1. Put("sandbox", Sandbox) /\ Advance /\ elf' = elf
    BY <1>7 DEF SandboxStage
  <2>2. folder'["design"] = folder["design"]
    BY <1>1, <2>1 DEF Put, Typed
  <2>3. QED BY <1>1, <1>2, <2>1, <2>2
<1>8. CASE WriteStage
  <2>1. /\ Put(Writes(Stage), flow.version) /\ Advance /\ elf' = elf
        /\ Stage \in {"design", "lower", "check", "convert", "report"}
    BY <1>8 DEF WriteStage
  <2>2. flow.stage \in {5, 6, 11, 12, 13}
    <3>1. CASE Stage = "design"
      BY <1>1, <3>1, StagesAre
    <3>2. CASE Stage = "lower"
      BY <1>1, <3>2, StagesAre
    <3>3. CASE Stage = "check"
      BY <1>1, <3>3, StagesAre
    <3>4. CASE Stage = "convert"
      BY <1>1, <3>4, StagesAre
    <3>5. CASE Stage = "report"
      BY <1>1, <3>5, StagesAre
    <3>6. QED BY <2>1, <3>1, <3>2, <3>3, <3>4, <3>5
  <2>3. QED BY <1>1, <1>2, <2>1, <2>2
<1>9. CASE Gen
  <2>1. Advance /\ flow.stage \in {7, 8}
    BY <1>1, <1>9, StagesAre DEF Gen
  <2>2. QED BY <1>1, <1>2, <2>1
<1>10. CASE Sw
  <2>1. Advance /\ flow.stage = 9
    BY <1>1, <1>10, StagesAre DEF Sw
  <2>2. QED BY <1>1, <1>2, <2>1
<1>11. CASE Gvsoc
  <2>1. flow.stage = 10 /\ elf' = elf
    BY <1>1, <1>11, StagesAre DEF Gvsoc
  <2>2. flow'.stage = 11
    <3>1. PICK ok \in BOOLEAN : flow' = [flow EXCEPT !.stage = @ + 1, !.passed = ok]
      BY <1>11 DEF Gvsoc
    <3>2. flow' = [flow EXCEPT !.stage = 11, !.passed = ok]
      BY <2>1, <3>1
    <3>3. PICK m : m = [flow EXCEPT !.stage = 11]
      OBVIOUS
    <3>4. flow' = [m EXCEPT !.passed = ok]
      BY <3>2, <3>3
    <3>5. flow \in FlowType /\ 11 \in 0 .. 14 /\ ok \in BOOLEAN
      BY <1>1, <3>1 DEF Typed
    <3>6. QED BY <3>3, <3>4, <3>5, FlowSet
  <2>3. QED BY <1>1, <2>1, <2>2
<1>12. CASE Done \/ Fail
  <2>1. ~Runs' /\ flow' \in FlowType
    BY <1>1, <1>12, EndKeeps
  <2>2. flow'.stage = 0
    BY <2>1 DEF Runs, FlowType
  <2>3. elf' = elf /\ (Put("log", flow.version) \/ Put("log", -1)) /\ "log" \in Files
    BY <1>12 DEF Done, Fail, Failed, Files
  <2>4. folder'["design"] = folder["design"]
    BY <1>3, <2>3
  <2>5. QED BY <1>1, <2>2, <2>3, <2>4
<1>13. QED BY <1>6, <1>7, <1>8, <1>9, <1>10, <1>11, <1>12 DEF FlowStep

LEMMA ForgeFlowStep ==
  ASSUME FolderInv, ForgeInv, FlowStep
  PROVE  ForgeInv'
<1>1. /\ flow.stage \in 1 .. 14 /\ forge' = forge /\ bundle' = bundle
      /\ flow'.stage = 0 \/ flow'.stage = flow.stage + 1
      /\ flow.stage < 5 => folder'["design"] = folder["design"]
      /\ flow.stage > 9 => elf' = elf
      /\ Runs
  BY FlowStepIs DEF FlowStep
<1>2. forge.beside \in Nat
  BY DEF FolderInv, Typed, ForgeType
<1>3. QED BY <1>1, <1>2 DEF ForgeInv, Goes, Alone, Lines, Runs

LEMMA ForgeStartFlow ==
  ASSUME FolderInv, ForgeInv, StartFlow
  PROVE  ForgeInv'
<1>1. Typed /\ forge.beside \in Nat
  BY DEF FolderInv, Typed, ForgeType
<1>2. QED BY <1>1, StartFlowIs DEF ForgeInv, Goes, Alone, Lines, Runs, Idle

LEMMA ForgeBundle ==
  ASSUME FolderInv, ForgeInv, BundleStep
  PROVE  ForgeInv'
<1>1. Typed /\ forge.beside \in Nat /\ forge.whole \in BOOLEAN /\ forge.point \in Of
      /\ flow.stage \in 0 .. 14
  BY DEF FolderInv, Typed, ForgeType, FlowType
<1> DEFINE P(a, b) == forge.step = a /\ forge'.step = b /\ forge'.point = forge.point
           Same == UNCHANGED <<folder, elf, flow>> /\ forge'.whole = forge.whole
                   /\ forge'.beside = forge.beside
<1>2. Same
  BY <1>1, BundleSteps
<1>3. \/ forge'.step \in {"failed", "refused"}
      \/ /\ forge.step = "bundle" /\ forge'.step = "generate"
         /\ forge'.point = folder["design"] /\ folder["design"] # 0
      \/ P("generate", "rtl") /\ bundle'.root = forge.point
      \/ P("rtl", "json") /\ bundle'.root = bundle.root /\ bundle'.rtl = forge.point
      \/ /\ P("json", IF forge.whole THEN "expected" ELSE "over")
         /\ bundle'.root = bundle.root /\ bundle'.rtl = bundle.rtl
         /\ bundle'.json.of = forge.point
      \/ /\ P("expected", "name")
         /\ bundle'.root = bundle.root /\ bundle'.rtl = bundle.rtl
         /\ bundle'.json = bundle.json
         /\ bundle'.expected = <<folder["stdout"], folder["tasks"]>>
         /\ folder["stdout"] # 0
      \/ /\ P("name", "sha")
         /\ bundle'.root = bundle.root /\ bundle'.rtl = bundle.rtl
         /\ bundle'.json = [of |-> bundle.json.of, expected |-> TRUE]
         /\ bundle'.expected = bundle.expected
      \/ P("sha", "sw") /\ bundle' = bundle /\ forge'.sha = elf.sha
      \/ /\ P("sw", "over") /\ bundle' = bundle
         /\ forge.sha = <<bundle.root, bundle.root>>
  BY <1>1, BundleSteps
<1>4. CASE forge'.step \in {"failed", "refused"}
  BY <1>4 DEF ForgeInv, Goes
<1>5. CASE /\ forge.step = "bundle" /\ forge'.step = "generate"
           /\ forge'.point = folder["design"] /\ folder["design"] # 0
  <2>1. folder["design"] \in Versions
    BY <1>1, <1>5, FilesAre DEF Of, Files
  <2>2. QED BY <1>1, <1>2, <1>5, <2>1 DEF ForgeInv, Goes, Alone, Lines, Runs
<1>6. CASE P("generate", "rtl") /\ bundle'.root = forge.point
  BY <1>1, <1>2, <1>6 DEF ForgeInv, Goes, Alone, Lines, Runs
<1>7. CASE P("rtl", "json") /\ bundle'.root = bundle.root /\ bundle'.rtl = forge.point
  BY <1>1, <1>2, <1>7 DEF ForgeInv, Goes, Alone, Lines, Runs
<1>8. CASE /\ P("json", IF forge.whole THEN "expected" ELSE "over")
           /\ bundle'.root = bundle.root /\ bundle'.rtl = bundle.rtl
           /\ bundle'.json.of = forge.point
  BY <1>1, <1>2, <1>8 DEF ForgeInv, Goes, Alone, Lines, Runs
<1>9. CASE /\ P("expected", "name")
           /\ bundle'.root = bundle.root /\ bundle'.rtl = bundle.rtl
           /\ bundle'.json = bundle.json
           /\ bundle'.expected = <<folder["stdout"], folder["tasks"]>>
           /\ folder["stdout"] # 0
  <2> DEFINE w == folder["stdout"]
  <2>1. /\ folder["tasks"] = w /\ folder["design"] = w /\ elf.sha = <<w, w>>
        /\ Runs => flow.stage \in 1 .. 3 \/ flow.stage > 10
    <3>1. w > 0
      BY <1>1, <1>9, FilesAre DEF Files
    <3>2. Chained /\ NotYet /\ ElfFresh
      BY DEF FolderInv
    <3>3. QED BY <1>1, <3>1, <3>2 DEF Chained, NotYet, ElfFresh, Program, Runs
  <2>2. bundle'.expected = <<w, w>>
    BY <1>9, <2>1
  <2>3. ASSUME forge.whole, forge.beside <= 1, w # forge.point
        PROVE  forge.beside = 1 /\ (Runs => flow.stage > 10)
    BY <1>1, <1>9, <2>1, <2>3 DEF ForgeInv, Goes, Alone, Runs
  <2> HIDE DEF w
  <2>4. QED BY <1>1, <1>2, <1>9, <2>1, <2>2, <2>3 DEF ForgeInv, Goes, Alone, Lines, Runs
<1>10. CASE /\ P("name", "sha")
            /\ bundle'.root = bundle.root /\ bundle'.rtl = bundle.rtl
            /\ bundle'.json = [of |-> bundle.json.of, expected |-> TRUE]
            /\ bundle'.expected = bundle.expected
  BY <1>1, <1>2, <1>10 DEF ForgeInv, Goes, Alone, Lines, Runs
<1>11. CASE P("sha", "sw") /\ bundle' = bundle /\ forge'.sha = elf.sha
  BY <1>1, <1>2, <1>11 DEF ForgeInv, Goes, Alone, Lines, Runs
<1>12. CASE /\ P("sw", "over") /\ bundle' = bundle
            /\ forge.sha = <<bundle.root, bundle.root>>
  BY <1>1, <1>2, <1>12 DEF ForgeInv, Goes, Alone, Lines, Runs
<1>13. QED BY <1>3, <1>4, <1>5, <1>6, <1>7, <1>8, <1>9, <1>10, <1>11, <1>12

LEMMA ForgeKept ==
  ASSUME FolderInv, ForgeInv, [Next]_vars
  PROVE  ForgeInv'
<1>1. Typed /\ forge.beside \in Nat
  BY DEF FolderInv, Typed, ForgeType
<1>2. CASE StartFlow
  BY <1>2, ForgeStartFlow
<1>3. CASE FlowStep
  BY <1>3, ForgeFlowStep
<1>4. CASE KillFlow
  BY <1>1, <1>4, KillFlowIs DEF ForgeInv, Goes, Alone, Lines, Runs
<1>5. CASE \E v \in Versions : StartForge(v)
  BY <1>1, <1>5, StartForgeIs DEF ForgeInv, Goes
<1>6. CASE BundleAlone
  BY <1>1, <1>6, BundleAloneIs DEF ForgeInv, Goes
<1>7. CASE FlowOver
  BY <1>1, <1>7, FlowOverIs DEF ForgeInv, Goes, Runs
<1>8. CASE BundleStep
  BY <1>8, ForgeBundle
<1>9. CASE KillForge
  BY <1>1, <1>9, KillForgeIs DEF ForgeInv, Goes
<1>10. CASE UNCHANGED vars
  BY <1>1, <1>10 DEF vars, ForgeInv, Goes, Alone, Lines, Runs
<1>11. QED BY <1>2, <1>3, <1>4, <1>5, <1>6, <1>7, <1>8, <1>9, <1>10 DEF Next

(* Whatever ran in the folder before and whatever failed or was killed: a  *)
(* forge that says it passed, with at most one flow begun beside its later *)
(* steps, has a bundle whose program's files, RTL and bundle.json are of   *)
(* one design, and whose expected lines are of that design's run           *)
(* (forge.py's sha check).                                                 *)
THEOREM ForgeMakesOne == Spec => []ForgeIsOne
<1>1. Init => ForgeInv
  BY DEF Init, ForgeInv, Goes
<1>2. Spec => []ForgeInv
  BY <1>1, FolderHolds, ForgeKept, PTL DEF Spec
<1>3. FolderInv /\ ForgeInv => ForgeIsOne
  <2> SUFFICES ASSUME FolderInv, ForgeInv, forge.step = "over", forge.whole, forge.beside <= 1
               PROVE  \E v \in Versions :
                        /\ bundle.root = v /\ bundle.rtl = v
                        /\ bundle.json = [of |-> v, expected |-> TRUE]
                        /\ bundle.expected = <<v, v>>
    BY DEF ForgeIsOne
  <2>1. /\ forge.point \in Versions /\ bundle.root = forge.point /\ bundle.rtl = forge.point
        /\ bundle.json.of = forge.point /\ bundle.json.expected
        /\ bundle.expected = <<forge.point, forge.point>>
    BY DEF ForgeInv, Goes, Lines
  <2>2. bundle.json = [of |-> forge.point, expected |-> TRUE]
    <3>1. bundle.json \in [of : Of, expected : BOOLEAN]
      BY DEF FolderInv, Typed, BundleType
    <3>2. QED BY <2>1, <3>1
  <2>3. QED BY <2>1, <2>2
<1>4. QED BY <1>2, <1>3, FolderHolds, PTL
=============================================================================
