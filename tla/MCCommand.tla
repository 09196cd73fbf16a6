----------------------------- MODULE MCCommand -----------------------------
(***************************************************************************)
(* What the command line runs: Pool, in which a scan and a batch work      *)
(* through their items, and Cli, from the options of a command to its exit *)
(* code and files.  A behaviour is one of the component that part names;   *)
(* the other stays as it began.                                            *)
(***************************************************************************)
EXTENDS Pool, Sequences

CONSTANTS Scans, OneScans, Saved, Checks, Batches, Paths, Workers, None

VARIABLES part,
          phase, cmd, files, before, printed, scanDiff, queue, lane, done, exit

Command == INSTANCE Cli WITH results <- printed, Lanes <- Workers

\* A scan leaves results as the verdict and the probes of a blocked item make them;
\* None stands for what is absent and is nothing that may be there.
ASSUME CommandAssumption ==
  /\ Scans \cup OneScans \cup Saved \subseteq Seq(Command!Item)
  /\ \A rs \in Scans : \A i \in DOMAIN rs : Command!Produced(rs[i])
  /\ Checks \cup Batches \subseteq Command!CheckOptions
  /\ Workers \in Nat \ {0}
  /\ None \notin Nat \cup {"u1", "u2", "u3"}
  /\ None \notin [regressions : SUBSET STRING, improvements : SUBSET STRING,
                  unchanged : SUBSET STRING, other : SUBSET STRING,
                  added : SUBSET STRING, removed : SUBSET STRING]

cliVars == <<phase, cmd, files, before, printed, scanDiff, queue, lane, done, exit>>
allVars == <<part, vars, cliVars>>

CommandInit == part \in {"pool", "command"} /\ Init /\ Command!Init

CommandNext ==
  \/ part = "pool" /\ Next /\ UNCHANGED <<part, cliVars>>
  \/ part = "command" /\ Command!Next /\ UNCHANGED <<part, vars>>

\* FairSpec of Pool.
CommandSpec ==
  /\ CommandInit /\ [][CommandNext]_allVars
  /\ WF_vars(part = "pool" /\ Start) /\ WF_vars(part = "pool" /\ Resolve)
  /\ \A l \in Lanes : WF_vars(part = "pool" /\ LaneStep(l))

-----------------------------------------------------------------------------
(* The inputs of the commands.                                             *)

\* Every kind of result that a scan produces, alone and beside another one.
Outcome(key, status, blocked, verdict, note) ==
  [key |-> key, status |-> status, blocked |-> blocked, verdict |-> verdict, note |-> note,
   error |-> status \in {"ERR", "BLOCKED"}, ua |-> FALSE, ip |-> FALSE]
Refused(key) == Outcome(key, "403", TRUE, "blocked", "none")
Leaked(key)  == Outcome(key, "200", FALSE, "exposed", "none")
Page200(key) == Outcome(key, "200", TRUE, "blocked", "custom_block_page")
Kinds(key) ==
  {Refused(key), Leaked(key), Page200(key),
   Outcome(key, "403", FALSE, "passed", "origin_blocked"),
   Outcome(key, "404", FALSE, "passed", "none"), Outcome(key, "404", TRUE, "blocked", "none"),
   [Outcome(key, "406", TRUE, "blocked", "none") EXCEPT !.ua = TRUE],
   Outcome(key, "ERR", FALSE, "passed", "none"), Outcome(key, "500", FALSE, "passed", "none"),
   Outcome(key, "500", TRUE, "blocked", "none"), Outcome(key, "BLOCKED", TRUE, "blocked", "none"),
   Outcome(key, "400", TRUE, "blocked", "custom_block_page"),
   Outcome(key, "2xx", FALSE, "exposed", "none")}
MCScans ==
  {<<r>> : r \in Kinds("k1")}
  \cup {<<r, s>> : r \in {Refused("k1"), Outcome("k1", "404", FALSE, "passed", "none")},
                   s \in {Leaked("k1"), Refused("k2")}}
MCSaved    == {s \in MCScans : Len(s) = 2} \cup {<<Refused("k1")>>}
MCOneScans == {<<Leaked("k1")>>, <<Page200("k1")>>, <<Refused("k1")>>}

\* The options that act on each other; an option that is refused comes alone.
MCChecks ==
  {o \in [bad : {"none", "url", "threshold"}, json : BOOLEAN, threshold : {None, 60},
          failOnBypass : BOOLEAN, failOnRegression : BOOLEAN, compare : {None, "a"},
          output : {None, "a", "b"}, format : {"json"}, limit : BOOLEAN, patch : BOOLEAN] :
     /\ o.bad # "none" => ~o.json /\ ~o.limit /\ ~o.patch /\ o.output = None /\ o.compare = None
     /\ o.bad = "threshold" => o.threshold # None
     /\ o.patch => ~o.limit /\ ~o.failOnBypass /\ o.threshold = None
     /\ o.failOnRegression => o.threshold = None /\ o.compare # None
     /\ o.limit => ~o.failOnRegression /\ o.output = None
     /\ o.json => o.output # "a"}
MCBatches ==
  [bad : {"none"}, json : BOOLEAN, threshold : {None, 60}, failOnBypass : BOOLEAN,
   failOnRegression : {FALSE}, compare : {None}, output : {"b"}, format : {"html"},
   limit : {FALSE}, patch : {FALSE}]

-----------------------------------------------------------------------------
(* Properties of the components.                                           *)

\* A call of the pool settles; the commands are not calls of it
\* (concurrency.ts:46).
PoolSettles == part = "pool" => Settles

\* What a pipeline may rely on when it looks at the exit code and the files of a
\* command (cli/src/index.ts:264-900).
CliHolds == part = "command" => Command!CliHolds
=============================================================================
