------------------------------- MODULE Arbiter -------------------------------
(***************************************************************************)
(* The program (src/arbiter/src/main.rs): it checks its arguments, opens   *)
(* every trace, has all combinations run in one sweep, and matches the     *)
(* results with the names of what was run by nested loops of its own.  An  *)
(* error in what it was given ends it before the sweep, which is that of   *)
(* Sweep.                                                                  *)
(***************************************************************************)
EXTENDS Sweep

CONSTANTS
    Registry,       \* predictors::ALL, a sequence of predictors
    FileSystem,     \* path -> [kind, ...], where metadata is found: "file"
                    \*   [length], "short" (a file that Trace::open refuses: no
                    \*   room for a trailer, or not readable), "other" (neither
                    \*   file nor directory, as a pipe), "directory" [entries,
                    \*   unread: the entries it fails to read], "sealed" (a
                    \*   directory that it may not list)
    Text,           \* path -> to_string_lossy: another path if it is not UTF-8
    CommandLines    \* the arguments it can be given

Names == {Registry[n].name : n \in DOMAIN Registry}

\* Warmups and depths have a default; an empty list of either does not parse.
CommandLine ==
    [traces : Seq(STRING) \ {<<>>}, predictors : Seq(STRING) \ {<<>>},
     costs : {"built in", "readable", "unreadable"},
     warmups : Seq(Nat) \ {<<>>}, speculations : Seq(Nat) \ {<<>>}]

ASSUME RegistryAssumption == Registry \in Seq(Predictors)
ASSUME FileSystemAssumption ==
    \A path \in DOMAIN FileSystem :
      /\ FileSystem[path].kind = "file" => FileSystem[path].length \in Nat
      /\ FileSystem[path].kind = "directory" => IsFiniteSet(FileSystem[path].entries)
      /\ Text[path] \in STRING
ASSUME CommandLinesAssumption ==
    /\ CommandLines \subseteq CommandLine
    /\ \A line \in CommandLines : \A n \in DOMAIN line.traces :
         line.traces[n] \in DOMAIN FileSystem => Text[line.traces[n]] = line.traces[n]

VARIABLES
    stage,          \* how far main is
    arguments,
    selected,       \* the predictors, by the order of their names
    paths,          \* the traces as text, directories expanded
    sources,        \* the opened traces
    reports,
    at,             \* the indices of the reporting loops
    status          \* how the process ended

mainVars == <<stage, arguments, selected, paths, sources, reports, at, status>>
arbiterVars == <<sweepVars, mainVars>>

ArbiterInit ==
    /\ Init
    /\ stage = "select"
    /\ arguments \in CommandLines
    /\ selected = <<>> /\ paths = <<>> /\ sources = <<>> /\ reports = <<>>
    /\ at = [path |-> 1, config |-> 1, predictor |-> 1]
    /\ status = "running"

\* main goes on, or returns an error.
Goto(next) == stage' = next /\ UNCHANGED <<arguments, reports, at, status, sweepVars>>

Exit(how) ==
    /\ stage' = "exit" /\ status' = how
    /\ UNCHANGED <<arguments, selected, paths, sources, reports, at, sweepVars>>

\* The first entry of the registry with that name.
Entry(name) ==
    Registry[CHOOSE n \in DOMAIN Registry :
               /\ Registry[n].name = name
               /\ \A m \in 1..n - 1 : Registry[m].name # name]

SelectPredictors ==
    /\ stage = "select"
    /\ IF \A n \in DOMAIN arguments.predictors : arguments.predictors[n] \in Names
         THEN /\ selected' = [n \in DOMAIN arguments.predictors |->
                                Entry(arguments.predictors[n])]
              /\ Goto("load") /\ UNCHANGED <<paths, sources>>
         ELSE Exit("error")

LoadCosts ==
    /\ stage = "load"
    /\ IF arguments.costs # "unreadable"
         THEN Goto("expand") /\ UNCHANGED <<selected, paths, sources>>
         ELSE Exit("error")

\* fs::metadata answers for the path, following links, and read_dir for a directory.
Found(path) == path \in DOMAIN FileSystem /\ FileSystem[path].kind # "sealed"
Directories == {path \in DOMAIN FileSystem : FileSystem[path].kind = "directory"}
IsFile(path) == path \in DOMAIN FileSystem /\ FileSystem[path].kind \in {"file", "short"}

\* An entry that cannot be read is passed over, and so is what is no file:
\* directories, pipes, links to nothing.
Contained(directory) ==
    {entry \in FileSystem[directory].entries \ FileSystem[directory].unread : IsFile(entry)}

\* A directory stands for its files, in an order that read_dir chooses each time.
StandsFor(path) == IF path \in Directories THEN Contained(path) ELSE {path}
Listings(path) == SetToSeqs(StandsFor(path))

Texts(listing) == [n \in DOMAIN listing |-> Text[listing[n]]]

Expand ==
    /\ stage = "expand"
    /\ LET given == arguments.traces
       IN  IF \A n \in DOMAIN given : Found(given[n])
             THEN /\ \E listed \in [DOMAIN given ->
                                    UNION {Listings(given[n]) : n \in DOMAIN given}] :
                       /\ \A n \in DOMAIN given : listed[n] \in Listings(given[n])
                       /\ paths' = FlattenSeq([n \in DOMAIN given |-> Texts(listed[n])])
                  /\ Goto("open") /\ UNCHANGED <<selected, sources>>
             ELSE Exit("error")

Opens(path) == path \in DOMAIN FileSystem /\ FileSystem[path].kind = "file"
SourceAt(path) == [trace |-> path, length |-> FileSystem[path].length]

\* Mutant: a trace that does not open is left out.
Open_Skipping ==
    /\ stage = "open"
    /\ paths' = SelectSeq(paths, Opens)
    /\ sources' = [n \in DOMAIN paths' |-> SourceAt(paths'[n])]
    /\ Goto("launch") /\ UNCHANGED selected

Open ==
    /\ stage = "open"
    /\ IF \A n \in DOMAIN paths : Opens(paths[n])
         THEN /\ sources' = [n \in DOMAIN paths |-> SourceAt(paths[n])]
              /\ Goto("launch") /\ UNCHANGED <<selected, paths>>
         ELSE Exit("error")

\* Every warmup with every depth, warmups outermost.
ConfigsOf(line) ==
    FlattenSeq([w \in DOMAIN line.warmups |->
      [s \in DOMAIN line.speculations |->
        [warmup |-> line.warmups[w], speculations |-> line.speculations[s]]]])

RunSweep ==
    /\ stage = "launch"
    /\ Launch([sources |-> sources, configs |-> ConfigsOf(arguments),
               predictors |-> selected])
    /\ stage' = "sweep"
    /\ UNCHANGED <<arguments, selected, paths, sources, reports, at, status>>

SweepReturns ==
    /\ stage = "sweep" /\ ~Working
    /\ IF answer # None
         THEN Goto("report") /\ UNCHANGED <<selected, paths, sources>>
         ELSE Exit("panic")

Looping == at.path <= Len(paths)

\* Mutant: the loops nest as path, predictor, config.
Advanced_ConfigInner(p, c, n) ==
    CASE c < Len(grid.configs) -> [at EXCEPT !.config = c + 1]
      [] c = Len(grid.configs) /\ n < Len(selected) ->
           [at EXCEPT !.predictor = n + 1, !.config = 1]
      [] OTHER -> [path |-> p + 1, config |-> 1, predictor |-> 1]

\* for path, for config, for (name, _).
Advanced(p, c, n) ==
    CASE n < Len(selected) -> [at EXCEPT !.predictor = n + 1]
      [] n = Len(selected) /\ c < Len(grid.configs) ->
           [at EXCEPT !.config = c + 1, !.predictor = 1]
      [] OTHER -> [path |-> p + 1, config |-> 1, predictor |-> 1]

\* metrics.next() is the result after those already reported; there must be one.
Report ==
    /\ stage = "report" /\ Looping
    /\ IF Len(reports) < Len(answer)
         THEN /\ reports' = Append(reports,
                   [path |-> paths[at.path], name |-> selected[at.predictor].name,
                    config |-> ConfigsOf(arguments)[at.config],
                    metrics |-> answer[Len(reports) + 1]])
              /\ at' = Advanced(at.path, at.config, at.predictor)
              /\ UNCHANGED <<stage, arguments, selected, paths, sources, status, sweepVars>>
         ELSE Exit("panic")

Reported ==
    /\ stage = "report" /\ ~Looping
    /\ Goto("print") /\ UNCHANGED <<selected, paths, sources>>

\* println! panics if standard output is gone; serde_json, asked for strings and
\* numbers only, has no error to return.
PrintReports == stage = "print" /\ \E how \in {"ok", "unprinted"} : Exit(how)

MainStep ==
    \/ SelectPredictors \/ LoadCosts \/ Expand \/ Open \/ RunSweep \/ SweepReturns
    \/ Report \/ Reported \/ PrintReports

ArbiterNext == MainStep \/ (PoolStep /\ UNCHANGED mainVars)

ArbiterSpec == ArbiterInit /\ [][ArbiterNext]_arbiterVars

-----------------------------------------------------------------------------
(***************************************************************************)
(* Properties.                                                             *)
(***************************************************************************)

\* A report carries the metrics of the run it names: over the trace at its path,
\* under its configuration, by its predictor.  run_many orders its results by
\* indices and main names them by loops over paths, configurations and names,
\* also when paths, configurations or names repeat.
RunOf(metrics) == jobs[(CHOOSE work \in metrics.counted : work.part = "run").job]

ReportsNameTheirRuns ==
    \A n \in DOMAIN reports :
      LET report == reports[n]
          run == RunOf(report.metrics)
      IN  /\ report.path = grid.sources[run.source].trace
          /\ report.config = grid.configs[run.config]
          /\ report.name = grid.predictors[run.predictor].name

\* The traces of the arguments, each with the place of the argument it is for: a
\* path that is no directory, and every regular file in a directory.  An entry
\* that the file system fails to read is left out (main.rs:59), and nothing else.
AskedFor(given, path) ==
    \/ path = given /\ FileSystem[path].kind # "directory"
    \/ /\ FileSystem[given].kind = "directory"
       /\ path \in FileSystem[given].entries \ FileSystem[given].unread
       /\ FileSystem[path].kind \in {"file", "short"}

Asked ==
    {asked \in (DOMAIN arguments.traces) \X (DOMAIN FileSystem) :
       AskedFor(arguments.traces[asked[1]], asked[2])}

AskedAs(text) == {asked \in Asked : Text[asked[2]] = text}

\* All or nothing: what is wrong in the arguments, however late it is found, ends
\* the program before any trace is simulated.  A program that succeeds could open
\* every trace that its arguments stand for, and has reported it under each
\* configuration and predictor, as often as it was asked to; and nothing else.
AllOrNothing ==
    /\ status = "error" => calls = 0
    /\ status = "ok" =>
         /\ \A n \in DOMAIN reports : AskedAs(reports[n].path) # {}
         /\ \A asked \in Asked, w \in DOMAIN arguments.warmups,
               s \in DOMAIN arguments.speculations, name \in DOMAIN arguments.predictors :
              LET text == Text[asked[2]]
                  Same(seq, i) == {j \in DOMAIN seq : seq[j] = seq[i]}
              IN  /\ Opens(text)
                  /\ Cardinality({n \in DOMAIN reports :
                        /\ reports[n].path = text
                        /\ reports[n].name = arguments.predictors[name]
                        /\ reports[n].config =
                             [warmup |-> arguments.warmups[w],
                              speculations |-> arguments.speculations[s]]})
                       = Cardinality(AskedAs(text) \X Same(arguments.predictors, name)
                                     \X Same(arguments.warmups, w)
                                     \X Same(arguments.speculations, s))

=============================================================================
