------------------------------ MODULE MCArbiter ------------------------------
(***************************************************************************)
(* Arbiter for TLC: a small file system, two predictors, one of which may  *)
(* panic, and command lines with every kind of mistake and repetition.     *)
(***************************************************************************)
EXTENDS Arbiter

CONSTANTS a, b, none

MCRegistry ==
    <<[name |-> "plain", computes |-> FALSE, fails |-> FALSE],
      [name |-> "other", computes |-> FALSE, fails |-> FALSE],
      [name |-> "failing", computes |-> FALSE, fails |-> TRUE]>>

Directory(entries, unread) ==
    [kind |-> "directory", entries |-> entries, unread |-> unread]

\* "odd" holds everything that is passed over, "named" a file whose name is not
\* UTF-8, and "mixed" one that does not open.
MCFileSystem ==
    [path \in {"one", "two", "three", "bad", "pipe", "dir", "dir/a", "dir/b", "dir/sub",
               "mixed", "odd", "named", "named/x", "sealed"} |->
       CASE path \in {"one", "dir/a", "named/x"} -> [kind |-> "file", length |-> 1]
         [] path \in {"two", "dir/b"} -> [kind |-> "file", length |-> 2]
         [] path = "three" -> [kind |-> "file", length |-> 0]
         [] path = "bad" -> [kind |-> "short"]
         [] path = "pipe" -> [kind |-> "other"]
         [] path = "sealed" -> [kind |-> "sealed"]
         [] path = "dir" -> Directory({"dir/a", "dir/b", "dir/sub"}, {})
         [] path = "dir/sub" -> Directory({}, {})
         [] path = "mixed" -> Directory({"one", "bad"}, {})
         [] path = "odd" -> Directory({"one", "two", "pipe", "nowhere", "dir"}, {"two"})
         [] path = "named" -> Directory({"named/x", "one"}, {})]

MCText == [path \in DOMAIN MCFileSystem |-> IF path = "named/x" THEN "named/?" ELSE path]

MCSources ==
    {[trace |-> path, length |-> length] :
       path \in DOMAIN MCFileSystem, length \in 0..2}

MCConfigs == [warmup : 0..1, speculations : 0..1]
MCPredictors == {MCRegistry[n] : n \in DOMAIN MCRegistry}

Line(traces, names, warmups, depths) ==
    [traces |-> traces, predictors |-> names, costs |-> "built in",
     warmups |-> warmups, speculations |-> depths]

MCCommandLines ==
    {Line(traces, names, <<1>>, <<0, 1>>) :
       traces \in {<<"one", "two">>, <<"dir">>, <<"dir/sub">>, <<"mixed">>,
                   <<"one", "missing">>, <<"three", "three">>, <<"odd", "one">>,
                   <<"one", "pipe">>, <<"one", "named">>, <<"one", "sealed">>},
       names \in {<<"other", "plain">>, <<"plain", "unknown">>}}
    \cup {Line(<<"one">>, <<"plain">>, <<0, 1>>, <<0, 1>>),
          Line(<<"two">>, <<"plain", "plain">>, <<0>>, <<1, 1>>),
          Line(<<"dir", "one", "dir">>, <<"plain">>, <<0>>, <<0>>),
          Line(<<"one">>, <<"plain", "failing">>, <<0, 1>>, <<0>>),
          [Line(<<"one">>, <<"plain">>, <<0>>, <<0>>) EXCEPT !.costs = "unreadable"],
          [Line(<<"two">>, <<"plain">>, <<0>>, <<0>>) EXCEPT !.costs = "readable"]}
=============================================================================
