--------------------------- MODULE MCCommandLine ---------------------------
(* An option without values, one with two values, one with a default value, *)
(* one with any number of values, and one whose long name is a short one.   *)
EXTENDS CommandLine

Option(short, long, least, fixed, defaults) ==
  [short |-> short, long |-> long, least |-> least, fixed |-> fixed, defaults |-> defaults]

MCOptions == {Option("h", "help", 0, TRUE, 0), Option("f", "files", 2, TRUE, 0),
              Option("c", "config", 1, FALSE, 1), Option("v", "h", 1, TRUE, 2)}

MCWords == {[kind |-> "value"], [kind |-> "dashes"], [kind |-> "malformed"],
            [kind |-> "cluster", options |-> <<"c">>],
            [kind |-> "cluster", options |-> <<"h", "f">>],
            [kind |-> "long", name |-> "files", parts |-> 3],
            [kind |-> "long", name |-> "h", parts |-> 1]}
=============================================================================
