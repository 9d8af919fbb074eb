---------------------------- MODULE CommandLine ----------------------------
(***************************************************************************)
(* command_line: options are learned under a short and a long name, then   *)
(* parse() goes through the words once and gives every value to an option  *)
(* or to the single parameters.  A word is what parse() takes it for; its  *)
(* text is left out (of "-5" it keeps "5"), a value is known by its word and *)
(* its place there.                                                        *)
(***************************************************************************)
EXTENDS Integers, Sequences, SequencesExt

CONSTANTS Options,     \* what callers let it learn: [short, long, least, fixed, defaults]
          Words,       \* what command lines are made of
          MaxWords     \* bound: words of a command line

ASSUME CommandLineAssumption ==
  /\ MaxWords \in Nat
  /\ \A o \in Options : /\ {o.least, o.defaults} \subseteq Nat /\ o.fixed \in BOOLEAN
                        /\ o.short # ""
  /\ \A w \in Words : /\ w.kind \in {"value", "dashes", "cluster", "long", "malformed"}
                      /\ w.kind = "cluster" => w.options \in Seq(STRING \ {""}) \ {<<>>}
                      /\ w.kind = "long" => w.parts \in Nat

VARIABLES names,       \* m_option_name_relations: long name to short
          entries,     \* m_option_entries: short name to option_value_t
          singles,     \* m_single_parameters
          has_parsed,
          line,        \* the words of the last parse() up to where it is
          piece,       \* the letter or part of the last word that is next, 0 for none
          option,      \* short_option of parse(): where values go ("" for none)
          ret,         \* what it returned; "none" before, "parsing" meanwhile
          was_reset

commandline_vars == <<names, entries, singles, has_parsed, line, piece, option, ret, was_reset>>

\* std::map: empty, and with one key more
Empty == [x \in {} |-> x]
Inserted(f, x, y) == [z \in DOMAIN f \union {x} |-> IF z = x THEN y ELSE f[z]]

Default(n) == [k \in 1 .. n |-> <<0, k>>]

CommandLineInit ==
  /\ names = Empty /\ entries = Empty /\ singles = <<>> /\ has_parsed = FALSE
  /\ line = <<>> /\ piece = 0 /\ option = "" /\ ret = "none" /\ was_reset = FALSE
-----------------------------------------------------------------------------
\* Callers teach the options before they parse.  learn_option(): both names must
\* be new
CanLearn(o, n, e) == o.short \notin DOMAIN e /\ o.long \notin DOMAIN n

Entry(o, fixed) == [least |-> o.least, fixed |-> fixed, defaults |-> o.defaults,
                    specified |-> FALSE, values |-> Default(o.defaults)]

LearnOption(o) ==
  /\ ~has_parsed /\ CanLearn(o, names, entries)
  /\ names' = Inserted(names, o.long, o.short)
  /\ entries' = Inserted(entries, o.short, Entry(o, o.fixed))
  /\ UNCHANGED <<singles, has_parsed, line, piece, option, ret, was_reset>>

\* learn_options() of one more, which does not hand on value_count_is_fixed
LearnOptions(o) ==
  /\ ~has_parsed /\ CanLearn(o, names, entries)
  /\ names' = Inserted(names, o.long, o.short)
  /\ entries' = Inserted(entries, o.short, Entry(o, TRUE))
  /\ UNCHANGED <<singles, has_parsed, line, piece, option, ret, was_reset>>
-----------------------------------------------------------------------------
\* parse(), one word after the other, and of a word one letter or part

BeginParse ==
  /\ ~has_parsed /\ has_parsed' = TRUE
  /\ line' = <<>> /\ piece' = 0 /\ option' = "" /\ ret' = "parsing"
  /\ UNCHANGED <<names, entries, singles, was_reset>>

\* get_option_value(): a long name goes before a short one
Found(name) == IF name \in DOMAIN names THEN names[name] ELSE name

Returns(result) == ret' = result /\ piece' = 0 /\ UNCHANGED <<entries, singles, option>>

\* A mutant: the values of a repeated option are cleared again
SpecifyAnew(name) ==
  /\ entries' = [entries EXCEPT ![Found(name)].specified = TRUE, ![Found(name)].values = <<>>]
  /\ option' = name /\ UNCHANGED <<singles, ret>>

\* SET_IS_SPECIFIED of an option that was learned
Specify(name) ==
  /\ entries' = [entries EXCEPT
                   ![Found(name)].specified = TRUE,
                   ![Found(name)].values = IF entries[Found(name)].specified THEN @ ELSE <<>>]
  /\ option' = name /\ UNCHANGED <<singles, ret>>

\* A mutant: one value too many
FullBeyond(entry) == entry.fixed /\ Len(entry.values) > entry.least

Full(entry) == entry.fixed /\ Len(entry.values) >= entry.least

Single(value) == singles' = Append(singles, value) /\ UNCHANGED <<entries, ret>>

Take(value) == /\ entries' = [entries EXCEPT ![option].values = Append(@, value)]
               /\ UNCHANGED <<singles, option, ret>>

\* ADD_VALUE
AddValue(value) ==
  \/ option = "" /\ Single(value) /\ UNCHANGED option
  \/ option # "" /\ option \notin DOMAIN entries /\ Returns("UNKNOWN_CMD_LINE_OPTION")
  \/ option # "" /\ option \in DOMAIN entries /\ Full(entries[option])
       /\ Single(value) /\ option' = ""
  \/ option # "" /\ option \in DOMAIN entries /\ ~Full(entries[option]) /\ Take(value)

Takes(kind, w) == /\ ret = "parsing" /\ piece = 0 /\ Len(line) < MaxWords
                  /\ w.kind = kind /\ line' = Append(line, w)
                  /\ UNCHANGED <<names, has_parsed, was_reset>>

TakeValue(w) == Takes("value", w) /\ AddValue(<<Len(line'), 0>>) /\ piece' = 0

TakeDashes(w) == Takes("dashes", w) /\ UNCHANGED <<entries, singles, piece, option, ret>>

TakeMalformed(w) == Takes("malformed", w) /\ Returns("INVALID_CMD_LINE_FORMAT")

TakeCluster(w) == Takes("cluster", w) /\ piece' = 1 /\ UNCHANGED <<entries, singles, option, ret>>

TakeLong(w) ==
  /\ Takes("long", w)
  /\ IF w.name \in DOMAIN names /\ Found(names[w.name]) \in DOMAIN entries
     THEN Specify(names[w.name]) /\ piece' = IF w.parts > 0 THEN 1 ELSE 0
     ELSE Returns("UNKNOWN_CMD_LINE_OPTION")

Within(kind) == /\ ret = "parsing" /\ piece > 0 /\ Last(line).kind = kind
                /\ UNCHANGED <<names, has_parsed, line, was_reset>>

Following(pieces) == piece' = IF piece < pieces THEN piece + 1 ELSE 0

\* A letter of a cluster
Letter ==
  /\ Within("cluster")
  /\ LET options == Last(line).options IN
     IF Found(options[piece]) \in DOMAIN entries
     THEN Specify(options[piece]) /\ Following(Len(options))
     ELSE Returns("UNKNOWN_CMD_LINE_OPTION")

\* add_value() of a part of --name=part|part, whose result nobody looks at
Part ==
  /\ Within("long") /\ Following(Last(line).parts)
  /\ IF option \in DOMAIN entries /\ ~Full(entries[option])
     THEN Take(<<Len(line), piece>>)
     ELSE UNCHANGED <<entries, singles, option, ret>>

\* The check at the end
Insufficient(e) == \E o \in DOMAIN e : e[o].specified /\ Len(e[o].values) < e[o].least

EndParse ==
  /\ ret = "parsing" /\ piece = 0
  /\ ret' = IF Insufficient(entries) THEN "CMD_LINE_PARAM_INSUFFICIENT" ELSE "OK"
  /\ UNCHANGED <<names, entries, singles, has_parsed, line, piece, option, was_reset>>

Unspecified(e) == [o \in DOMAIN e |-> [e[o] EXCEPT !.values = <<>>, !.specified = FALSE]]

Reset ==
  /\ has_parsed /\ ret # "parsing"
  /\ entries' = Unspecified(entries) /\ singles' = <<>> /\ has_parsed' = FALSE
  /\ line' = <<>> /\ option' = "" /\ ret' = "none" /\ was_reset' = TRUE
  /\ UNCHANGED <<names, piece>>

CommandLineNext ==
  \/ \E o \in Options : LearnOption(o) \/ LearnOptions(o)
  \/ \E w \in Words : \/ TakeValue(w) \/ TakeDashes(w) \/ TakeMalformed(w)
                       \/ TakeCluster(w) \/ TakeLong(w)
  \/ BeginParse \/ Letter \/ Part \/ EndParse \/ Reset

CommandLineSpec == CommandLineInit /\ [][CommandLineNext]_commandline_vars
-----------------------------------------------------------------------------
OptionEntries == [least : Nat, fixed : BOOLEAN, defaults : Nat, specified : BOOLEAN,
                  values : Seq(Nat \X Nat)]

CommandLineTypeOK ==
  /\ names \in [DOMAIN names -> DOMAIN entries]
  /\ entries \in [DOMAIN entries -> OptionEntries]
  /\ singles \in Seq(Nat \X Nat) /\ has_parsed \in BOOLEAN /\ was_reset \in BOOLEAN
  /\ line \in Seq(Words) /\ Len(line) <= MaxWords /\ piece \in Nat
  /\ ret \in {"none", "parsing", "OK", "CMD_LINE_PARAM_INSUFFICIENT",
              "UNKNOWN_CMD_LINE_OPTION", "INVALID_CMD_LINE_FORMAT"}
  /\ has_parsed <=> ret # "none"

\* A long name of one letter that is another option's short name
Confused == \E n \in DOMAIN names : n \in DOMAIN entries /\ names[n] # n

\* After a parse that succeeded an option that was given has as many values as
\* it wants, neither more nor less if their number is fixed; one that was not
\* has its default values, which the caller takes without a look, unless
\* reset() has lost them.
CountsAreKept ==
  ret = "OK" /\ ~Confused =>
    \A o \in DOMAIN entries : LET e == entries[o] IN
      IF e.specified
      THEN Len(e.values) >= e.least /\ (e.fixed => Len(e.values) = e.least)
      ELSE e.values = Default(e.defaults) \/ (was_reset /\ e.values = <<>>)

\* The reference: the places of a line in order, an option or a value each.  A
\* value is offered to the last option before it.
Pieces(w) == CASE w.kind = "value"   -> {0}
               [] w.kind = "cluster" -> 1 .. Len(w.options)
               [] w.kind = "long"    -> 0 .. w.parts
               [] OTHER              -> {}

Passed == {p \in UNION {{i} \X Pieces(line[i]) : i \in 1 .. Len(line)} :
             p[1] < Len(line) \/ piece = 0 \/ p[2] < piece}

WordsPassed == {p \in Passed : line[p[1]].kind = "value"}
ValuesPassed == WordsPassed \union {p \in Passed : line[p[1]].kind = "long" /\ p[2] > 0}
OptionsPassed == Passed \ ValuesPassed

Gives == [p \in OptionsPassed |-> IF line[p[1]].kind = "long" THEN names[line[p[1]].name]
                                  ELSE line[p[1]].options[p[2]]]

Before(p, q) == p[1] < q[1] \/ (p[1] = q[1] /\ p[2] < q[2])

Offered(o) ==
  {p \in ValuesPassed : \E q \in OptionsPassed :
     /\ Gives[q] = o /\ Before(q, p)
     /\ \A r \in OptionsPassed : Before(r, q) \/ r = q \/ Before(p, r)}

InLineOrder(s) == \A j, k \in 1 .. Len(s) : j < k => Before(s[j], s[k])

\* The option has what it was offered, up to where it wanted no more
TakesItsOwn(e, offered) ==
  /\ InLineOrder(e.values) /\ Range(e.values) \subseteq offered
  /\ \A p \in offered \ Range(e.values) :
       /\ e.fixed /\ Len(e.values) = e.least
       /\ \A q \in Range(e.values) : Before(q, p)

TakenByOptions ==
  UNION {Range(entries[o].values) : o \in {x \in DOMAIN entries : entries[x].specified}}

\* After a parse that succeeded every value is where it belongs, once and in
\* order: with the option before it if that wants one more, among the single
\* parameters otherwise; only parts of --name=part|part beyond that are lost.
ValuesGoToTheirOption ==
  ret = "OK" /\ ~Confused =>
    /\ \A o \in DOMAIN entries : entries[o].specified => TakesItsOwn(entries[o], Offered(o))
    /\ InLineOrder(singles) /\ Range(singles) = WordsPassed \ TakenByOptions
=============================================================================
