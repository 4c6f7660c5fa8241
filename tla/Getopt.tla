-------------------------------- MODULE Getopt --------------------------------
(***************************************************************************)
(* getopt of the C library of Mes.  A word of argv is a sequence of        *)
(* characters; the value of an option is its name.  Nothing is permuted.   *)
(***************************************************************************)
EXTENDS Integers, Sequences, SequencesExt, FiniteSetsExt

CONSTANTS
  optstring,   \* option character -> how many arguments: "none", "required" or "optional"
  longopts     \* the long options: a sequence of records of name, has_arg

EOF == <<>>
NULL == <<"NULL">>
Start == [optind |-> 1, nextchar |-> <<>>, optarg |-> NULL, c |-> <<"?">>]
Word(argv, i) == argv[i + 1]
Is(word, i, c) == Len(word) >= i /\ word[i] = c

-----------------------------------------------------------------------------
(* A long option: what is before = is looked up.                           *)
Upto(s) == LET ends == {i \in DOMAIN s : s[i] = "="} IN IF ends = {} THEN Len(s) ELSE Min(ends) - 1
Matches(nextchar) == {i \in DOMAIN longopts : IsPrefix(SubSeq(nextchar, 1, Upto(nextchar)), longopts[i].name)}
Exact(nextchar) == {i \in Matches(nextchar) : Len(longopts[i].name) = Upto(nextchar)}

Unknown(st, optind) == [st EXCEPT !.nextchar = <<>>, !.optind = optind, !.c = <<"?">>]
\* An argument in a word of its own: then is where the next word is.
FoundThen(argv, st, option, then) ==
  LET s == SubSeq(st.nextchar, Upto(st.nextchar) + 1, Len(st.nextchar))
      next == st.optind + 1
      With(optarg, optind) == [optind |-> optind, nextchar |-> <<>>, c |-> option.name, optarg |-> optarg]
  IN  CASE s # <<>> /\ option.has_arg # "none" -> With(Tail(s), next)
        [] s # <<>> /\ option.has_arg = "none" -> Unknown(st, next)
        [] s = <<>> /\ option.has_arg = "required" ->
             IF next < Len(argv) THEN With(Word(argv, next), then) ELSE Unknown(st, next)
        [] OTHER -> With(NULL, next)
Found(argv, st, option) == FoundThen(argv, st, option, st.optind + 2)

-----------------------------------------------------------------------------
(* An option character.                                                    *)
OneOption(argv, st) ==
  LET c == Head(st.nextchar)
      rest == Tail(st.nextchar)
      here == IF rest = <<>> THEN st.optind + 1 ELSE st.optind
      kind == IF c \in DOMAIN optstring THEN optstring[c] ELSE "unknown"
      With(optarg, optind) == [optind |-> optind, nextchar |-> <<>>, c |-> <<c>>, optarg |-> optarg]
  IN  CASE kind = "unknown" -> [st EXCEPT !.nextchar = rest, !.optind = here, !.c = <<"?">>]
        [] kind = "none" -> [st EXCEPT !.nextchar = rest, !.optind = here, !.c = <<c>>]
        [] kind \in {"required", "optional"} /\ rest # <<>> -> With(rest, here + 1)
        [] kind = "optional" /\ rest = <<>> -> With(NULL, here)
        [] kind = "required" /\ rest = <<>> ->
             IF here = Len(argv) THEN [With(NULL, here) EXCEPT !.c = <<"?">>]
             ELSE With(Word(argv, here), here + 1)

-----------------------------------------------------------------------------
(* A call.                                                                 *)
At(argv, st, long_only) ==
  LET word == Word(argv, st.optind)
      longs == longopts # <<>> /\ (Is(word, 2, "-") \/ long_only)
      matches == Matches(st.nextchar)
      exact == Exact(st.nextchar)
  IN  IF ~longs THEN OneOption(argv, st)
      ELSE IF exact = {} /\ Cardinality(matches) > 1 THEN Unknown(st, st.optind + 1)
      ELSE IF matches # {} THEN Found(argv, st, longopts[Min(IF exact = {} THEN matches ELSE exact)])
      ELSE IF ~long_only \/ Is(word, 2, "-") \/ Head(st.nextchar) \notin DOMAIN optstring
      THEN Unknown(st, st.optind + 1)
      ELSE OneOption(argv, st)

getopt_internal(argv, st, long_only) ==
  LET now == [st EXCEPT !.optarg = NULL]
      word == Word(argv, st.optind)
      skip == IF longopts # <<>> /\ Is(word, 2, "-") THEN 2 ELSE 1
  IN  IF st.nextchar # <<>> THEN At(argv, now, long_only)
      ELSE IF st.optind = Len(argv) THEN [now EXCEPT !.c = EOF]
      ELSE IF ~Is(word, 1, "-") \/ Len(word) = 1 THEN [now EXCEPT !.c = EOF]
      ELSE At(argv, [now EXCEPT !.nextchar = SubSeq(word, skip + 1, Len(word))], long_only)

\* All options of a program, and the index of what is left.
RECURSIVE Options(_, _, _)
Options(argv, st, long_only) ==
  LET next == getopt_internal(argv, st, long_only)
  IN  IF next.c = EOF THEN [options |-> <<>>, optind |-> next.optind]
      ELSE LET more == Options(argv, next, long_only)
           IN  [more EXCEPT !.options = <<<<next.c, next.optarg>>>> \o @]
=============================================================================
