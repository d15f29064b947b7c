------------------------------- MODULE EnvFile -------------------------------
(***************************************************************************)
(* The .env file next to the sources: read by Config::from_env (main.rs)    *)
(* through dotenvy, rewritten by persist_rotated_tokens (auth.rs).          *)
(*                                                                          *)
(* A file is a sequence of lines.  Comments, blank lines and keys other     *)
(* than the two tokens are lines without a key: the code passes over them.  *)
(* A token is the number of the pair it belongs to: the server issues pairs *)
(* 0, 1, 2, ...                                                             *)
(***************************************************************************)
EXTENDS Integers, Sequences

CONSTANTS Absent,   \* no value
          Blank,    \* the empty string, or the stub of .env.example
          Cut       \* a token of which only the first characters were written

Keys == {"access", "refresh"}
Tokens == Nat \cup {Blank, Cut}

LineOf(tokens) == [key : Keys, value : tokens] \cup [key : {Absent}, value : {Absent}]
Line == LineOf(Tokens)
Entry(key, token) == [key |-> key, value |-> token]
OtherLine == Entry(Absent, Absent)

ASSUME EnvFileAssumption ==
  /\ {Absent, Blank, Cut} \cap Nat = {} /\ Absent \notin Seq(Line)
  /\ Absent # Blank /\ Absent # Cut /\ Blank # Cut

\* Mutant of Replace: a new line at the end in every case.
ReplaceByAppending(lines, key, token) == Append(lines, Entry(key, token))

\* replace_env_key: every line of the key is rewritten in place; without one, a
\* line is appended.  All other lines stay as they are.
Replace(lines, key, token) ==
  IF \E i \in DOMAIN lines : lines[i].key = key
    THEN [i \in DOMAIN lines |-> IF lines[i].key = key THEN Entry(key, token) ELSE lines[i]]
    ELSE Append(lines, Entry(key, token))

\* dotenvy sets a variable from the first line that defines it.
IsFirst(lines, key, i) ==
  lines[i].key = key /\ \A j \in DOMAIN lines : lines[j].key = key => i <= j

Lookup(lines, key) ==
  IF \E i \in DOMAIN lines : lines[i].key = key
    THEN lines[CHOOSE i \in DOMAIN lines : IsFirst(lines, key, i)].value
    ELSE Absent

\* std::fs::write truncates the file and then writes: what a crash in between can
\* leave is a prefix, cut at a line or within its last one.
Prefixes(lines) ==
  LET cut(n) == IF lines[n].key = Absent THEN {OtherLine}
                ELSE {OtherLine, Entry(lines[n].key, Blank), Entry(lines[n].key, Cut)}
  IN {SubSeq(lines, 1, n) : n \in 0 .. Len(lines) - 1}
       \cup UNION {{Append(SubSeq(lines, 1, n - 1), l) : l \in cut(n)} : n \in DOMAIN lines}
=============================================================================
