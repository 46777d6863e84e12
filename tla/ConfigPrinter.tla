----------------------------- MODULE ConfigPrinter -----------------------------
(***************************************************************************)
(* NginxConfig::ToString (src/config_parser.cc) on what Parse has built.   *)
(***************************************************************************)
EXTENDS ConfigParser

(* NginxConfig::ToString, as the tokens it writes.  A word is written as the
   text that was stored, "OTHER" where ParseToken would not take that text for
   the same word. *)
RECURSIVE Printed(_)
Printed(config) ==
    LET write(text, statement) ==
            text \o [i \in DOMAIN statement.words |->
                        IF statement.words[i] THEN "NORMAL" ELSE "OTHER"]
                 \o (IF statement.block = <<>> THEN <<"STATEMENT_END">>
                     ELSE <<"START_BLOCK">> \o Printed(statement.block[1]) \o <<"END_BLOCK">>)
    IN  FoldLeft(write, <<>>, config)

(* What Parse builds of a file that it accepts is what the file says: ToString
   writes it back token for token, every statement in its block, and where it
   does not write a token of the file it is at a word with an escaped backslash
   or an escape of its own quote, which the stored text no longer shows. *)
WritesBack ==
    outcome = "true" =>
        LET written == Printed(stack[1])
        IN  /\ Len(written) = Len(tokens)
            /\ \A i \in DOMAIN tokens :
                  \/ written[i] = tokens[i]
                  \/ written[i] = "OTHER" /\ tokens[i] = "NORMAL"
==============================================================================
