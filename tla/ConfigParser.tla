------------------------------ MODULE ConfigParser ------------------------------
(***************************************************************************)
(* NginxConfigParser (src/config_parser.cc): ParseToken cuts the file into *)
(* tokens, one character a step, and Parse builds the configuration from   *)
(* them with a stack of open blocks.  Letters stand for every character    *)
(* without a meaning of its own and blanks for tabs (an escaped tab is a   *)
(* letter: it is not escapable).  Of the text of a word one thing is kept: *)
(* whether ParseToken, given that text, would take it for the same word.   *)
(*                                                                         *)
(* tokens and fault are history: the tokens that Parse was given, and what *)
(* it ended for.                                                           *)
(***************************************************************************)
EXTENDS Integers, Sequences, SequencesExt

CONSTANT MaxTokens           \* bound on the tokens of a file

ASSUME ParserAssumption == MaxTokens \in Nat

VARIABLES
    lexer,           \* where ParseToken is: state, the quote it is in, and
                     \* whether the text of the word so far is plain
    last,            \* last_token_type, without its TOKEN_TYPE_
    stack,           \* config_stack, the outermost block first
    outcome,         \* "parsing", what Parse returned, or "undefined"
    tokens,          \* history
    fault            \* history: "none", "token", "syntax", "end"

parserVars == <<lexer, last, stack, outcome, tokens, fault>>

Structural == {"{", "}", ";"}
Tokens == {"NORMAL", "START_BLOCK", "END_BLOCK", "STATEMENT_END"}
Quotes == {"'", "\""}
Delimiters == Structural \cup {" ", "\n"}
Escapable == Structural \cup Quotes \cup {" ", "\\"}
Chars == Delimiters \cup Quotes \cup {"\r", "#", "\\", "letter"}

------------------------------------------------------------------------------
(* ParseToken.  QUOTED and ESCAPE are the places where the code looks at the *)
(* character after a quotation or a backslash.                             *)

Fresh(c) ==
    [state |-> CASE c \in Quotes -> "QUOTE"
                 [] c = "#" -> "COMMENT"
                 [] c \in Delimiters \cup {"\r"} -> "WHITESPACE"
                 [] OTHER -> "NORMAL",
     quote |-> IF c \in Quotes THEN c ELSE "none",
     plain |-> TRUE]

(* The character does not make TOKEN_TYPE_ERROR. *)
Fits(c) ==
    /\ lexer.state = "NORMAL" => c \notin Quotes
    /\ lexer.state = "QUOTED" => c \in Delimiters
    /\ lexer.state = "ESCAPE" => c \in Escapable

(* Where a character of a quotation that no backslash precedes leads. *)
QuoteAfter(c) ==
    CASE c = "\\" -> "ESCAPE" [] c = lexer.quote -> "QUOTED" [] OTHER -> "QUOTE"

(* The text keeps an escaped character without its backslash, so it is plain
   only while the character, by itself, does not lead out of the quotation. *)
LexerAfter(c) ==
    CASE lexer.state = "COMMENT" -> IF c \in {"\n", "\r"} THEN Fresh(c) ELSE lexer
      [] lexer.state = "ESCAPE" ->
            [lexer EXCEPT !.state = "QUOTE", !.plain = @ /\ QuoteAfter(c) = "QUOTE"]
      [] lexer.state = "QUOTE" -> [lexer EXCEPT !.state = QuoteAfter(c)]
      [] lexer.state = "NORMAL" /\ c \notin Delimiters -> lexer
      [] OTHER -> Fresh(c)

(* The character delimits a word, which unget() leaves it to, *)
EndsWord(c) == lexer.state \in {"NORMAL", "QUOTED"} /\ c \in Delimiters

(* and it is a token itself, of this TokenType. *)
IsToken(c) == lexer.state \in {"WHITESPACE", "NORMAL", "QUOTED"} /\ c \in Structural
TypeOf(c) ==
    CASE c = "{" -> "START_BLOCK" [] c = "}" -> "END_BLOCK" [] c = ";" -> "STATEMENT_END"

------------------------------------------------------------------------------
(* Parse.  A statement has its words, of each whether its text is plain, and, *)
(* in a sequence of at most one, its child block, which is put there when it *)
(* is closed.                                                              *)

Failed(p, why) == [p EXCEPT !.outcome = "false", !.fault = why]

(* pop() or top() of an empty stack *)
Undefined(p) == [p EXCEPT !.outcome = "undefined"]

AddWord(p) ==
    LET top == Len(p.stack)
        block == p.stack[top]
    IN  IF p.last = "NORMAL"
        THEN [p EXCEPT !.stack[top][Len(block)].words = Append(@, lexer.plain)]
        ELSE [p EXCEPT !.stack[top] = Append(@, [words |-> <<lexer.plain>>, block |-> <<>>])]

OpenBlock(p) == [p EXCEPT !.stack = Append(@, <<>>)]

(* Slip: the block is not given to the statement it belongs to. *)
CloseBlockDetached(p) ==
    [p EXCEPT !.stack = IF @ = <<>> THEN @ ELSE Front(@)]

CloseBlock(p) ==
    LET outer == Front(p.stack)
        parent == Len(outer)
    IN  IF outer = <<>> THEN [p EXCEPT !.stack = outer]
        ELSE [p EXCEPT !.stack =
                [outer EXCEPT ![parent][Len(outer[parent])].block = <<Last(p.stack)>>]]

(* Slip: a block may be closed before the statement in it has ended. *)
MayFollowAnything(token, before) ==
    token \in {"STATEMENT_END", "START_BLOCK"} => before = "NORMAL"

(* What last_token_type must be for the token. *)
MayFollow(token, before) ==
    /\ token \in {"STATEMENT_END", "START_BLOCK"} => before = "NORMAL"
    /\ token = "END_BLOCK" => before \in {"STATEMENT_END", "END_BLOCK", "START_BLOCK"}

(* One turn of the loop in Parse. *)
Take(p, token) ==
    LET given == [p EXCEPT !.tokens = Append(@, token)]
        done == [given EXCEPT !.last = token]
    IN  CASE p.outcome # "parsing" -> p
          [] p.outcome = "parsing" /\ ~MayFollow(token, p.last) -> Failed(given, "syntax")
          [] p.outcome = "parsing" /\ MayFollow(token, p.last) ->
                CASE token = "STATEMENT_END" -> done
                  [] token # "STATEMENT_END" /\ p.stack = <<>> -> Undefined(given)
                  [] token = "NORMAL" /\ p.stack # <<>> ->
                        [AddWord(given) EXCEPT !.last = token]
                  [] token = "START_BLOCK" /\ p.stack # <<>> -> OpenBlock(done)
                  [] token = "END_BLOCK" /\ p.stack # <<>> -> CloseBlock(done)

(* The turns that a character brings: none, one or two. *)
Given(p, complete, token) == IF complete THEN Take(p, token) ELSE p

Parser == [last |-> last, stack |-> stack, outcome |-> outcome,
           tokens |-> tokens, fault |-> fault]

Becomes(p) ==
    /\ last' = p.last /\ stack' = p.stack /\ outcome' = p.outcome
    /\ tokens' = p.tokens /\ fault' = p.fault

ParserInit ==
    /\ lexer = Fresh(" ")
    /\ last = "START" /\ stack = << <<>> >> /\ outcome = "parsing"
    /\ tokens = <<>> /\ fault = "none"

ReadChar(c) ==
    /\ outcome = "parsing" /\ Len(tokens) < MaxTokens
    /\ IF Fits(c)
       THEN /\ lexer' = LexerAfter(c)
            /\ Becomes(Given(Given(Parser, EndsWord(c), "NORMAL"), IsToken(c), TypeOf(c)))
       ELSE UNCHANGED lexer /\ Becomes(Failed(Parser, "token"))

(* The end of the file.  A word that it cuts short is dropped, TOKEN_TYPE_EOF
   takes its place. *)
EndOfFile ==
    /\ outcome = "parsing"
    /\ Becomes(CASE lexer.state \in {"QUOTE", "ESCAPE", "QUOTED"} -> Failed(Parser, "token")
                 [] lexer.state \notin {"QUOTE", "ESCAPE", "QUOTED"} ->
                      IF last \in {"STATEMENT_END", "END_BLOCK", "START"} /\ Len(stack) = 1
                      THEN [Parser EXCEPT !.outcome = "true"] ELSE Failed(Parser, "end"))
    /\ UNCHANGED lexer

ParserNext == (\E c \in Chars : ReadChar(c)) \/ EndOfFile

ParserSpec == ParserInit /\ [][ParserNext]_parserVars

------------------------------------------------------------------------------

(* The grammar: a configuration is a sequence of statements, a statement some
   words and a semicolon or a configuration in braces. *)
Configs[s \in Seq(Tokens)] ==
    s = <<>> \/ \E n \in 2 .. Len(s), w \in 1 .. Len(s) :
        /\ w < n /\ \A i \in 1 .. w : s[i] = "NORMAL"
        /\ \/ n = w + 1 /\ s[n] = "STATEMENT_END"
           \/ /\ n > w + 1 /\ s[w + 1] = "START_BLOCK" /\ s[n] = "END_BLOCK"
              /\ Configs[SubSeq(s, w + 2, n - 1)]
        /\ Configs[SubSeq(s, n + 1, Len(s))]

(* Some configuration begins with these tokens. *)
Viable(s) ==
    \E depth \in 0 .. Len(s), end \in {<<>>, <<"STATEMENT_END">>} :
        Configs[s \o end \o [i \in 1 .. depth |-> "END_BLOCK"]]

(* "Returns true iff the input config file is valid" (config_parser.h), read of
   the tokens that Parse is given: it accepts the configurations of the grammar;
   it goes on as long as the file may still become one, gives up only when it no
   longer can, and uses the empty stack only where a block was closed that
   nobody had opened.  (A word that the end of the file cuts short is not among
   them.) *)
ParsesConfigs ==
    /\ outcome = "true" => Configs[tokens]
    /\ outcome = "false" =>
          CASE fault = "syntax" -> ~Viable(tokens)
            [] fault = "end" -> ~Configs[tokens]
            [] fault = "token" -> TRUE
    /\ outcome = "parsing" /\ stack # <<>> => Viable(tokens)
    /\ outcome = "undefined" => ~Viable(tokens)
==============================================================================
