----------------------------- MODULE ShellParse -----------------------------
(***************************************************************************)
(* The parser of user/sh.c, on tokens: "a" stands for a word, "+" for >>,  *)
(* and white space, which gettoken and peek skip, is gone.  A word in a    *)
(* parsed command is its position in the line.  A parser returns the       *)
(* command and the position after it; position 0 means panic.              *)
(***************************************************************************)
EXTENDS Integers, Sequences, FiniteSetsExt

CONSTANTS Token,   \* the tokens lines are made of
          MaxLine, \* longest line
          MAXARGS

VARIABLES line, tree, ended   \* the command line; its parse; words nulterminate has ended
vars == <<line, tree, ended>>

Peek(s, i, toks) == i \in DOMAIN s /\ s[i] \in toks
Cmd(c, i) == [cmd |-> c, next |-> i]
Panic == Cmd([type |-> "none"], 0)

RedirFd(tok) == IF tok = "<" THEN 0 ELSE 1
Truncates(tok) == tok = ">"
ExecCmd == [type |-> "exec", argv |-> <<>>]
PipeCmd(l, r) == [type |-> "pipe", left |-> l, right |-> r]
ListCmd(l, r) == [type |-> "list", left |-> l, right |-> r]
BackCmd(c) == [type |-> "back", cmd |-> c]
RedirCmd(c, i, tok) == [type |-> "redir", cmd |-> c, file |-> i, fd |-> RedirFd(tok), trunc |-> Truncates(tok)]

RECURSIVE ParseRedirs(_, _, _)
ParseRedirs(c, s, i) ==
  IF ~Peek(s, i, {"<", ">", "+"}) THEN Cmd(c, i)
  ELSE IF ~Peek(s, i + 1, {"a"}) THEN Panic
  ELSE ParseRedirs(RedirCmd(c, i + 1, s[i]), s, i + 2)

RECURSIVE WithArg(_, _)
\* The exec command under the redirections, with one more argument.
WithArg(c, i) ==
  IF c.type = "redir" THEN [c EXCEPT !.cmd = WithArg(@, i)] ELSE [c EXCEPT !.argv = Append(@, i)]

RECURSIVE Argc(_)
Argc(c) == IF c.type = "redir" THEN Argc(c.cmd) ELSE Len(c.argv)

TooMany_off_by_one(n) == n > MAXARGS
TooMany(n) == n >= MAXARGS

RECURSIVE ParseArgs(_, _)
\* The loop of parseexec, from the command and position in r.
ParseArgs(s, r) ==
  IF r.next = 0 \/ Peek(s, r.next, {"|", ")", "&", ";"}) \/ r.next > Len(s) THEN r
  ELSE IF s[r.next] # "a" \/ TooMany(Argc(r.cmd) + 1) THEN Panic
  ELSE ParseArgs(s, ParseRedirs(WithArg(r.cmd, r.next), s, r.next + 1))

RECURSIVE ParseLine(_, _)
RECURSIVE ParsePipe(_, _)
RECURSIVE Backs(_, _)

ParseBlock(s, i) ==
  LET r == ParseLine(s, i + 1) IN
  IF r.next = 0 \/ ~Peek(s, r.next, {")"}) THEN Panic ELSE ParseRedirs(r.cmd, s, r.next + 1)

ParseExec(s, i) ==
  IF Peek(s, i, {"("}) THEN ParseBlock(s, i)
  ELSE ParseArgs(s, ParseRedirs(ExecCmd, s, i))

ParsePipe(s, i) ==
  LET l == ParseExec(s, i)  r == ParsePipe(s, l.next + 1) IN
  IF l.next = 0 \/ ~Peek(s, l.next, {"|"}) THEN l
  ELSE IF r.next = 0 THEN Panic
  ELSE Cmd(PipeCmd(l.cmd, r.cmd), r.next)

\* The loop of parseline over &.
Backs(s, r) ==
  IF r.next # 0 /\ Peek(s, r.next, {"&"})
  THEN Backs(s, Cmd(BackCmd(r.cmd), r.next + 1)) ELSE r

ParseLine(s, i) ==
  LET l == Backs(s, ParsePipe(s, i))  r == ParseLine(s, l.next + 1) IN
  IF l.next = 0 \/ ~Peek(s, l.next, {";"}) THEN l
  ELSE IF r.next = 0 THEN Panic
  ELSE Cmd(ListCmd(l.cmd, r.cmd), r.next)

ParseCmd(s) ==
  LET r == ParseLine(s, 1) IN IF r.next # Len(s) + 1 THEN Panic ELSE r

RECURSIVE NulTerminate(_, _)
\* The words that get their nul; both says whether a pipe's right side does.
NulTerminate(c, both) ==
  CASE c.type = "exec" -> {c.argv[k] : k \in DOMAIN c.argv}
    [] c.type = "redir" -> NulTerminate(c.cmd, both) \cup {c.file}
    [] c.type = "back" -> NulTerminate(c.cmd, both)
    [] c.type \in {"pipe", "list"} -> NulTerminate(c.left, both) \cup
                                      (IF both THEN NulTerminate(c.right, both) ELSE {})

Ends(c) == NulTerminate(c, TRUE)

GetCmd(s) ==
  /\ line' = s
  /\ tree' = ParseCmd(s)
  /\ ended' = IF tree'.next = 0 THEN {} ELSE Ends(tree'.cmd)

Line == UNION {[1..n -> Token] : n \in 0..MaxLine}
Init == line = <<>> /\ tree = Panic /\ ended = {}
Next == tree = Panic /\ line = <<>> /\ \E s \in Line : GetCmd(s)
Spec == Init /\ [][Next]_vars
-----------------------------------------------------------------------------
(* Properties.  First the language, by its grammar.                                           *)

RECURSIVE IsLine(_)
RECURSIVE IsPipe(_)
RECURSIVE IsRedirs(_)
RECURSIVE IsArgs(_)
From(s, i) == SubSeq(s, i, Len(s))
IsRedirs(s) == s = <<>> \/ (Len(s) >= 2 /\ s[1] \in {"<", ">", "+"} /\ s[2] = "a" /\ IsRedirs(From(s, 3)))
IsArgs(s) ==
  \/ IsRedirs(s)
  \/ \E i \in DOMAIN s : IsRedirs(SubSeq(s, 1, i - 1)) /\ s[i] = "a" /\ IsArgs(From(s, i + 1))
IsBlock(s) ==
  \E i \in DOMAIN s : s[1] = "(" /\ s[i] = ")" /\ i > 1 /\ IsLine(SubSeq(s, 2, i - 1)) /\ IsRedirs(From(s, i + 1))
IsExec(s) == IsArgs(s) \/ IsBlock(s)
IsPipe(s) ==
  IsExec(s) \/ \E i \in DOMAIN s : s[i] = "|" /\ IsExec(SubSeq(s, 1, i - 1)) /\ IsPipe(From(s, i + 1))
IsLine(s) ==
  \E i \in 0..Len(s) : \E j \in i..Len(s) :
    /\ IsPipe(SubSeq(s, 1, i)) /\ \A k \in i + 1..j : s[k] = "&"
    /\ j = Len(s) \/ (s[j + 1] = ";" /\ IsLine(From(s, j + 2)))

Words(s) == {i \in DOMAIN s : s[i] = "a"}
Files(s) == {i \in Words(s) : i > 1 /\ s[i - 1] \in {"<", ">", "+"}}

RECURSIVE Redirected(_)
\* The file words of a command, with the descriptor each goes to.
Redirected(c) ==
  CASE c.type = "exec" -> {}
    [] c.type = "redir" -> Redirected(c.cmd) \cup {<<c.file, c.fd, c.trunc>>}
    [] c.type = "back" -> Redirected(c.cmd)
    [] c.type \in {"pipe", "list"} -> Redirected(c.left) \cup Redirected(c.right)

RECURSIVE MostArgs(_)
\* The most arguments of a simple command in c.
MostArgs(c) ==
  CASE c.type = "exec" -> Len(c.argv)
    [] c.type \in {"redir", "back"} -> MostArgs(c.cmd)
    [] c.type \in {"pipe", "list"} -> Max({MostArgs(c.left), MostArgs(c.right)})

TypeOK == tree.next \in 0..MaxLine + 1 /\ ended \subseteq 1..MaxLine

\* The recursive descent accepts exactly the lines of the grammar, but for
\* those with a command of MAXARGS words.
AcceptsGrammar ==
  line # <<>> /\ Cardinality(Words(line)) < MAXARGS => (tree.next # 0 <=> IsLine(line))

\* The terminating null of argv, argv[argc] = 0 after the loop of parseexec,
\* always has a place in the MAXARGS entries of an execcmd.
RoomForNull == tree.next # 0 => MostArgs(tree.cmd) < MAXARGS

\* Nothing typed is lost: each word of an accepted line is an argument or a
\* file of the command, on the right side of every operator, ended by a nul.
WordsKept ==
  tree.next # 0 =>
    /\ ended = Words(line)
    /\ Redirected(tree.cmd) = {<<i, IF line[i - 1] = "<" THEN 0 ELSE 1, line[i - 1] = ">">> : i \in Files(line)}
=============================================================================
