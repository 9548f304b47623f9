------------------------------ MODULE CString -------------------------------
(***************************************************************************)
(* The string functions of kernel/string.c and user/ulib.c and the         *)
(* conversions of printf.c, as loops over a small memory of bytes.  A call *)
(* is a step; `call' keeps its arguments, the memory it found and what it  *)
(* returned.  Addresses start at 1 and the nul is 0.                       *)
(***************************************************************************)
EXTENDS Integers, Sequences, FiniteSetsExt

CONSTANTS Size,    \* bytes of memory
          Byte,    \* their values, 0 among them
          HalfW    \* 2^31, scaled down: an int is -HalfW..HalfW - 1

VARIABLES mem, call,
          shown   \* the characters of the number that was printed
vars == <<mem, call, shown>>

Addr == 1..Size
CInt == -HalfW..HalfW - 1

RECURSIVE Up(_, _, _, _)
RECURSIVE Down(_, _, _, _)
\* The two loops of memmove.
Up(m, d, s, n) == IF n = 0 THEN m ELSE Up([m EXCEPT ![d] = m[s]], d + 1, s + 1, n - 1)
Down(m, d, s, n) == IF n = 0 THEN m ELSE Down([m EXCEPT ![d + n - 1] = m[s + n - 1]], d, s, n - 1)

KMemMove(m, d, s, n) == IF s < d /\ s + n > d THEN Down(m, d, s, n) ELSE Up(m, d, s, n)
UMemMove(m, d, s, n) == IF s > d THEN Up(m, d, s, n) ELSE Down(m, d, s, n)

RECURSIVE Fill(_, _, _, _)
Fill(m, d, c, n) == IF n <= 0 THEN m ELSE Fill([m EXCEPT ![d] = c], d + 1, c, n - 1)

RECURSIVE StrNCpy(_, _, _, _)
StrNCpy(m, d, s, n) ==
  IF n <= 0 THEN m
  ELSE IF m[s] = 0 THEN Fill(m, d, 0, n)
  ELSE StrNCpy([m EXCEPT ![d] = m[s]], d + 1, s + 1, n - 1)

RECURSIVE CopyShort(_, _, _, _)
\* The loop of safestrcpy, with --n tested first, and the nul after it.
CopyShort(m, d, s, n) ==
  IF n - 1 <= 0 \/ m[s] = 0 THEN [m EXCEPT ![d] = 0]
  ELSE CopyShort([m EXCEPT ![d] = m[s]], d + 1, s + 1, n - 1)
SafeStrCpy(m, d, s, n) == IF n <= 0 THEN m ELSE CopyShort(m, d, s, n)

RECURSIVE StrLen(_, _)
StrLen(m, s) == IF m[s] = 0 THEN 0 ELSE 1 + StrLen(m, s + 1)

\* Bytes are compared as unsigned char.
ByteDiff(a, b) == a - b

RECURSIVE MemCmp(_, _, _, _)
MemCmp(m, p, q, n) == IF n = 0 THEN 0 ELSE IF m[p] # m[q] THEN ByteDiff(m[p], m[q]) ELSE MemCmp(m, p + 1, q + 1, n - 1)

RECURSIVE StrNCmp(_, _, _, _)
StrNCmp(m, p, q, n) ==
  IF n = 0 THEN 0
  ELSE IF m[p] # 0 /\ m[p] = m[q] THEN StrNCmp(m, p + 1, q + 1, n - 1)
  ELSE ByteDiff(m[p], m[q])

RECURSIVE Digits(_, _)
\* The loop of printint, most significant digit first.
Digits(x, base) == IF x \div base = 0 THEN <<x % base>> ELSE Append(Digits(x \div base, base), x % base)
Minus == -1
\* -xx, made unsigned.
Magnitude(i) == (-i) % (2 * HalfW)
PrintInt(i, base, sign) ==
  IF sign /\ i < 0 THEN <<Minus>> \o Digits(Magnitude(i), base) ELSE Digits(i % (2 * HalfW), base)

Digit(c) == c
RECURSIVE AtoiFrom(_, _, _)
\* atoi, on digits; it stops at whatever is none.
AtoiFrom(s, i, n) == IF i > Len(s) \/ s[i] \notin 0..9 THEN n ELSE AtoiFrom(s, i + 1, n * 10 + Digit(s[i]))
Atoi(s) == AtoiFrom(s, 1, 0)

Start == [op |-> "none", d |-> 1, s |-> 1, n |-> 0, old |-> mem, ret |-> 0]
Call(op, d, s, n, m, r) ==
  mem' = m /\ call' = [op |-> op, d |-> d, s |-> s, n |-> n, old |-> mem, ret |-> r] /\ UNCHANGED shown
\* A string starts at s: there is a nul, and for a copy it stays out of d's way.
IsString(s) == \E e \in s..Size : mem[e] = 0
Apart(d, s, n) == d + n <= s \/ s + StrLen(mem, s) < d

Move(d, s, n) == d + n <= Size + 1 /\ s + n <= Size + 1 /\
  (Call("memmove", d, s, n, KMemMove(mem, d, s, n), 0) \/ Call("memmove", d, s, n, UMemMove(mem, d, s, n), 0))
Set(d, c, n) == d + n <= Size + 1 /\ Call("memset", d, c, n, Fill(mem, d, c, n), 0)
Copy(d, s, n) == d + n <= Size + 1 /\ IsString(s) /\ Apart(d, s, n) /\
  (Call("strncpy", d, s, n, StrNCpy(mem, d, s, n), 0) \/ Call("safestrcpy", d, s, n, SafeStrCpy(mem, d, s, n), 0))
Compare(p, q, n) == IsString(p) /\ IsString(q) /\
  (Call("strncmp", p, q, n, mem, StrNCmp(mem, p, q, n)) \/ (q + n <= Size + 1 /\ p + n <= Size + 1 /\ Call("memcmp", p, q, n, mem, MemCmp(mem, p, q, n))))
\* printint(i, 10, 1), and atoi of what it shows.
Show(i) ==
  /\ shown' = PrintInt(i, 10, TRUE)
  /\ call' = [Start EXCEPT !.op = "printint", !.s = i, !.ret = Atoi(shown')]
  /\ UNCHANGED mem

Init == mem \in [Addr -> Byte] /\ call = Start /\ shown = <<>>
Next == call.op = "none" /\
  \/ \E d \in Addr, s \in Addr, n \in 0..Size : Move(d, s, n) \/ Copy(d, s, n) \/ Compare(d, s, n)
  \/ \E d \in Addr, c \in Byte, n \in 0..Size : Set(d, c, n)
  \/ \E i \in CInt : Show(i)
Spec == Init /\ [][Next]_vars
-----------------------------------------------------------------------------
Old(a) == call.old[a]
OldLen == StrLen(call.old, call.s)
Outside(a) == a < call.d \/ a >= call.d + call.n
Least(a, b) == IF a < b THEN a ELSE b
Sign(x) == IF x > 0 THEN 1 ELSE IF x < 0 THEN -1 ELSE 0

TypeOK == mem \in [Addr -> Byte] /\ call.ret \in -Max(Byte)..HalfW

\* Nothing outside the destination is written, by any of the functions.
WritesInside == \A a \in Addr : Outside(a) \/ call.op \in {"strncmp", "memcmp"} => mem[a] = Old(a)

\* Both memmoves move the bytes that were there, also between areas that overlap.
MoveIsExact == call.op = "memmove" => \A i \in 0..call.n - 1 : mem[call.d + i] = Old(call.s + i)

\* strncpy and safestrcpy copy the string as far as it fits; the first fills up
\* with nuls and the second always ends in one.
CopyIsExact ==
  /\ call.op = "strncpy" => \A i \in 0..call.n - 1 : mem[call.d + i] = IF i < OldLen THEN Old(call.s + i) ELSE 0
  /\ call.op = "safestrcpy" /\ call.n > 0 =>
       \A i \in 0..Least(OldLen, call.n - 1) :
         mem[call.d + i] = IF i < Least(OldLen, call.n - 1) THEN Old(call.s + i) ELSE 0

\* The first difference decides: for memcmp among n bytes, for strncmp among
\* those up to the first string's nul.
CompareIsOrder ==
  LET n == IF call.op = "strncmp" THEN Least(call.n, 1 + Least(StrLen(mem, call.d), StrLen(mem, call.s))) ELSE call.n
      diff == {i \in 0..n - 1 : mem[call.d + i] # mem[call.s + i]} IN
  call.op \in {"strncmp", "memcmp"} =>
    Sign(call.ret) = IF diff = {} THEN 0 ELSE Sign(mem[call.d + Min(diff)] - mem[call.s + Min(diff)])

\* What printint shows of an int denotes that int, for the least one too, and
\* atoi takes back what it shows of one that is not negative.
PrintsTheValue ==
  call.op = "printint" =>
    LET body == IF shown[1] = Minus THEN Tail(shown) ELSE shown IN
    /\ \A k \in DOMAIN body : body[k] \in 0..9
    /\ call.s = IF shown[1] = Minus THEN -Atoi(body) ELSE call.ret
=============================================================================
