------------------------------ MODULE StringEx ------------------------------
(***************************************************************************)
(* The text helpers of src/base/src/string_ex.cpp.                         *)
(*                                                                         *)
(* A std::string is a sequence of bytes, each an integer in 0..255.        *)
(* Positions are 0-based, as in the code, and string::npos is NPOS.  The   *)
(* pure functions are operators: each loop of the code is a RECURSIVE      *)
(* operator whose parameters are the loop's variables.  GetSubStrBetween,  *)
(* whose loop need not terminate, is a process with one action per         *)
(* iteration.                                                              *)
(***************************************************************************)
EXTENDS Integers, Sequences, SequencesExt

CONSTANTS
  IntBits,    \* width of int: DexToHexString and StrToInt's range check
  LongBits    \* width of long: the range strtol saturates at

ASSUME IntBits \in Nat /\ IntBits >= 4 /\ IntBits % 4 = 0
ASSUME LongBits \in Nat /\ LongBits > IntBits

NPOS == -1
INT_MAX == 2^(IntBits - 1) - 1
INT_MIN == -(2^(IntBits - 1))
LONG_MAX == 2^(LongBits - 1) - 1
LONG_MIN == -(2^(LongBits - 1))

SPACE == 32
MINUS == 45
NUL == 0

-----------------------------------------------------------------------------
(* <cctype> in the "C" locale.  A byte >= 128 is a negative char; glibc    *)
(* classifies it as no digit and no letter and maps it to itself.         *)
IsDigitC(c) == c \in 48..57
IsUpperC(c) == c \in 65..90
IsLowerC(c) == c \in 97..122
IsAlphaC(c) == IsUpperC(c) \/ IsLowerC(c)
ToUpperC(c) == IF IsLowerC(c) THEN c - 32 ELSE c
ToLowerC(c) == IF IsUpperC(c) THEN c + 32 ELSE c

(* The std::string members the code calls.                                *)
Substr(s, pos, n) == SubSeq(s, pos + 1, Min({pos + n, Len(s)}))
MatchAt(s, t, i) == i + Len(t) <= Len(s) /\ SubSeq(s, i + 1, i + Len(t)) = t
Find(s, t, from) ==
  LET C == {i \in from..(Len(s) - Len(t)) : MatchAt(s, t, i)}
  IN IF C = {} THEN NPOS ELSE Min(C)
FindFirstNotOf(s, c) ==
  LET C == {i \in 0..(Len(s) - 1) : s[i + 1] # c}
  IN IF C = {} THEN NPOS ELSE Min(C)
FindLastNotOf(s, c) ==
  LET C == {i \in 0..(Len(s) - 1) : s[i + 1] # c}
  IN IF C = {} THEN NPOS ELSE Max(C)

-----------------------------------------------------------------------------
(* Mutant: transform writes into a copy, and the input is returned.       *)
UpperStr_Unchanged(str) == str

UpperStr(str) == [i \in DOMAIN str |-> ToUpperC(str[i])]

LowerStr(str) == [i \in DOMAIN str |-> ToLowerC(str[i])]

(* The loop of ReplaceStr: find src from pos, replace it by dst, continue  *)
(* after the inserted text.                                                *)
RECURSIVE ReplaceLoop(_, _, _, _)
(* Mutant: the search resumes one byte past the inserted text.            *)
ReplaceLoop_SkipOne(strTmp, src, dst, pos) ==
  LET p == Find(strTmp, src, pos)
  IN IF p = NPOS THEN strTmp
     ELSE ReplaceLoop(Substr(strTmp, 0, p) \o dst
                        \o SubSeq(strTmp, p + Len(src) + 1, Len(strTmp)),
                      src, dst, p + Len(dst) + 1)

ReplaceLoop(strTmp, src, dst, pos) ==
  LET p == Find(strTmp, src, pos)
  IN IF p = NPOS THEN strTmp
     ELSE ReplaceLoop(Substr(strTmp, 0, p) \o dst
                        \o SubSeq(strTmp, p + Len(src) + 1, Len(strTmp)),
                      src, dst, p + Len(dst))

ReplaceStr(str, src, dst) ==
  IF src = <<>> THEN str ELSE ReplaceLoop(str, src, dst, 0)

(* Mutant: the tail is erased at lastBound, one byte too early.            *)
TrimStr_EraseAtLast(str, cTrim) ==
  IF Len(str) = 1 /\ str[1] = cTrim THEN <<>>
  ELSE LET first == FindFirstNotOf(str, cTrim)
           s1 == IF first # NPOS THEN SubSeq(str, first + 1, Len(str)) ELSE str
           last == FindLastNotOf(s1, cTrim)
       IN IF last # NPOS /\ last # Len(s1) - 1 THEN SubSeq(s1, 1, last) ELSE s1

TrimStr(str, cTrim) ==
  IF Len(str) = 1 /\ str[1] = cTrim THEN <<>>
  ELSE LET first == FindFirstNotOf(str, cTrim)
           s1 == IF first # NPOS THEN SubSeq(str, first + 1, Len(str)) ELSE str
           last == FindLastNotOf(s1, cTrim)
       IN IF last # NPOS /\ last # Len(s1) - 1 THEN SubSeq(s1, 1, last + 1) ELSE s1

(* A part is kept if it is non-empty or empty parts are asked for.        *)
KeepPart(part, canEmpty) == part # <<>> \/ canEmpty
TrimIf(s, needTrim) == IF needTrim THEN TrimStr(s, SPACE) ELSE s

(* The loop of SplitStr: cut strTmp at the first sep, keep the part,      *)
(* continue after the separator; the rest is the last part.               *)
RECURSIVE SplitLoop(_, _, _, _, _)
(* Mutant: the rest starts one byte after the separator's first byte.     *)
SplitLoop_OneByteSep(strTmp, sep, canEmpty, needTrim, strs) ==
  LET pos == Find(strTmp, sep, 0)
      part == TrimIf(IF pos = NPOS \/ sep = <<>> THEN strTmp
                     ELSE Substr(strTmp, 0, pos), needTrim)
      strs2 == IF KeepPart(part, canEmpty) THEN Append(strs, part) ELSE strs
  IN IF pos = NPOS \/ sep = <<>> THEN strs2
     ELSE SplitLoop(Substr(strTmp, 1 + pos, Len(strTmp) - 1 - pos),
                    sep, canEmpty, needTrim, strs2)

SplitLoop(strTmp, sep, canEmpty, needTrim, strs) ==
  LET pos == Find(strTmp, sep, 0)
      part == TrimIf(IF pos = NPOS \/ sep = <<>> THEN strTmp
                     ELSE Substr(strTmp, 0, pos), needTrim)
      strs2 == IF KeepPart(part, canEmpty) THEN Append(strs, part) ELSE strs
  IN IF pos = NPOS \/ sep = <<>> THEN strs2
     ELSE SplitLoop(Substr(strTmp, Len(sep) + pos, Len(strTmp) - Len(sep) - pos),
                    sep, canEmpty, needTrim, strs2)

SplitStr(str, sep, canEmpty, needTrim) ==
  SplitLoop(TrimIf(str, needTrim), sep, canEmpty, needTrim, <<>>)

-----------------------------------------------------------------------------
(* DexToHexString: operator<< with std::hex prints an int as the unsigned *)
(* number of the same width, lowest digit last, no leading zeros.         *)
HexDigit(d, upper) == IF d < 10 THEN 48 + d ELSE (IF upper THEN 65 ELSE 97) + d - 10

RECURSIVE HexOf(_, _)
HexOf(u, upper) ==
  IF u < 16 THEN <<HexDigit(u, upper)>>
  ELSE Append(HexOf(u \div 16, upper), HexDigit(u % 16, upper))

(* Mutant: a negative value printed as a sign and its magnitude.          *)
DexToHexString_Signed(value, upper) ==
  IF value < 0 THEN <<MINUS>> \o HexOf(-value, upper) ELSE HexOf(value, upper)

DexToHexString(value, upper) == HexOf(value % 2^IntBits, upper)

(* strtol(addr, &end, 10) on a string whose first byte is a digit or '-': *)
(* an optional '-', then the longest run of digits.  end is the index     *)
(* after the run, or 0 if there is no digit; a value beyond long          *)
(* saturates and sets ERANGE.  The C string stops at the first NUL.       *)
DigitRun(s, from) ==
  Max({k \in 0..(Len(s) - from) : \A j \in from..(from + k - 1) : IsDigitC(s[j + 1])})
DecValue(ds) == FoldLeft(LAMBDA acc, c : 10 * acc + (c - 48), 0, ds)
Strtol(s) ==
  LET from == IF s[1] = MINUS THEN 1 ELSE 0
      k == DigitRun(s, from)
      mag == DecValue(SubSeq(s, from + 1, from + k))
      v == IF from = 1 THEN -mag ELSE mag
  IN [end    |-> IF k = 0 THEN 0 ELSE from + k,
      erange |-> v > LONG_MAX \/ v < LONG_MIN,
      result |-> IF v > LONG_MAX THEN LONG_MAX
                 ELSE IF v < LONG_MIN THEN LONG_MIN ELSE v]
ByteAt(s, i) == IF i < Len(s) THEN s[i + 1] ELSE NUL

(* StrToInt returns ok and, when ok, the value it stores; on failure the  *)
(* caller's value is left as it was.                                      *)
StrToIntFail == [ok |-> FALSE, value |-> 0]

(* Mutant: the lower bound INT_MIN is not checked.                        *)
StrToInt_NoMinCheck(str) ==
  IF str = <<>> \/ (~IsDigitC(str[1]) /\ str[1] # MINUS) THEN StrToIntFail
  ELSE LET r == Strtol(str)
       IN IF \/ r.end = 0 \/ ByteAt(str, r.end) # NUL \/ r.erange
             \/ r.result > INT_MAX
          THEN StrToIntFail
          ELSE [ok |-> TRUE, value |-> r.result]

StrToInt(str) ==
  IF str = <<>> \/ (~IsDigitC(str[1]) /\ str[1] # MINUS) THEN StrToIntFail
  ELSE LET r == Strtol(str)
       IN IF \/ r.end = 0 \/ ByteAt(str, r.end) # NUL \/ r.erange
             \/ r.result > INT_MAX \/ r.result < INT_MIN
          THEN StrToIntFail
          ELSE [ok |-> TRUE, value |-> r.result]

-----------------------------------------------------------------------------
(* The character-class tests: false on the empty string, else every byte *)
(* is in the class.                                                       *)
IsNumericStr(str) == str # <<>> /\ \A i \in DOMAIN str : IsDigitC(str[i])
IsAlphaStr(str) == str # <<>> /\ \A i \in DOMAIN str : IsAlphaC(str[i])
IsUpperStr(str) == str # <<>> /\ \A i \in DOMAIN str : IsUpperC(str[i])
IsLowerStr(str) == str # <<>> /\ \A i \in DOMAIN str : IsLowerC(str[i])

IsSubStr(str, sub) == sub # <<>> /\ str # <<>> /\ Find(str, sub, 0) # NPOS

IsSameTextStr(first, second) == UpperStr(first) = UpperStr(second)

(* (str[i] & 0x80) != 0 holds exactly for the bytes >= 128.               *)
IsAsciiString(str) == \A i \in DOMAIN str : str[i] < 128

-----------------------------------------------------------------------------
(* GetFirstSubStrBetween: the text between the first left and the first   *)
(* right after it, and the position of that right (NPOS if either is      *)
(* missing, the out parameter then being left alone).                     *)
(* Mutant: the substring taken from leftPos, the left delimiter included. *)
GetFirstSubStrBetween_WithLeft(str, left, right) ==
  LET leftPos == Find(str, left, 0)
      rightPos == Find(str, right, leftPos + Len(left))
  IN IF leftPos = NPOS \/ rightPos = NPOS THEN [pos |-> NPOS, sub |-> <<>>]
     ELSE [pos |-> rightPos, sub |-> Substr(str, leftPos, rightPos - leftPos)]

(* Mutant: the position of the left delimiter returned instead of the    *)
(* right one's.                                                           *)
GetFirstSubStrBetween_LeftPos(str, left, right) ==
  LET leftPos == Find(str, left, 0)
      rightPos == Find(str, right, leftPos + Len(left))
  IN IF leftPos = NPOS \/ rightPos = NPOS THEN [pos |-> NPOS, sub |-> <<>>]
     ELSE [pos |-> leftPos,
           sub |-> Substr(str, leftPos + Len(left), rightPos - (leftPos + Len(left)))]

GetFirstSubStrBetween(str, left, right) ==
  LET leftPos == Find(str, left, 0)
      rightPos == Find(str, right, leftPos + Len(left))
  IN IF leftPos = NPOS \/ rightPos = NPOS THEN [pos |-> NPOS, sub |-> <<>>]
     ELSE [pos |-> rightPos,
           sub |-> Substr(str, leftPos + Len(left), rightPos - (leftPos + Len(left)))]

(* GetSubStrBetween as a process: the caller's arguments, the locals      *)
(* strTmp, subString and pos of the loop, and the out vector sub.         *)
VARIABLES gsStr, gsLeft, gsRight, strTmp, subString, pos, sub, gsPc

loopVars == <<gsStr, gsLeft, gsRight, strTmp, subString, pos, sub, gsPc>>

(* Before the first call: the caller's vector is empty.                   *)
LoopIdle ==
  /\ gsStr = <<>> /\ gsLeft = <<>> /\ gsRight = <<>>
  /\ strTmp = <<>> /\ subString = <<>> /\ pos = NPOS /\ sub = <<>>
  /\ gsPc = "Idle"

(* Entry: strTmp is a copy of str, then the first GetFirstSubStrBetween.  *)
(* The caller's vector sub is appended to, never cleared.                 *)
GetSubStrBetween_Begin(str, left, right) ==
  LET r == GetFirstSubStrBetween(str, left, right)
  IN /\ gsPc = "Idle"
     /\ gsStr' = str /\ gsLeft' = left /\ gsRight' = right
     /\ strTmp' = str
     /\ pos' = r.pos
     /\ subString' = r.sub
     /\ gsPc' = "Loop"
     /\ UNCHANGED sub

(* One iteration: push the part, drop strTmp up to the right delimiter,   *)
(* and search again; subString is only overwritten on success.            *)
GetSubStrBetween_Iter ==
  LET rest == SubSeq(strTmp, pos + 1, Len(strTmp))
      r == GetFirstSubStrBetween(rest, gsLeft, gsRight)
  IN /\ gsPc = "Loop" /\ pos # NPOS
     /\ sub' = Append(sub, subString)
     /\ strTmp' = rest
     /\ pos' = r.pos
     /\ subString' = IF r.pos # NPOS THEN r.sub ELSE subString
     /\ UNCHANGED <<gsStr, gsLeft, gsRight, gsPc>>

(* The loop ends when no further pair is found.                            *)
GetSubStrBetween_Return ==
  /\ gsPc = "Loop" /\ pos = NPOS
  /\ gsPc' = "Done"
  /\ UNCHANGED <<gsStr, gsLeft, gsRight, strTmp, subString, pos, sub>>

====
