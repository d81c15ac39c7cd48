----------------------------- MODULE MCStringEx -----------------------------
(***************************************************************************)
(* Checks the string_ex operators of StringEx.tla and the file_ex         *)
(* operators of FileEx.tla against reference definitions over every      *)
(* input of a bounded domain.  A caller makes one call per step: a pure   *)
(* function, recorded in `call`, or a whole GetSubStrBetween run, whose   *)
(* iterations are steps of their own.  A file call records the file as it *)
(* was and the outcome of the system calls; nothing else writes the file *)
(* during the call.                                                       *)
(***************************************************************************)
EXTENDS FileEx, ErrCodes, TLC

CONSTANTS
  ReplaceAlphabet, TrimAlphabet, SplitAlphabet, IntAlphabet, CaseAlphabet,
  BetweenAlphabet, MaxLen, Seps, Lefts, Rights,
  FileBytes,    \* the bytes files hold
  MaxFileLen,   \* the longest file, longer than MAX_FILE_LENGTH
  MaxSaveLen,   \* the longest content saved or searched for
  Buffers,      \* what the caller's buffer holds before a load
  IoFaults      \* whether writes may fail (a full disk, EIO)

VARIABLE call

vars == <<call, loopVars>>

Strings(A) == BoundedSeq(A, MaxLen)

NoCall == [op |-> "none", in |-> <<>>]

Init == call = NoCall /\ LoopIdle

(* The caller makes one call at a time.  A pure call records its inputs. *)
LoopReset ==
  /\ gsStr' = <<>> /\ gsLeft' = <<>> /\ gsRight' = <<>>
  /\ strTmp' = <<>> /\ subString' = <<>> /\ pos' = NPOS /\ sub' = <<>>
  /\ gsPc' = "Idle"
AtRest == call = NoCall /\ gsPc = "Idle"
PureCall(op, in) == AtRest /\ call' = [op |-> op, in |-> in] /\ UNCHANGED loopVars

CallReplaceStr ==
  AtRest /\ \E s \in Strings(ReplaceAlphabet), src, dst \in BoundedSeq(ReplaceAlphabet, 2) :
    PureCall("ReplaceStr", <<s, src, dst>>)
CallTrimStr ==
  AtRest /\ \E s \in Strings(TrimAlphabet), c \in TrimAlphabet : PureCall("TrimStr", <<s, c>>)
CallSplitStr ==
  AtRest /\ \E s \in Strings(SplitAlphabet), sep \in Seps, canEmpty, needTrim \in BOOLEAN :
    PureCall("SplitStr", <<s, sep, canEmpty, needTrim>>)
CallDexToHexString ==
  AtRest /\ \E v \in INT_MIN..INT_MAX, upper \in BOOLEAN : PureCall("DexToHexString", <<v, upper>>)
CallStrToInt ==
  AtRest /\ \E s \in Strings(IntAlphabet) : PureCall("StrToInt", <<s>>)
CallCaseTests ==
  AtRest /\ \E s \in Strings(CaseAlphabet) : PureCall("Case", <<s>>)
CallGetSubStrBetween ==
  AtRest /\ \E s \in Strings(BetweenAlphabet), l \in Lefts, r \in Rights :
    GetSubStrBetween_Begin(s, l, r) /\ UNCHANGED call

Files == {NoFile} \cup [kind : {"regular", "node"}, data : BoundedSeq(FileBytes, MaxFileLen)]
Fds == {"invalid", "closed", "open"}
Contents == BoundedSeq(FileBytes, MaxSaveLen)
(* What write(2) may return for content c on fd.                          *)
WriteResults(fd, c) ==
  IF fd = "closed" THEN {-1} ELSE IF IoFaults THEN {-1} \cup 0..Len(c) ELSE {Len(c)}

(* Every loader on one file, fd and buffer; an open fd is on a file that   *)
(* exists.                                                                *)
CallLoad ==
  AtRest /\ \E f \in Files, fd \in Fds, b \in Buffers :
    (fd = "open" => FileExists(f)) /\ PureCall("Load", <<f, fd, b>>)
(* Saves go to regular or missing files, on writable paths or not.        *)
CallSave ==
  AtRest /\ \E op \in {"SaveStringToFile", "SaveBufferToFile"}, f \in Files,
     c \in Contents, truncated, writable \in BOOLEAN,
     fault \in IF IoFaults THEN StreamFaults ELSE {"ok"} :
    f.kind # "node" /\ PureCall(op, <<f, c, truncated, writable, fault>>)
CallSaveToFd ==
  AtRest /\ \E f \in Files, fd \in Fds, c \in Contents :
    \E len \in WriteResults(fd, c) :
      /\ f.kind # "node" /\ (fd = "open" => FileExists(f))
      /\ PureCall("SaveStringToFd", <<f, fd, c, len>>)
CallSearch ==
  AtRest /\ \E f \in Files, pat \in Contents, cs \in BOOLEAN : PureCall("Search", <<f, pat, cs>>)

(* An error code built by ErrCodeOffset from a subsystem of the enum, a  *)
(* module that fits its five bits, and a code the tables use.            *)
ErrModules == 0..(2^(SUBSYSTEM_BIT_NUM - MODULE_BIT_NUM) - 1)
ErrValues == {Errno[n] : n \in DOMAIN Errno} \cup {0, 1}
CallErrCode ==
  AtRest /\ \E s \in Subsystems, m \in ErrModules, e \in ErrValues : PureCall("ErrCode", <<s, m, e>>)

(* The caller takes the result and is ready for its next call.            *)
CallerReturn ==
  /\ call # NoCall \/ gsPc = "Done"
  /\ call' = NoCall /\ LoopReset

Next ==
  \/ CallReplaceStr \/ CallTrimStr \/ CallSplitStr \/ CallDexToHexString
  \/ CallStrToInt \/ CallCaseTests \/ CallGetSubStrBetween
  \/ CallLoad \/ CallSave \/ CallSaveToFd \/ CallSearch \/ CallErrCode
  \/ GetSubStrBetween_Iter /\ UNCHANGED call
  \/ GetSubStrBetween_Return /\ UNCHANGED call
  \/ CallerReturn

Spec == Init /\ [][Next]_vars

-----------------------------------------------------------------------------
(* Reference definitions, written from what each function is for.         *)

(* Every leftmost, non-overlapping occurrence of src replaced by dst.     *)
RECURSIVE RefReplaceAll(_, _, _)
RefReplaceAll(s, src, dst) ==
  IF Len(s) < Len(src) THEN s
  ELSE IF IsPrefix(src, s)
       THEN dst \o RefReplaceAll(SubSeq(s, Len(src) + 1, Len(s)), src, dst)
       ELSE <<Head(s)>> \o RefReplaceAll(Tail(s), src, dst)

(* From the first to the last byte that is not c; nothing if there is none. *)
RefTrim(s, c) ==
  LET I == {i \in DOMAIN s : s[i] # c}
  IN IF I = {} THEN <<>> ELSE SubSeq(s, Min(I), Max(I))

(* The pieces of s between the leftmost, non-overlapping separators.      *)
RECURSIVE RefSplitFrom(_, _, _)
RefSplitFrom(s, sep, cur) ==
  IF s = <<>> THEN <<cur>>
  ELSE IF IsPrefix(sep, s)
       THEN <<cur>> \o RefSplitFrom(SubSeq(s, Len(sep) + 1, Len(s)), sep, <<>>)
       ELSE RefSplitFrom(Tail(s), sep, Append(cur, Head(s)))
RefSplit(s, sep) == IF sep = <<>> THEN <<s>> ELSE RefSplitFrom(s, sep, <<>>)

HexValue(c) == IF IsDigitC(c) THEN c - 48
               ELSE IF c \in 65..70 THEN c - 55 ELSE c - 87
HexDigits(upper) == (48..57) \cup (IF upper THEN 65..70 ELSE 97..102)
ParseHex(s) == FoldLeft(LAMBDA acc, c : 16 * acc + HexValue(c), 0, s)

(* The C string: the bytes before the first NUL.                           *)
CStr(s) == LET N == {i \in DOMAIN s : s[i] = NUL}
           IN IF N = {} THEN s ELSE SubSeq(s, 1, Min(N) - 1)
IsDecimal(s) == IsNumericStr(s) \/ (s # <<>> /\ s[1] = MINUS /\ IsNumericStr(Tail(s)))
DecimalValue(s) == IF s[1] = MINUS THEN -DecValue(Tail(s)) ELSE DecValue(s)

-----------------------------------------------------------------------------
(* ReplaceStr (string_ex.cpp 43-57) replaces every occurrence of src, left *)
(* to right, the search resuming after the inserted text so that dst is   *)
(* never rescanned; an empty src leaves the string alone.                 *)
ReplaceStrMatchesReference ==
  call.op = "ReplaceStr" =>
    LET s == call.in[1] src == call.in[2] dst == call.in[3]
    IN ReplaceStr(s, src, dst) = IF src = <<>> THEN s ELSE RefReplaceAll(s, src, dst)

(* TrimStr (string_ex.cpp 59-77) strips cTrim from both ends, for every   *)
(* string that has a byte other than cTrim or is at most one byte long.   *)
TrimStrStripsPadding ==
  call.op = "TrimStr" =>
    LET s == call.in[1] c == call.in[2]
    IN (Len(s) >= 2 /\ RefTrim(s, c) = <<>>) \/ TrimStr(s, c) = RefTrim(s, c)

(* SplitStr (string_ex.cpp 93-114) returns the pieces between the         *)
(* separators, each trimmed when needTrim, empty ones kept only when      *)
(* canEmpty; with canEmpty and no trimming, joining the pieces with sep   *)
(* gives back the input.                                                  *)
SplitStrMatchesReference ==
  call.op = "SplitStr" =>
    LET s == call.in[1] sep == call.in[2] canEmpty == call.in[3] needTrim == call.in[4]
        pieces == RefSplit(TrimIf(s, needTrim), sep)
        trimmed == [i \in DOMAIN pieces |-> TrimIf(pieces[i], needTrim)]
        out == SplitStr(s, sep, canEmpty, needTrim)
    IN /\ out = SelectSeq(trimmed, LAMBDA p : KeepPart(p, canEmpty))
       /\ canEmpty /\ ~needTrim /\ sep # <<>> =>
            FlattenSeq([i \in DOMAIN out |-> IF i = 1 THEN out[i] ELSE sep \o out[i]]) = s

(* DexToHexString (string_ex.cpp 79-91) prints the int's two's-complement *)
(* bit pattern: hex digits of the requested case, no leading zero, at    *)
(* most IntBits/4 of them, reading back as value mod 2^IntBits.           *)
HexRoundTrip ==
  call.op = "DexToHexString" =>
    LET v == call.in[1] upper == call.in[2] out == DexToHexString(v, upper)
    IN /\ \A i \in DOMAIN out : out[i] \in HexDigits(upper)
       /\ 1 <= Len(out) /\ Len(out) <= IntBits \div 4
       /\ (Len(out) = 1 \/ out[1] # 48)
       /\ ParseHex(out) = v % 2^IntBits

(* StrToInt (string_ex.cpp 116-132) succeeds exactly on a C string that   *)
(* is an optional '-' and decimal digits with a value in int's range, and *)
(* then stores that value.                                                *)
StrToIntExact ==
  call.op = "StrToInt" =>
    LET s == call.in[1] c == CStr(s) r == StrToInt(s)
        fits == IsDecimal(c) /\ DecimalValue(c) \in INT_MIN..INT_MAX
    IN /\ r.ok = fits
       /\ r.ok => r.value = DecimalValue(c)

(* The case functions and class tests (string_ex.cpp 29-41, 134-254)      *)
(* agree: UpperStr of a string of letters is all upper case and LowerStr  *)
(* all lower case, and of nothing else; a string is the same text as its  *)
(* lower-case form; case mapping keeps digits and non-ASCII bytes.        *)
CaseFoldingConsistent ==
  call.op = "Case" =>
    LET s == call.in[1]
    IN /\ IsUpperStr(UpperStr(s)) = IsAlphaStr(s)
       /\ IsLowerStr(LowerStr(s)) = IsAlphaStr(s)
       /\ IsSameTextStr(s, LowerStr(s))
       /\ IsAsciiString(UpperStr(s)) = IsAsciiString(s)
       /\ IsNumericStr(s) => UpperStr(s) = s /\ LowerStr(s) = s

(* Every part GetSubStrBetween (string_ex.cpp 220-230) pushes lies between *)
(* a left and a right delimiter of the input, ending at the first right   *)
(* delimiter after the left one.                                          *)
SubStrBetweenDelimited ==
  \A k \in DOMAIN sub :
    /\ \E i \in 0..Len(gsStr) : MatchAt(gsStr, gsLeft \o sub[k] \o gsRight, i)
    /\ Find(sub[k] \o gsRight, gsRight, 0) = Len(sub[k])

(* Every iteration of GetSubStrBetween's loop shortens strTmp, so the     *)
(* loop ends.                                                             *)
SubStrBetweenProgress ==
  [][gsPc = "Loop" /\ gsPc' = "Loop" => Len(strTmp') < Len(strTmp)]_vars

-----------------------------------------------------------------------------
(* The largest number of occurrences of t in s that do not overlap.       *)
RefCount(s, t) ==
  LET Occ == {i \in 0..Len(s) : MatchAt(s, t, i)}
      Apart(P) == \A i, j \in P : i < j => j - i >= Len(t)
  IN Max({Cardinality(P) : P \in {P \in SUBSET Occ : Apart(P)}})

(* A save that returns true has put the bytes in the file: the content    *)
(* alone when truncating, after the old bytes when appending or writing   *)
(* to an fd; saving nothing changes nothing.  A save that returns false   *)
(* has kept the old bytes.  (file_ex.cpp 195-248, 323-342.)               *)
SavesReportTruth ==
  call.op \in {"SaveStringToFile", "SaveBufferToFile", "SaveStringToFd"} =>
    LET f == call.in[1]
        c == IF call.op = "SaveStringToFd" THEN call.in[3] ELSE call.in[2]
        appending == call.op = "SaveStringToFd" \/ ~call.in[3]
        r == CASE call.op = "SaveStringToFile" -> SaveStringToFile(f, c, call.in[3], call.in[4], call.in[5])
               [] call.op = "SaveBufferToFile" -> SaveBufferToFile(f, c, call.in[3], call.in[4], call.in[5])
               [] OTHER -> SaveStringToFd(call.in[2], f, c, call.in[4])
        expected == IF c = <<>> THEN f.data ELSE IF appending THEN f.data \o c ELSE c
    IN /\ r.ok => r.file.data = expected
       /\ ~r.ok => IsPrefix(f.data, r.file.data)

(* LoadStringFromFile, LoadStringFromFd, LoadBufferFromFile and their     *)
(* Rust entry points give a fresh buffer the same thing (the test         *)
(* testLoadStringFromFile001 compares them on /proc/meminfo): every file  *)
(* within MAX_FILE_LENGTH, regular or not, is loaded whole, and a regular *)
(* file beyond it or a missing one is refused with the buffer untouched, *)
(* as is an fd that is invalid or closed.                                 *)
RegularLoadsAgree ==
  call.op = "Load" =>
    LET f == call.in[1] fd == call.in[2] b == call.in[3]
        within == FileExists(f) /\ Len(f.data) <= MAX_FILE_LENGTH
        expect == Loaded(within, IF within THEN f.data ELSE b)
        byFd == IF fd = "open" THEN expect ELSE Loaded(FALSE, b)
    IN (within \/ f.kind # "node") =>
         /\ LoadStringFromFile(f, b) = expect
         /\ LoadBufferFromFile(f, b) = expect
         /\ LoadStringFromFd(fd, f, b) = byFd
         /\ RustLoadStringFromFile(f, b) = expect
         /\ RustLoadStringFromFd(fd, f, b) = byFd
         /\ RustLoadBufferFromFile(f, b) = expect

(* CountStrInFile (file_ex.cpp 373-414) counts the occurrences of subStr  *)
(* that do not overlap, on the text and the pattern in lower case unless  *)
(* the search is case-sensitive, and gives -1 for an empty pattern or a   *)
(* file it cannot load; StringExistsInFile says whether that count is     *)
(* positive.                                                              *)
SearchMatchesReference ==
  call.op = "Search" =>
    LET f == call.in[1] pat == call.in[2] cs == call.in[3]
        Folded(s) == IF cs THEN s ELSE LowerStr(s)
        loaded == LoadStringFromFile(f, <<>>)
        count == CountStrInFile(f, pat, cs)
    IN /\ count = IF pat = <<>> \/ ~loaded.ok THEN -1
                  ELSE RefCount(Folded(loaded.content), Folded(pat))
       /\ StringExistsInFile(f, pat, cs) = (count > 0)

(* What file_ex promises a caller of any loader: a load that succeeds     *)
(* leaves the caller's buffer holding the file's bytes and nothing else,  *)
(* whatever it held before (the comment of LoadBufferFromFile, line 285:  *)
(* "If the buffer is not empty, then overwrite"), and a file longer than  *)
(* MAX_FILE_LENGTH is refused (testLoadStringFromFile006,                 *)
(* testLoadStringFromFd005).                                              *)
LoadsReplaceBuffer ==
  call.op = "Load" =>
    LET f == call.in[1] fd == call.in[2] b == call.in[3]
        Kept(r) == r.ok => r.content = f.data /\ Len(f.data) <= MAX_FILE_LENGTH
    IN /\ Kept(LoadStringFromFile(f, b)) /\ Kept(LoadBufferFromFile(f, b))
       /\ Kept(LoadStringFromFd(fd, f, b)) /\ Kept(RustLoadStringFromFile(f, b))
       /\ Kept(RustLoadStringFromFd(fd, f, b)) /\ Kept(RustLoadBufferFromFile(f, b))

(* The fields of a code, as the ErrCode layout of errors.h (lines 28-36)  *)
(* draws them: bits 29-31 reserved, the subsystem in bits 21-28, the      *)
(* module in bits 16-20 and the code in bits 0-15.                        *)
ReservedOf(c) == shiftR(c, 29)
SubsystemOf(c) == shiftR(c, SUBSYSTEM_BIT_NUM) % 2^8
ModuleOf(c) == shiftR(c, MODULE_BIT_NUM) % 2^(SUBSYSTEM_BIT_NUM - MODULE_BIT_NUM)
CodeOf(c) == c % 2^MODULE_BIT_NUM

(* ErrCodeOffset keeps the fields apart: a code made of the offset of any  *)
(* subsystem of the enum and any module that fits its field, plus a code  *)
(* the tables use, reads back as that subsystem, module and code, with    *)
(* the reserved bits clear.                                                *)
ErrCodeFieldsDecode ==
  call.op = "ErrCode" =>
    LET c == ErrCodeOffset(call.in[1], call.in[2]) + call.in[3]
    IN /\ ReservedOf(c) = 0
       /\ SubsystemOf(c) = call.in[1]
       /\ ModuleOf(c) = call.in[2]
       /\ CodeOf(c) = call.in[3]

(* The names of errors.h, common_timer_errors.h and                       *)
(* common_mapped_file_errors.h never share a value other than the success *)
(* value 0 of ERR_OK and TIMER_ERR_OK: a code the caller holds is the     *)
(* value of at most one name, so it is never told one error for another. *)
ErrCodeTablesDistinct ==
  call.op = "ErrCode" =>
    LET all == BaseErrors @@ TimerErrors @@ MappedFileErrors
        c == ErrCodeOffset(call.in[1], call.in[2]) + call.in[3]
    IN c # 0 => Cardinality({n \in DOMAIN all : all[n] = c}) <= 1

-----------------------------------------------------------------------------
(* Values of the constants.  Bytes: 0 NUL, 32 ' ', 44 ',', 45 '-',       *)
(* 48.. digits, 65 'A', 90 'Z', 91 '[', 93 ']', 97 'a', 98 'b',           *)
(* 122 'z', 200 a non-ASCII byte.                                         *)
MCReplaceAlphabet == {97, 98}
MCTrimAlphabet == {32, 97}
MCSplitAlphabet == {32, 44, 97}
MCIntAlphabet == {0, 45, 48, 49, 50, 55, 56, 57, 97}
MCCaseAlphabet == {48, 65, 90, 97, 122, 200}
MCBetweenAlphabet == {91, 93, 97}
MCSeps == {<<>>, <<44>>, <<44, 32>>, <<44, 44>>}
MCLefts == {<<91>>, <<93>>, <<91, 91>>}
MCLeftsWithEmpty == MCLefts \cup {<<>>}
MCRights == {<<>>, <<93>>, <<91>>}
MCFileBytes == {65, 97}
MCFreshBuffers == {<<>>}
MCUsedBuffers == {<<>>, <<97>>}

====
