------------------------------- MODULE FileEx -------------------------------
(***************************************************************************)
(* The whole-file helpers of src/base/src/file_ex.cpp.                     *)
(*                                                                         *)
(* Each function is an operator from the file it is called on, its        *)
(* arguments and the outcome of the system calls it makes, to what it     *)
(* returns and leaves behind.  A file is a record: its kind ("none" when  *)
(* the path does not exist, "regular", or "node" for a file such as       *)
(* /proc/meminfo that lseek and tellg cannot measure) and its bytes.  The *)
(* searches use the std::string members modelled in StringEx.             *)
(***************************************************************************)
EXTENDS StringEx

CONSTANT MAX_FILE_LENGTH   \* 32 MiB in the code, scaled down

NoFile == [kind |-> "none", data |-> <<>>]

(* The result of a load: whether it succeeded and the caller's buffer.    *)
Loaded(ok, content) == [ok |-> ok, content |-> content]

(* seekg(0, end) then tellg, or lseek(fd, 0, SEEK_END): the file's length, *)
(* or -1 where the file cannot seek.                                      *)
TellEnd(f) == IF f.kind = "node" THEN -1 ELSE Len(f.data)

(* An fd argument: "invalid" (fd <= 0), "closed" (a number no longer      *)
(* open), or "open" on the file.  GetFileNameByFd reads the link          *)
(* /proc/self/fd/<fd>, which exists only for an open fd.                  *)
GetFileNameByFdOk(fd) == fd = "open"

-----------------------------------------------------------------------------
(* Mutant: a file of exactly MAX_FILE_LENGTH bytes is refused.            *)
LoadStringFromFile_OffByOne(f, content) ==
  IF f.kind = "none" THEN Loaded(FALSE, content)
  ELSE IF TellEnd(f) >= MAX_FILE_LENGTH THEN Loaded(FALSE, content)
  ELSE Loaded(TRUE, f.data)

(* The limit is checked on tellg's result; the stream is then copied to   *)
(* its end, whatever tellg said.                                          *)
LoadStringFromFile(f, content) ==
  IF f.kind = "none" THEN Loaded(FALSE, content)
  ELSE IF TellEnd(f) > MAX_FILE_LENGTH THEN Loaded(FALSE, content)
  ELSE Loaded(TRUE, f.data)

LoadStringFromFdToFile(fd, f, content) ==
  IF ~GetFileNameByFdOk(fd) THEN Loaded(FALSE, content)
  ELSE LoadStringFromFile(f, content)

(* lseek fails on a closed fd as on a node, and both go by the file name. *)
(* With nothing else writing the file, the lseek to the start succeeds    *)
(* and read returns fileLength bytes.  An empty file returns at once.     *)
LoadStringFromFd(fd, f, content) ==
  LET fileLength == IF fd = "open" THEN TellEnd(f) ELSE -1
  IN IF fd = "invalid" THEN Loaded(FALSE, content)
     ELSE IF fileLength > MAX_FILE_LENGTH THEN Loaded(FALSE, content)
     ELSE IF fileLength < 0 THEN LoadStringFromFdToFile(fd, f, content)
     ELSE IF fileLength = 0 THEN Loaded(TRUE, content)
     ELSE Loaded(TRUE, f.data)

(* The fgetc loop: byteCount counts the byte in hand, which is pushed     *)
(* only while byteCount <= MAX_FILE_LENGTH; past it the buffer is cleared. *)
RECURSIVE NodeFileLoop(_, _, _)
NodeFileLoop(rest, content, byteCount) ==
  IF rest = <<>> THEN Loaded(TRUE, content)
  ELSE IF byteCount > MAX_FILE_LENGTH THEN Loaded(FALSE, <<>>)
  ELSE NodeFileLoop(Tail(rest), Append(content, Head(rest)), byteCount + 1)

(* PathToRealPath and fopen succeed on an existing path.                  *)
LoadBufferFromNodeFile(f, content) ==
  IF f.kind = "none" THEN Loaded(FALSE, content)
  ELSE NodeFileLoop(f.data, content, 1)

LoadBufferFromFile(f, content) ==
  IF f.kind = "none" THEN Loaded(FALSE, content)
  ELSE IF TellEnd(f) > MAX_FILE_LENGTH THEN Loaded(FALSE, content)
  ELSE IF TellEnd(f) < 0 THEN LoadBufferFromNodeFile(f, content)
  ELSE IF TellEnd(f) = 0 THEN Loaded(TRUE, <<>>)
  ELSE Loaded(TRUE, f.data)

-----------------------------------------------------------------------------
(* The result of a save: what it returns and the file it leaves.          *)
Saved(ok, f) == [ok |-> ok, file |-> f]

(* ofstream::open creates a missing file and empties it with ios::trunc.  *)
Opened(f, truncated) ==
  [kind |-> IF f.kind = "none" THEN "regular" ELSE f.kind,
   data |-> IF truncated THEN <<>> ELSE f.data]

WithData(f, d) == [f EXCEPT !.data = d]

(* The outcome of the writes: "ok"; "write", the stream's write fails at  *)
(* once (a large write goes straight to the file); "close", the bytes sit *)
(* in the stream's buffer and writing them fails when the stream flushes *)
(* or is destroyed.  A failed write leaves nothing.                       *)
StreamFaults == {"ok", "write", "close"}

(* Mutant: the file is always opened with ios::trunc.                     *)
SaveStringToFile_AlwaysTrunc(f, content, truncated, writable, fault) ==
  LET g == Opened(f, TRUE)
  IN IF content = <<>> THEN Saved(TRUE, f)
     ELSE IF ~writable THEN Saved(FALSE, f)
     ELSE IF fault = "write" THEN Saved(FALSE, g)
     ELSE IF fault = "close" THEN Saved(TRUE, g)
     ELSE Saved(TRUE, WithData(g, g.data \o content))

(* Only file.fail() right after write is checked; an error when the       *)
(* destructor flushes is not seen.                                        *)
SaveStringToFile(f, content, truncated, writable, fault) ==
  LET g == Opened(f, truncated)
  IN IF content = <<>> THEN Saved(TRUE, f)
     ELSE IF ~writable THEN Saved(FALSE, f)
     ELSE IF fault = "write" THEN Saved(FALSE, g)
     ELSE IF fault = "close" THEN Saved(TRUE, g)
     ELSE Saved(TRUE, WithData(g, g.data \o content))

(* write and flush are not checked at all.                                *)
SaveBufferToFile(f, content, truncated, writable, fault) ==
  LET g == Opened(f, truncated)
  IN IF content = <<>> THEN Saved(TRUE, f)
     ELSE IF ~writable THEN Saved(FALSE, f)
     ELSE IF fault = "ok" THEN Saved(TRUE, WithData(g, g.data \o content))
     ELSE Saved(TRUE, g)

(* write(2) on an fd open at the end of the file returns len: -1 on an   *)
(* error (and on a closed fd), else the count of bytes written, which a   *)
(* full disk makes short.                                                 *)
SaveStringToFd(fd, f, content, len) ==
  IF fd = "invalid" THEN Saved(FALSE, f)
  ELSE IF content = <<>> THEN Saved(TRUE, f)
  ELSE IF len < 0 THEN Saved(FALSE, f)
  ELSE Saved(len = Len(content), WithData(f, f.data \o SubSeq(content, 1, len)))

-----------------------------------------------------------------------------
FileExists(f) == f.kind # "none"

(* Mutant: the search resumes one byte after the match, so matches may   *)
(* overlap.                                                               *)
RECURSIVE CountLoop_Overlap(_, _, _, _)
CountLoop_Overlap(str, subStr, position, count) ==
  LET p == Find(str, subStr, position)
  IN IF p = NPOS THEN count ELSE CountLoop_Overlap(str, subStr, p + 1, count + 1)

(* The loop of CountStrInStr: find from position, skip past the match.    *)
RECURSIVE CountLoop(_, _, _, _)
CountLoop(str, subStr, position, count) ==
  LET p == Find(str, subStr, position)
  IN IF p = NPOS THEN count ELSE CountLoop(str, subStr, p + Len(subStr), count + 1)

CountStrInStr(str, subStr) ==
  IF subStr = <<>> THEN 0 ELSE CountLoop(str, subStr, 0, 0)

StringExistsInFile(f, subStr, caseSensitive) ==
  LET r == LoadStringFromFile(f, <<>>)
  IN IF subStr = <<>> \/ ~r.ok THEN FALSE
     ELSE IF caseSensitive THEN Find(r.content, subStr, 0) # NPOS
     ELSE Find(LowerStr(r.content), LowerStr(subStr), 0) # NPOS

CountStrInFile(f, subStr, caseSensitive) ==
  LET r == LoadStringFromFile(f, <<>>)
  IN IF subStr = <<>> \/ ~r.ok THEN -1
     ELSE IF caseSensitive THEN CountStrInStr(r.content, subStr)
     ELSE CountStrInStr(LowerStr(r.content), LowerStr(subStr))

-----------------------------------------------------------------------------
(* The Rust entry points (UTILS_CXX_RUST) call the C++ function on a copy *)
(* of the buffer and copy the result back only on success; the buffer     *)
(* one appends what was loaded to the caller's vector.                    *)
RustLoadStringFromFile(f, content) ==
  LET r == LoadStringFromFile(f, content)
  IN Loaded(r.ok, IF r.ok THEN r.content ELSE content)

RustLoadStringFromFd(fd, f, content) ==
  LET r == LoadStringFromFd(fd, f, content)
  IN Loaded(r.ok, IF r.ok THEN r.content ELSE content)

RustLoadBufferFromFile(f, content) ==
  LET r == LoadBufferFromFile(f, content)
  IN Loaded(r.ok, IF r.ok THEN content \o r.content ELSE content)

====
