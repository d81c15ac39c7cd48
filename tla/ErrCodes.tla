------------------------------ MODULE ErrCodes ------------------------------
(***************************************************************************)
(* The error-code layout of src/base/include/errors.h and the two module   *)
(* tables built on it, common_timer_errors.h and                          *)
(* common_mapped_file_errors.h.  An ErrCode is an int made of three       *)
(* fields: the subsystem from bit 21, the module in bits 16-20 and the    *)
(* code (an errno value) in the low 16 bits.                              *)
(*                                                                         *)
(* TLC's integers have 32 bits, the width of ErrCode.  Over the           *)
(* subsystems of the enum (at most 49) and modules below 32 the shifts     *)
(* stay under bit 27, so no wrap-around has to be modelled.               *)
(***************************************************************************)
EXTENDS Integers, Bitwise

(* MODULE_TIMER and MODULE_MAPPED_FILE come from common_errors.h, which   *)
(* is not in the repository.                                              *)
CONSTANTS MODULE_TIMER, MODULE_MAPPED_FILE

(* The errno values the tables use, as <cerrno> defines them on Linux.    *)
Errno == [ENOMEM |-> 12, ENOSYS |-> 38, EINVAL |-> 22, ENOENT |-> 2,
          EPERM |-> 1, ENODEV |-> 19, EEXIST |-> 17, EPIPE |-> 32,
          EOVERFLOW |-> 75, ENODATA |-> 61, EWOULDBLOCK |-> 11,
          ETIMEDOUT |-> 110, EAGAIN |-> 11, EBADF |-> 9]

SUBSYS_COMMON == 0
(* The subsystem enum runs from SUBSYS_COMMON = 0 to                      *)
(* SUBSYS_FILEMANAGEMENT = 49 without gaps.                               *)
Subsystems == 0..49

SUBSYSTEM_BIT_NUM == 21
MODULE_BIT_NUM == 16

(* Mutant: the subsystem shifted by 20, into the module field's top bit.  *)
ErrCodeOffset_SubsysBit20(subsystem, module) ==
  (subsystem * 2^20) | (module * 2^MODULE_BIT_NUM)

ErrCodeOffset(subsystem, module) ==
  (subsystem * 2^SUBSYSTEM_BIT_NUM) | (module * 2^MODULE_BIT_NUM)

BASE_ERR_OFFSET == ErrCodeOffset(SUBSYS_COMMON, 0)

(* The anonymous enum of errors.h: each name and its value.               *)
BaseErrors ==
  [ERR_OK |-> 0,
   ERR_NO_MEMORY |-> BASE_ERR_OFFSET + Errno.ENOMEM,
   ERR_INVALID_OPERATION |-> BASE_ERR_OFFSET + Errno.ENOSYS,
   ERR_INVALID_VALUE |-> BASE_ERR_OFFSET + Errno.EINVAL,
   ERR_NAME_NOT_FOUND |-> BASE_ERR_OFFSET + Errno.ENOENT,
   ERR_PERMISSION_DENIED |-> BASE_ERR_OFFSET + Errno.EPERM,
   ERR_NO_INIT |-> BASE_ERR_OFFSET + Errno.ENODEV,
   ERR_ALREADY_EXISTS |-> BASE_ERR_OFFSET + Errno.EEXIST,
   ERR_DEAD_OBJECT |-> BASE_ERR_OFFSET + Errno.EPIPE,
   ERR_OVERFLOW |-> BASE_ERR_OFFSET + Errno.EOVERFLOW,
   ERR_ENOUGH_DATA |-> BASE_ERR_OFFSET + Errno.ENODATA,
   ERR_WOULD_BLOCK |-> BASE_ERR_OFFSET + Errno.EWOULDBLOCK,
   ERR_TIMED_OUT |-> BASE_ERR_OFFSET + Errno.ETIMEDOUT]

SUCCEEDED(errCode) == errCode = BaseErrors.ERR_OK
FAILED(errCode) == errCode # BaseErrors.ERR_OK

(* Mutant: the timer offset built without its module.                     *)
COMMON_TIMER_ERR_OFFSET_NoModule == ErrCodeOffset(SUBSYS_COMMON, 0)

COMMON_TIMER_ERR_OFFSET == ErrCodeOffset(SUBSYS_COMMON, MODULE_TIMER)

TimerErrors ==
  [TIMER_ERR_OK |-> 0,
   TIMER_ERR_DEAL_FAILED |-> COMMON_TIMER_ERR_OFFSET + Errno.EAGAIN,
   TIMER_ERR_BADF |-> COMMON_TIMER_ERR_OFFSET + Errno.EBADF,
   TIMER_ERR_INVALID_VALUE |-> COMMON_TIMER_ERR_OFFSET + Errno.EINVAL]

COMMON_MAPPED_FILE_ERR_OFFSET == ErrCodeOffset(SUBSYS_COMMON, MODULE_MAPPED_FILE)

MappedFileErrors ==
  [MAPPED_FILE_ERR_OK |-> COMMON_MAPPED_FILE_ERR_OFFSET + 0,
   MAPPED_FILE_ERR_FAILED |-> COMMON_MAPPED_FILE_ERR_OFFSET + 1]

====
