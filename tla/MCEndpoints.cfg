\* Transfers: two rounds through the auxiliary buffer, the second one partly filled, with
\* octets left for another call, and policies that handle each of the answers of
\* a driver.  Drivers: a pipe of two octets with two values each, which are written and
\* read one or two at a time, and lists of up to three buffers.
CONSTANTS
  StreamLength = 4
  AuxSize = 2
  MaxCount = 3
  MaxGarbage = 1
  Ops = {"sts_some_aux", "sts_atmost_aux", "sts_n_aux", "sts_drain_aux",
         "sts_n_cbc", "sts_atmost_cbc", "sts_drain_cbc", "sts_n", "sts_drain"}
  Policies = {{}, {"zero", "EAGAIN"}, {"EINTR", "other"}}
  SourceErrors = {"zero", "EAGAIN", "EINTR", "EIO"}
  SinkErrors = {"zero", "EAGAIN", "EINTR", "EIO", "ENOMEM"}
  PipeSize = 2
  OctetValues = 2
  Lists <- MCLists
  MaxAsked = 2
  MaxAccesses = 2
SPECIFICATION MCSpec
INVARIANTS InOrder SuccessIsExact SourceFailureLosesNothing LossIsBounded
PROPERTY DriversKeepContract
