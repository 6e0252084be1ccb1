\* sts_n() with a sink that sometimes answers EAGAIN.
CONSTANTS
  StreamLength = 4
  AuxSize = 1
  MaxCount = 2
  MaxGarbage = 0
  Ops = {"sts_n"}
  Policies = {{}}
  SourceErrors = {}
  SinkErrors = {"EAGAIN"}
SPECIFICATION Spec
INVARIANT TransferIsExact
