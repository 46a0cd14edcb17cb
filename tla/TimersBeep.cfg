SPECIFICATION TimersSpec
CONSTANTS
  tone = tone
  off = off
  sleep = sleep
  NoTimer = NoTimer
  Timer = {tone, off, sleep}
  ThreadTimer = sleep
  SoftTimer = {tone, off}
  TickMod = 32
  FirstTick = 0
  LastTick = 8
  MaxLag = 1
  InitTicks <- MCInitTicks
  Periodic = {tone}
  AppOp <- MCAppOp
  IsrStart = {}
  CallbackOp <- MCCallbackOp
PROPERTIES
  OnlyStartedExpire
