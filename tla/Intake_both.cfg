CONSTANTS
  Keys = {yt, ip}
  ChatKeys = {yt}
  FormKeys = {ip}
  ChatTexts = {"clean", "chatter", "harmful"}
  FormTexts = {"clean", "cover", "name", "invalid"}
  LlmConfigured = TRUE
  Faults = {"crash", "redis", "postgres", "ended", "token"}
  MaxFaults = 1
  MaxMessages = 2
  MaxPosts = 1
  PageSize = 1
  SeenLimit = 1
SPECIFICATION Spec
CHECK_DEADLOCK FALSE
INVARIANTS
  TypeOK
  AtMostOnce
  OnlyScreenedEnqueued
PROPERTIES
  FirstComeFirstServed
  HeardWhileListening
