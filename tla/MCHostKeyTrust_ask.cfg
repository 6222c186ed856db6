SPECIFICATION TrustSpec
CONSTANTS
  shell = shell
  side = side
  other = other
  a = a
  b = b
  k1 = k1
  k2 = k2
  NoKey = NoKey
  Checks = {shell, side, other}
  Hosts = {a, b}
  Keys = {k1, k2}
  HostOf <- TwoHosts
  Policy <- AskAskNew
  Faults = {"crash", "save"}
PROPERTIES
  TrustIsEarned
  DialogIsABroker
  EveryPromptIsAnswered
