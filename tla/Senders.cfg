SPECIFICATION SendersSpec
CONSTANTS
  Values <- MCValues
  NoValue = "none"
  Addresses <- MCAddresses
  Recipients = 2
  MaxUpdates = 2
  URLs <- MCURLs
  Others <- MCOthers
  Elsewhere = "elsewhere"
INVARIANTS
  SendIsSound
PROPERTIES
  ImplementsOneSend
  SendsEnd
  WebhookIsSound
