SPECIFICATION Spec
CONSTANTS
  c1 = c1
  c2 = c2
  c3 = c3
  desk = desk
  web = web
  mail = mail
  NoCred = NoCred
  Calls <- McTwoCalls
  DeviceLabels = {desk}
  BrowserLabels = {web}
  CodeLabels = {mail}
  StartLabels = {mail}
  MaxUrls = 2
INVARIANT FallbackCanBeFinished
