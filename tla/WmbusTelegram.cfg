\* Overlapping handlers of a plain and an encrypted telegram, the right key after a
\* wrong one.
SPECIFICATION FairSpec
CONSTANTS
  h1 = h1
  h2 = h2
  t1 = t1
  t2 = t2
  f1 = f1
  f2 = f2
  Handlers = {h1, h2}
  Telegrams = {t1, t2}
  TelegramOf <- Telegram
  Encrypted = {t2}
  Fields = {f1, f2}
  Layout <- FieldsOf
  Keys <- WrongThenRight
  NoTelegram = NoTelegram
  MaxFaults = 1
PROPERTIES
  RichTypeStays
  DeviceTypeSettles
  UnknownIsOffered
  KnownIsPublished
