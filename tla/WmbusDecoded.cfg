\* One handler of an encrypted telegram, a wrong key after the right one.
SPECIFICATION Spec
CONSTANTS
  h1 = h1
  h2 = h2
  t1 = t1
  t2 = t2
  f1 = f1
  f2 = f2
  Handlers = {h1}
  Telegrams = {t1, t2}
  TelegramOf <- Telegram
  Encrypted = {t1, t2}
  Fields = {f1, f2}
  Layout <- FieldsOf
  Keys <- RightThenWrong
  NoTelegram = NoTelegram
  MaxFaults = 0
INVARIANTS
  PublishedIsDecoded
