SPECIFICATION MCSpec
CONSTANTS
    k1 = k1
    k2 = k2
    empty = empty
    small = small
    large = large
    letters = letters
    Shared = Shared
    NoApp = NoApp
    Absent = Absent
    Slug = {notes}
    App = {a1, a2}
    Key = {k1, k2}
    Value = {small, large, letters}
    Device = {tablet}
    Visitor = {}
    Chars <- LetterChars
    Bytes <- LetterBytes
    Quota = 7
    MaxValue = 4
    MaxForgets = 1
    phone = phone
    laptop = laptop
    Browser = {phone, laptop}
    Page = {1, 2, 3}
    PageOf <- PagesOn
    Text = {t1}
    NoText = NoText
    Common = Common
    NoSettings = NoSettings
    NoPage = NoPage
    MaxCalls = 2
    MaxSwitches = 1
    MaxReloads = 1
INVARIANTS
  StoreFitsItsQuota
  CanAlwaysShrink
  AppsKeepApart
PROPERTIES
  OwnersChoiceHolds
  SharedIsNotKeptAlone
CHECK_DEADLOCK FALSE
