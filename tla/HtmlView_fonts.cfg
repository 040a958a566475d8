SPECIFICATION HtmlSpec
CONSTANTS
  Documents <- MCDocuments
  Senders = {"list"}
  FirstPage = "notice"
  MaxLoads = 2
  MaxInputs_ = 1
  MaxFontKeys = 4
INVARIANT PaintsItsFonts
CHECK_DEADLOCK FALSE
