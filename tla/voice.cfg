SPECIFICATION Spec
CONSTANTS
  Singers = {jay, other, jj}
  Boot = jay
  Other = other
  Local = jj
  OnServer = {jay, jj}
  OnStick = {jj, jay}
  NoList = NoList
  Blank = Blank
  MaxCommands = 1
  MaxFd = 8
  MaxTalk = 4
  MaxWaiting = 2
INVARIANTS TypeOK AllWatched LinkIsWhole ListIsAsked ReplySpoken Survives
PROPERTY UtteranceIsRead
CHECK_DEADLOCK FALSE
