SPECIFICATION FrontendSpec
CONSTANTS
  Keys <- MCKeys
  RegOf <- MCRegOf
  BankOf <- MCBankOf
  Tables <- MCTables
  Numbers = {"in_length_0"}
  Entries = {15, 167772150}
  Lost = lost
  Starts <- MCStarts
  Files <- MCFiles
  Leftovers <- MCLeftovers
  Calls = {1, 2}
  MaxInputs = 3
  Params = {file, state}
  File = file
  AppState = state
  Updates = {1, 2}
  MaxClicks = 2
  MaxChanges = 1
  MaxFails = 1
  Boards = {b1, b2}
  Everyone = all
  FileRegs <- MCFileRegs
  Unread = nan
  Slots = {1, 2}
  MaxActs = 3
INVARIANTS PanelsTypeOK NoLostWritten TimerMatchesMode
PROPERTIES UntroubledApplyWritten UndisturbedRefreshShows MonitorShowsServer TriggerLabelTrue
CHECK_DEADLOCK FALSE
