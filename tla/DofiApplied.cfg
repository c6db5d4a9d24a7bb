SPECIFICATION DofiSpec
CONSTANTS
  Keys <- MCKeys
  RegOf <- MCRegOf
  BankOf <- MCBankOf
  Tables <- MCTables
  Numbers = {"in_length_0"}
  Entries = {15, 167772150}
  Lost = lost
  Starts <- MCStarts
  Files <- MCFiles
  Leftovers <- MCLeftovers
  Calls = {1, 2}
  MaxInputs = 3
PROPERTY AppliedMeansWritten
CHECK_DEADLOCK FALSE
