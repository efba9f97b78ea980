SPECIFICATION Spec
CONSTANTS
  Null = Null
  Programs <- MCPrograms
  Requests <- MCRequests
  Accounts <- MCAccounts
  MaxRequests = 2
  Room = 3
INVARIANT RoutedRight
INVARIANT OneAnswer
INVARIANT FreedOnce
