SPECIFICATION Spec
CONSTANTS
  Clients <- MCClients
  Panels <- MCPanels
  ClientOf <- MCClientOf
  Cap = 1
  MaxSockets = 2
  MaxTimers = 2
  MaxMounts = 2
  MaxFaults = 1
INVARIANTS HubsAreOwned NothingIsLeftBehind
PROPERTIES ImplementsContract PanelsSettle HubsStop
