SPECIFICATION Spec
CONSTANTS
    Settings <- MCSettings
    Requests <- MCRequests
    PanelWords <- MCPanelWords
INVARIANTS
    TypeOK
    SocBandOrdered
    AcceptedIsShown
