CONSTANTS
    Clients = {c1, c2, c3}
    NoClient = noClient
SPECIFICATION ClosingClientsSpec
PROPERTIES RequestsServed
