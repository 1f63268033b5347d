CONSTANTS
    Clients = {c1, c2, c3}
    NoClient = noClient
SPECIFICATION ConnSpec
PROPERTIES RequestsServed
