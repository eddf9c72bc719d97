SPECIFICATION Spec
CONSTANTS
    Endpoint = {e1}
    Worker = {w1}
    MaxRequest = 2
    MaxTask = 3
    MaxReady = 1
    MaxNetwork = 1
INVARIANTS
    RequestsAreTracked
    SuccessIsOfTheLastRequest
PROPERTIES
    LoginsSettle
