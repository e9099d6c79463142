SPECIFICATION Spec
CONSTANTS
    Users = {u1}
    Devices = {d1}
    Notes = {}
    Calls = {c1}
    FirebaseAppName = "[DEFAULT]"
PROPERTIES
    UpsertStores
