SPECIFICATION Spec
CONSTANTS
    Messages <- MCMessages
    Flips = {1, 128}
    Prefix = 45
INVARIANTS PlacesHeld ArrivesAsSent NothingIsIgnored
