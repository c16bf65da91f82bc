------------------------ MODULE MCNotificationOutbox ------------------------
EXTENDS NotificationOutbox
CONSTANTS i1, i2, d1
MCTwoIntents == {i1, i2}
=============================================================================
